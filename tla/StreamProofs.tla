---------------------------- MODULE StreamProofs ----------------------------
(* Proofs about Stream, for every sequence of arrivals, every set of Write calls  *)
(* and every budget: how it ends, what its writers are told, what Read returns,    *)
(* what the session commits, what it promises its users (module Duplex), and what   *)
(* it asks of its budget (module Budget) and is charged for.                      *)
EXTENDS Stream, SequenceTheorems, FiniteSetTheorems, TLAPS

(* Steps that leave the processing slot and the frame it follows alone: they   *)
(* move no control point of the read pump, and the coordinator not to a frame  *)
(* it has yet to decode.                                                      *)
SlotAlone ==
  /\ UNCHANGED <<reader, processing>>
  /\ at' \in Undecoded => at \in Undecoded

LEMMA PeerLeavesSlot ==
  StopGoesOn \/ PeerSends \/ PeerHangsUp => SlotAlone
BY DEF StopGoesOn, PeerSends, PeerHangsUp, SlotAlone, readPump

LEMMA WriterLeavesSlot ==
  WriteReaches \/ WriteReturns \/ WriterExits => SlotAlone
BY DEF WriteReaches, WriteReturns, WriterExits, WriterRest, SlotAlone, readPump

LEMMA ObserveLeavesSlot ==
  ObserveReserves \/ ObserveQueues \/ ObserveFails => SlotAlone
<1>1. ObserveReserves => SlotAlone
  BY DEF ObserveReserves, CoordinatorRest, SlotAlone, readPump
<1>2. ObserveQueues => SlotAlone
  BY DEF ObserveQueues, Observing, Observed, CoordinatorRest, SlotAlone,
         Undecoded, readPump
<1>3. ASSUME ObserveFails PROVE SlotAlone
  <2>1. UNCHANGED <<reader, processing>>
    BY <1>3 DEF ObserveFails, CoordinatorRest, readPump
  <2>2. at \in DOMAIN Observed /\ ObserveError
    BY <1>3 DEF ObserveFails, Observing
  <2>3. CASE at = "refused"
    BY <2>1, <2>2, <2>3 DEF ObserveError, SlotAlone, Undecoded
  <2>4. CASE at \in {"rawBye", "packetBye"}
    BY <2>1, <2>2, <2>4 DEF ObserveError, SlotAlone, Undecoded
  <2>5. CASE at \in {"rawOut", "packetOut"}
    BY <2>1, <2>2, <2>5 DEF ObserveError, SlotAlone, Undecoded
  <2>6. CASE at = "rawIn"
    BY <2>1, <2>6 DEF SlotAlone, Undecoded
  <2>7. CASE at = "packetIn"
    <3>1. at' \in {Observed["packetIn"].then, "stopping"}
      BY <2>2, <2>7 DEF ObserveError
    <3>2. Observed["packetIn"].then = "enqueue"
      BY DEF Observed
    <3> QED
      BY <2>1, <3>1, <3>2 DEF SlotAlone, Undecoded
  <2> QED
    BY <2>2, <2>3, <2>4, <2>5, <2>6, <2>7 DEF Observed
<1> QED
  BY <1>1, <1>2, <1>3

LEMMA DeliveryLeavesSlot ==
  \/ Enqueue \/ Discard \/ Deliver \/ PendingRefused \/ NoticeStop
  \/ Withdraw \/ HandOff
  => SlotAlone
<1>1. Enqueue => SlotAlone
  BY DEF Enqueue, DeliverArrival, SlotAlone, Undecoded
<1>2. Discard \/ Withdraw \/ HandOff => SlotAlone
  BY DEF Discard, Withdraw, HandOff, DeliverArrival, SlotAlone, Undecoded
<1>3. Deliver \/ PendingRefused => SlotAlone
  BY DEF Deliver, PendingRefused, SlotAlone, Undecoded
<1>4. NoticeStop => SlotAlone
  BY DEF NoticeStop, SlotAlone, Undecoded
<1> QED
  BY <1>1, <1>2, <1>3, <1>4

LEMMA OutboundLeavesSlot ==
  \/ \E w \in Writes : TakeWrite(w)
  \/ Encode \/ Refuse \/ GiveJob \/ FinishWrite \/ Confirm \/ ReleaseWrite
  => SlotAlone
<1>1. (\E w \in Writes : TakeWrite(w)) => SlotAlone
  BY DEF TakeWrite, OutboundRest, SlotAlone, Undecoded, readPump
<1>2. Encode \/ Refuse \/ GiveJob => SlotAlone
  BY DEF Encode, Refuse, GiveJob, Observe, OutboundRest, SlotAlone, Undecoded,
         readPump
<1>3. FinishWrite \/ Confirm \/ ReleaseWrite => SlotAlone
  BY DEF FinishWrite, Confirm, ReleaseWrite, Observe, OutboundRest, SlotAlone,
         Undecoded, readPump
<1> QED
  BY <1>1, <1>2, <1>3

LEMMA EndingLeavesSlot ==
  \/ TakeShutdown \/ GiveBye \/ AwaitBye \/ FinishShutdown
  \/ CoordinatorReturns \/ Linger \/ LingerEnds \/ RunStops \/ Finish
  => SlotAlone
<1>1. TakeShutdown \/ GiveBye => SlotAlone
  BY DEF TakeShutdown, GiveBye, ByeRest, SlotAlone, Undecoded, readPump
<1>2. AwaitBye \/ FinishShutdown => SlotAlone
  BY DEF AwaitBye, FinishShutdown, Observe, ByeRest, SlotAlone, Undecoded,
         readPump
<1>3. \/ CoordinatorReturns \/ Linger \/ LingerEnds \/ RunStops \/ Finish
      => SlotAlone
  BY DEF CoordinatorReturns, Linger, LingerEnds, RunStops, Finish, RunRest,
         SlotAlone, Undecoded, readPump
<1> QED
  BY <1>1, <1>2, <1>3

LEMMA DispatchLeavesSlot == Dispatch => SlotAlone
BY DEF Dispatch, TakeRecord, SinkReturns, SinkFailure, StartDrain,
       DispatcherExits, DispatchRest, SlotAlone, readPump

LEMMA CallsLeaveSlot ==
  \/ \E w \in Writes : WriteProceeds(w) \/ WriteStarts(w) \/ WriteCancelled(w)
  \/ ReadTakes \/ ReadReleases \/ ReadEnds
  \/ ShutdownStarts \/ ShutdownReturns \/ AbortShutdown \/ CloseCalled
  \/ ContextEnds \/ WatchContext
  => SlotAlone
<1>1. (\E w \in Writes :
         WriteProceeds(w) \/ WriteStarts(w) \/ WriteCancelled(w)) => SlotAlone
  BY DEF WriteProceeds, WriteStarts, WriteReserves, WriteAcquires,
         WriteRejected, WriteAnswered, WriteCancelled, WriteRest, SlotAlone,
         readPump
<1>2. ReadTakes \/ ReadReleases \/ ReadEnds => SlotAlone
  BY DEF ReadTakes, ReadReleases, ReadEnds, ReadRest, SlotAlone, readPump
<1>3. \/ ShutdownStarts \/ ShutdownReturns \/ AbortShutdown \/ CloseCalled
      \/ ContextEnds \/ WatchContext
      => SlotAlone
  BY DEF ShutdownStarts, ShutdownReturns, AbortShutdown, CloseCalled,
         ContextEnds, WatchContext, EndRest, SlotAlone, readPump
<1> QED
  BY <1>1, <1>2, <1>3

(* Only the read pump, the coordinator's taking of a frame and its decoding     *)
(* move the slot, and each hands it on.                                       *)
LEMMA NextKeepsOneFrameInFlight ==
  OneFrameInFlight /\ [Next]_vars => OneFrameInFlight'
<1> SUFFICES ASSUME OneFrameInFlight, [Next]_vars PROVE OneFrameInFlight'
  OBVIOUS
<1>1. CASE SlotAlone
  BY <1>1 DEF SlotAlone, OneFrameInFlight
<1>2. CASE AcquireProcessing
  BY <1>2 DEF AcquireProcessing, ReaderRest, OneFrameInFlight
<1>3. CASE ReadFrame
  BY <1>3 DEF ReadFrame, ReaderRest, OneFrameInFlight
<1>4. CASE ReadFails
  BY <1>4 DEF ReadFails, ReaderRest, OneFrameInFlight
<1>5. CASE ReaderGivesUp
  BY <1>5 DEF ReaderGivesUp, ReaderRest, OneFrameInFlight
<1>6. CASE TakeFrame
  BY <1>6 DEF TakeFrame, OneFrameInFlight
<1>7. CASE Decode
  BY <1>7 DEF Decode, Observe, OneFrameInFlight, Undecoded
<1>8. CASE UNCHANGED vars
  BY <1>8 DEF vars, readPump, OneFrameInFlight
<1> QED
  BY <1>1, <1>2, <1>3, <1>4, <1>5, <1>6, <1>7, <1>8, PeerLeavesSlot,
     WriterLeavesSlot, ObserveLeavesSlot, DeliveryLeavesSlot,
     OutboundLeavesSlot, EndingLeavesSlot, DispatchLeavesSlot, CallsLeaveSlot
     DEF Next, System, User, ReadPump, Coordinate

(* The processing slot follows the frame: no frame is read while another is     *)
(* not yet decoded, and the slot is never put back into a full channel.       *)
THEOREM SpecOneFrameInFlight == Spec => []OneFrameInFlight
<1>1. Init => OneFrameInFlight
  BY DEF Init, OneFrameInFlight, Undecoded
<1> QED
  BY <1>1, NextKeepsOneFrameInFlight, PTL DEF Spec
-----------------------------------------------------------------------------
(***************************************************************************)
(* DisconnectIsLast.  It is not inductive: that nothing follows the          *)
(* disconnect depends on where the coordinator stands once it has handed the *)
(* job over, and on the write pump not being busy with another one.           *)
(***************************************************************************)
ByePoints == {"byeWriting", "rawBye", "packetBye", "bye", "byeFailed"}
OnWire    == InQueue(wire, Bye)
mail      == <<wire, writer, job, outcome, farewell>>

ByeIInv ==
  /\ wire \in Seq(Packets \cup {None}) /\ job \in Packets \cup {None}
  /\ writer = "writing" => ~OnWire
  /\ job = Bye \/ OnWire => at \in ByePoints \cup Over
  /\ job = Bye /\ (writer = "sent" \/ outcome = "ok") => OnWire
  /\ at = "byeWriting" => job = Bye
  /\ at \in {"rawBye", "packetBye"} => OnWire
  /\ at = "bye" /\ HasDisconnect => OnWire
  /\ at \in OnWrite => current \in Writes
  /\ DisconnectIsLast

(* Steps that neither touch the mail nor bring the coordinator to a point at    *)
(* which the invariant asks something of it.                                  *)
MailAlone ==
  /\ UNCHANGED mail
  /\ at \in ByePoints \cup Over => at' \in ByePoints \cup Over
  /\ at' \in {"byeWriting", "rawBye", "packetBye", "bye"} => at' = at
  /\ at' \in OnWrite => at \in OnWrite /\ current' = current

LEMMA PeerLeavesMail ==
  StopGoesOn \/ PeerSends \/ PeerHangsUp \/ ReadPump => MailAlone
<1>1. StopGoesOn \/ PeerSends \/ PeerHangsUp => MailAlone
  BY DEF StopGoesOn, PeerSends, PeerHangsUp, MailAlone, mail, writePump, endCall
<1>2. ReadPump => MailAlone
  BY DEF ReadPump, AcquireProcessing, ReadFrame, ReadFails, ReaderGivesUp,
         ReaderRest, MailAlone, mail, writePump, endCall
<1> QED
  BY <1>1, <1>2

LEMMA InboundLeavesMail ==
  \/ ObserveReserves \/ TakeFrame \/ Decode \/ Enqueue \/ Discard
  \/ Deliver \/ PendingRefused \/ NoticeStop \/ Withdraw \/ HandOff
  => MailAlone
<1> USE DEF MailAlone, mail, writePump, endCall, ByePoints, Over, OnWrite
<1>1. ObserveReserves => MailAlone
  BY DEF ObserveReserves, CoordinatorRest
<1>2. TakeFrame \/ Decode => MailAlone
  BY DEF TakeFrame, Decode, Observe, InboundRest
<1>3. Enqueue \/ HandOff => MailAlone
  BY DEF Enqueue, HandOff, DeliverArrival, InboundRest
<1>4. Discard \/ Deliver \/ PendingRefused \/ Withdraw => MailAlone
  BY DEF Discard, Deliver, PendingRefused, Withdraw, InboundRest
<1>5. NoticeStop => MailAlone
  BY DEF NoticeStop, InboundRest
<1> QED
  BY <1>1, <1>2, <1>3, <1>4, <1>5

LEMMA OutboundLeavesMail ==
  Encode \/ Refuse \/ FinishWrite \/ Confirm \/ ReleaseWrite => MailAlone
<1> USE DEF MailAlone, mail, writePump, endCall, ByePoints, Over, OnWrite
<1>1. Encode \/ Refuse => MailAlone
  BY DEF Encode, Refuse, Observe, OutboundRest
<1>2. FinishWrite \/ Confirm \/ ReleaseWrite => MailAlone
  BY DEF FinishWrite, Confirm, ReleaseWrite, Observe, OutboundRest
<1> QED
  BY <1>1, <1>2

LEMMA RunLeavesMail ==
  CoordinatorReturns \/ Linger \/ LingerEnds \/ RunStops \/ Finish => MailAlone
BY DEF CoordinatorReturns, Linger, LingerEnds, RunStops, Finish, RunRest,
       MailAlone, mail, writePump, endCall, ByePoints, Over, OnWrite

LEMMA DispatchLeavesMail == Dispatch => MailAlone
BY DEF Dispatch, TakeRecord, SinkReturns, SinkFailure, StartDrain,
       DispatcherExits, DispatchRest, MailAlone, mail, writePump, endCall

LEMMA CallsLeaveMail ==
  \/ \E w \in Writes : WriteProceeds(w) \/ WriteStarts(w) \/ WriteCancelled(w)
  \/ ReadTakes \/ ReadReleases \/ ReadEnds
  \/ ShutdownStarts \/ ShutdownReturns \/ AbortShutdown \/ CloseCalled
  \/ ContextEnds \/ WatchContext
  => MailAlone
<1>1. (\E w \in Writes :
         WriteProceeds(w) \/ WriteStarts(w) \/ WriteCancelled(w)) => MailAlone
  BY DEF WriteProceeds, WriteStarts, WriteReserves, WriteAcquires,
         WriteRejected, WriteAnswered, WriteCancelled, WriteRest, MailAlone,
         mail, writePump, endCall
<1>2. ReadTakes \/ ReadReleases \/ ReadEnds => MailAlone
  BY DEF ReadTakes, ReadReleases, ReadEnds, ReadRest, MailAlone, mail,
         writePump, endCall
<1>3. \/ ShutdownStarts \/ ShutdownReturns \/ AbortShutdown \/ CloseCalled
      \/ ContextEnds \/ WatchContext
      => MailAlone
  BY DEF ShutdownStarts, ShutdownReturns, AbortShutdown, CloseCalled,
         ContextEnds, WatchContext, EndRest, MailAlone, mail, writePump, endCall
<1> QED
  BY <1>1, <1>2, <1>3

LEMMA MailAloneKeeps == ByeIInv /\ MailAlone => ByeIInv'
BY DEF ByeIInv, MailAlone, mail, OnWire, InQueue, DisconnectIsLast, ByePoints,
       Over, OnWrite

(* The observation points: the coordinator goes on along the same half.       *)
LEMMA ObserveKeepsBye ==
  ASSUME ByeIInv, ObserveQueues \/ ObserveFails
  PROVE  ByeIInv'
<1>1. UNCHANGED mail /\ current' = current
  BY DEF ObserveQueues, ObserveFails, CoordinatorRest, mail, writePump
<1>2. at \in DOMAIN Observed
  BY DEF ObserveQueues, ObserveFails, Observing
<1>3. \/ at = "rawIn" /\ at' \in {"decode", "stopping"}
      \/ at = "packetIn" /\ at' \in {"enqueue", "stopping"}
      \/ at \in {"rawOut", "packetOut"}
           /\ at' \in {"packetOut", "confirm", "stopWrite"}
      \/ at = "refused" /\ at' = "refuse"
      \/ at \in {"rawBye", "packetBye"}
           /\ at' \in {"packetBye", "bye", "byeFailed"}
  <2>1. CASE ObserveQueues
    <3>1. at' = Observed[at].then
      BY <2>1 DEF ObserveQueues
    <3> QED
      BY <1>2, <3>1 DEF Observed
  <2>2. CASE ObserveFails
    <3>1. ObserveError
      BY <2>2 DEF ObserveFails
    <3>2. CASE at \in {"rawIn", "packetIn"}
      BY <3>1, <3>2 DEF ObserveError, Observed
    <3>3. CASE at \notin {"rawIn", "packetIn"}
      BY <3>1, <3>3 DEF ObserveError
    <3> QED
      BY <3>2, <3>3
  <2> QED
    BY <2>1, <2>2
<1> QED
  BY <1>1, <1>3 DEF ByeIInv, mail, OnWire, InQueue, DisconnectIsLast, ByePoints,
                    Over, OnWrite

LEMMA WriterKeepsBye ==
  ASSUME ByeIInv, WriteReaches \/ WriteReturns \/ WriterExits
  PROVE  ByeIInv'
<1>0. UNCHANGED <<job, at, current, farewell>>
  BY DEF WriteReaches, WriteReturns, WriterExits, WriterRest, endCall
<1>1. CASE WriteReaches
  <2>1. /\ wire' = Append(wire, job) /\ writer' = "sent" /\ outcome' = outcome
        /\ writer = "writing"
    BY <1>1 DEF WriteReaches
  <2>2. /\ wire \in Seq(Packets \cup {None}) /\ job \in Packets \cup {None}
        /\ ~OnWire
    BY <2>1 DEF ByeIInv
  <2>3. /\ wire' \in Seq(Packets \cup {None})
        /\ Len(wire') = Len(wire) + 1 /\ Len(wire) \in Nat
        /\ \A k \in 1..Len(wire) : wire'[k] = wire[k]
        /\ wire'[Len(wire) + 1] = job
    BY <2>1, <2>2
  <2>4. \A k \in 1..Len(wire') : wire'[k] = Bye => k = Len(wire') /\ job = Bye
    BY <2>2, <2>3 DEF OnWire, InQueue
  <2>5. job = Bye => OnWire'
    <3>1. Len(wire) + 1 \in 1..Len(wire')
      BY <2>3
    <3> QED
      BY <2>3, <3>1 DEF OnWire, InQueue
  <2>6. OnWire' => job = Bye
    BY <2>4 DEF OnWire, InQueue
  <2>7. /\ at = "byeWriting" => job = Bye
        /\ at \notin {"rawBye", "packetBye"}
        /\ ~(at = "bye" /\ HasDisconnect)
        /\ ~(farewell = "ok" /\ HasDisconnect)
        /\ job = Bye => at \in ByePoints \cup Over
        /\ at \in OnWrite => current \in Writes
    BY <2>2 DEF ByeIInv, DisconnectIsLast, OnWire
  <2> QED
    BY <1>0, <2>1, <2>2, <2>3, <2>4, <2>5, <2>6, <2>7
       DEF ByeIInv, DisconnectIsLast, OnWire, ByePoints, Over, OnWrite
<1>2. CASE WriteReturns
  <2>1. /\ wire' = wire /\ writer' = "idle"
        /\ outcome' = "ok" => writer = "sent"
    BY <1>2 DEF WriteReturns
  <2> QED
    BY <1>0, <2>1 DEF ByeIInv, DisconnectIsLast, OnWire, InQueue, ByePoints,
                      Over, OnWrite
<1>3. CASE WriterExits
  <2>1. wire' = wire /\ writer' = "exited" /\ outcome' = outcome
    BY <1>3 DEF WriterExits
  <2> QED
    BY <1>0, <2>1 DEF ByeIInv, DisconnectIsLast, OnWire, InQueue, ByePoints,
                      Over, OnWrite
<1> QED
  BY <1>1, <1>2, <1>3

LEMMA TakeWriteKeepsBye ==
  ASSUME ByeIInv, NEW w \in Writes, TakeWrite(w)
  PROVE  ByeIInv'
<1>1. /\ UNCHANGED mail /\ at = "select" /\ at' = "encode" /\ current' = w
  BY DEF TakeWrite, OutboundRest, mail, writePump, endCall
<1> QED
  BY <1>1 DEF ByeIInv, mail, OnWire, InQueue, DisconnectIsLast, ByePoints, Over,
              OnWrite

LEMMA GiveJobKeepsBye ==
  ASSUME ByeIInv, GiveJob
  PROVE  ByeIInv'
<1>1. /\ at = "handJob" /\ at' \in {"writing", "releaseLast"}
      /\ UNCHANGED <<wire, farewell, current>> /\ current \in Writes
  BY DEF GiveJob, OutboundRest, endCall, ByeIInv, OnWrite
<1>2. current # Bye /\ current \in Packets
  BY <1>1, StreamAssumption DEF Packets
<1>3. ~OnWire /\ job # Bye
  BY <1>1 DEF ByeIInv, ByePoints, Over
<1>4. \/ job' = current /\ writer' = "writing"
      \/ UNCHANGED <<writer, job, outcome>>
  BY DEF GiveJob, HandJob, writePump
<1>5. job' # Bye /\ job' \in Packets \cup {None} /\ OnWire' = OnWire
  BY <1>1, <1>2, <1>3, <1>4 DEF ByeIInv, OnWire, InQueue
<1>6. DisconnectIsLast'
  BY <1>1 DEF ByeIInv, DisconnectIsLast, InQueue
<1> QED
  BY <1>1, <1>3, <1>5, <1>6 DEF ByeIInv, ByePoints, Over, OnWrite

LEMMA ShutdownKeepsBye ==
  ASSUME ByeIInv, TakeShutdown \/ GiveBye \/ AwaitBye \/ FinishShutdown
  PROVE  ByeIInv'
<1>0. wire' = wire
  BY DEF TakeShutdown, GiveBye, AwaitBye, FinishShutdown, ByeRest
<1>1. CASE TakeShutdown
  <2>1. /\ UNCHANGED mail /\ at = "select"
        /\ at' \in {"byeFailed", "byeJob", "bye"}
        /\ at' = "bye" => ~HasDisconnect
    BY <1>1 DEF TakeShutdown, ByeRest, mail, writePump
  <2> QED
    BY <2>1 DEF ByeIInv, mail, OnWire, InQueue, DisconnectIsLast, ByePoints,
                Over, OnWrite
<1>2. CASE GiveBye
  <2>1. /\ at = "byeJob" /\ UNCHANGED farewell
        /\ \/ job' = Bye /\ writer' = "writing" /\ outcome' = "none"
                /\ at' = "byeWriting"
           \/ UNCHANGED <<writer, job, outcome>> /\ at' = "byeFailed"
    BY <1>2 DEF GiveBye, HandJob, ByeRest, writePump
  <2>2. ~OnWire /\ job # Bye /\ OnWire' = OnWire
    BY <1>0, <2>1 DEF ByeIInv, ByePoints, Over, OnWire, InQueue
  <2>3. job' \in Packets \cup {None}
    BY <2>1 DEF ByeIInv, Packets
  <2>4. DisconnectIsLast'
    BY <1>0, <2>1 DEF ByeIInv, DisconnectIsLast, InQueue
  <2>5. wire' \in Seq(Packets \cup {None})
    BY <1>0 DEF ByeIInv
  <2> QED
    BY <2>1, <2>2, <2>3, <2>4, <2>5 DEF ByeIInv, ByePoints, Over, OnWrite
<1>3. CASE AwaitBye
  <2>1. /\ at = "byeWriting" /\ UNCHANGED mail
        /\ \/ outcome = "ok" /\ at' \in {"rawBye", "bye"}
           \/ at' = "byeFailed"
    BY <1>3 DEF AwaitBye, Observe, ByeRest, mail, writePump
  <2> QED
    BY <2>1 DEF ByeIInv, mail, OnWire, InQueue, DisconnectIsLast, ByePoints,
                Over, OnWrite
<1>4. CASE FinishShutdown
  <2>1. /\ UNCHANGED <<writer, job, outcome>> /\ at' = "ended"
        /\ \/ at = "bye"
           \/ at = "byeFailed" /\ farewell' = "error"
    BY <1>4 DEF FinishShutdown, writePump
  <2>2. DisconnectIsLast'
    BY <1>0, <2>1 DEF ByeIInv, DisconnectIsLast, OnWire, InQueue
  <2> QED
    BY <1>0, <2>1, <2>2 DEF ByeIInv, OnWire, InQueue, ByePoints, Over, OnWrite
<1> QED
  BY <1>1, <1>2, <1>3, <1>4

LEMMA NextKeepsBye == ByeIInv /\ [Next]_vars => ByeIInv'
<1> SUFFICES ASSUME ByeIInv, [Next]_vars PROVE ByeIInv'
  OBVIOUS
<1>1. CASE MailAlone
  BY <1>1, MailAloneKeeps
<1>2. CASE \E w \in Writes : TakeWrite(w)
  BY <1>2, TakeWriteKeepsBye
<1>3. CASE UNCHANGED vars
  <2>1. MailAlone
    BY <1>3 DEF vars, MailAlone, mail, writePump, endCall
  <2> QED
    BY <2>1, MailAloneKeeps
<1> QED
  BY <1>1, <1>2, <1>3, PeerLeavesMail, InboundLeavesMail, OutboundLeavesMail,
     RunLeavesMail, DispatchLeavesMail, CallsLeaveMail, ObserveKeepsBye,
     WriterKeepsBye, GiveJobKeepsBye, ShutdownKeepsBye
     DEF Next, System, User, Coordinate

LEMMA InitBye == Init => ByeIInv
<1> SUFFICES ASSUME Init PROVE ByeIInv
  OBVIOUS
<1>1. /\ wire = <<>> /\ job = None /\ writer = "idle" /\ outcome = "none"
      /\ at = "select" /\ farewell = "none"
  BY DEF Init
<1>2. ~OnWire /\ DisconnectIsLast
  BY <1>1 DEF OnWire, InQueue, DisconnectIsLast
<1>3. job # Bye
  BY <1>1, StreamAssumption DEF Packets
<1> QED
  BY <1>1, <1>2, <1>3 DEF ByeIInv, OnWrite

(* The disconnect is the last frame on the wire whatever else was queued or      *)
(* failed, and a shutdown that reports success has sent it.                   *)
THEOREM SpecDisconnectIsLast == Spec => []DisconnectIsLast
<1>1. ByeIInv => DisconnectIsLast
  BY DEF ByeIInv
<1> QED
  BY <1>1, InitBye, NextKeepsBye, PTL DEF Spec
-----------------------------------------------------------------------------
(***************************************************************************)
(* DoneMeansOver and CaptureIsComplete.  Both depend on why the coordinator      *)
(* left and on what the dispatcher had seen by then: a dispatcher that is gone      *)
(* before the stream was stopped has drained the channel, to which nobody adds.   *)
(***************************************************************************)
Leaving   == {"withdraw", "handOff", "discardLast", "releaseLast"}
AfterRun  == {"lingering", "stop", "joining", "done"}

EndIInv ==
  /\ stopPhase \in 0..3
  /\ Stopping \/ at \in Over => cause # "none"
  /\ at \in Leaving \cup {"joining", "done"} => Stopping
  /\ at \in AfterRun => dispatcher = "exited"
  /\ at = "done" => Stopped /\ reader = "exited" /\ writer = "exited"
  /\ draining => at \in Over
  /\ HasSink /\ dispatcher = "exited" => Stopping \/ (at \in Over /\ observations = <<>>)
  /\ ~HasSink => at \notin DOMAIN Observed /\ observations = <<>>

(* What every step leaves as it was once it is so.                                *)
Onward ==
  /\ stopPhase' \in 0..3 /\ (Stopping => Stopping') /\ (Stopped => Stopped')
  /\ cause # "none" => cause' # "none"
  /\ Stopping' => Stopping \/ cause' # "none"
  /\ reader = "exited" => reader' = "exited"
  /\ writer = "exited" => writer' = "exited"

(* Steps that leave the dispatcher alone and the coordinator in its loop, or out    *)
(* of it where it was.                                                        *)
EndAlone ==
  /\ Onward
  /\ UNCHANGED <<observations, dispatcher, draining>>
  /\ at \in Over => at' = at
  /\ at' \in Over => at' = at \/ (at' = "ended" /\ cause' # "none")
  /\ at' \in Leaving => Stopping'
  /\ ~HasSink /\ at' \in DOMAIN Observed => at \in DOMAIN Observed

LEMMA OverPoints ==
  /\ AfterRun \subseteq Over /\ "ended" \in Over /\ "ended" \notin AfterRun
  /\ Leaving \cap Over = {} /\ DOMAIN Observed \cap Over = {}
BY DEF AfterRun, Over, Leaving, Observed

LEMMA EndAloneKeeps ==
  ASSUME EndIInv, EndAlone
  PROVE  EndIInv'
<1>1. Onward /\ UNCHANGED <<observations, dispatcher, draining>>
  BY DEF EndAlone
<1>2. at' \in {"joining", "done"} \/ at' \in AfterRun => at' = at
  BY OverPoints DEF EndAlone, AfterRun, Over
<1>3. at \in Over => at' \in Over
  BY DEF EndAlone
<1>4. at' \in Over => at \in Over \/ cause' # "none"
  BY DEF EndAlone
<1>5. at' \in Leaving => Stopping'
  BY DEF EndAlone
<1>6. ~HasSink => (at' \in DOMAIN Observed => at \in DOMAIN Observed)
  BY DEF EndAlone
<1>7. (DOMAIN Observed)' = DOMAIN Observed
  BY DEF Observed
<1> QED
  BY <1>1, <1>2, <1>3, <1>4, <1>5, <1>6, <1>7 DEF EndIInv, Onward

LEMMA FailAndStopIsOnward ==
  ASSUME EndIInv, NEW c, c # "none", FailAndStop(c)
  PROVE  /\ stopPhase' \in 0..3 /\ Stopping' /\ (Stopped => Stopped')
         /\ cause' # "none"
BY DEF EndIInv, FailAndStop, FirstCause, Stopping, Stopped

(* Steps of the stop itself, of the peer, the pumps and the calls.                 *)
LEMMA OutsideIsOnward ==
  ASSUME EndIInv,
         \/ StopGoesOn \/ PeerSends \/ PeerHangsUp \/ ReadPump
         \/ WriteReaches \/ WriteReturns \/ WriterExits
         \/ ReadTakes \/ ReadReleases \/ ReadEnds
         \/ ShutdownStarts \/ ShutdownReturns \/ AbortShutdown \/ CloseCalled
         \/ ContextEnds \/ WatchContext
         \/ \E w \in Writes : WriteProceeds(w) \/ WriteStarts(w) \/ WriteCancelled(w)
  PROVE  EndAlone
<1>1. UNCHANGED <<observations, dispatcher, draining, at>>
  <2> USE DEF dispatch
  <2>1. CASE StopGoesOn \/ PeerSends \/ PeerHangsUp \/ ReadPump
    BY <2>1 DEF StopGoesOn, PeerSends, PeerHangsUp, ReadPump, AcquireProcessing,
                ReadFrame, ReadFails, ReaderGivesUp, ReaderRest
  <2>2. CASE WriteReaches \/ WriteReturns \/ WriterExits \/ ReadTakes \/ ReadReleases \/ ReadEnds
    BY <2>2 DEF WriteReaches, WriteReturns, WriterExits, WriterRest, ReadTakes,
                ReadReleases, ReadEnds, ReadRest
  <2>3. CASE \/ ShutdownStarts \/ ShutdownReturns \/ AbortShutdown \/ CloseCalled
             \/ ContextEnds \/ WatchContext
    BY <2>3 DEF ShutdownStarts, ShutdownReturns, AbortShutdown, CloseCalled,
                ContextEnds, WatchContext, EndRest
  <2>4. CASE \E w \in Writes : WriteProceeds(w) \/ WriteStarts(w) \/ WriteCancelled(w)
    BY <2>4 DEF WriteProceeds, WriteStarts, WriteReserves, WriteAcquires, WriteRejected,
                WriteAnswered, WriteCancelled, WriteRest
  <2> QED
    BY <2>1, <2>2, <2>3, <2>4
<1>2. /\ reader = "exited" => reader' = "exited"
      /\ writer = "exited" => writer' = "exited"
  <2> USE DEF readPump, writePump
  <2>1. CASE StopGoesOn \/ PeerSends \/ PeerHangsUp \/ ReadPump
    BY <2>1 DEF StopGoesOn, PeerSends, PeerHangsUp, ReadPump, AcquireProcessing,
                ReadFrame, ReadFails, ReaderGivesUp, ReaderRest
  <2>2. CASE WriteReaches \/ WriteReturns \/ WriterExits \/ ReadTakes \/ ReadReleases \/ ReadEnds
    BY <2>2 DEF WriteReaches, WriteReturns, WriterExits, WriterRest, ReadTakes,
                ReadReleases, ReadEnds, ReadRest
  <2>3. CASE \/ ShutdownStarts \/ ShutdownReturns \/ AbortShutdown \/ CloseCalled
             \/ ContextEnds \/ WatchContext
    BY <2>3 DEF ShutdownStarts, ShutdownReturns, AbortShutdown, CloseCalled,
                ContextEnds, WatchContext, EndRest
  <2>4. CASE \E w \in Writes : WriteProceeds(w) \/ WriteStarts(w) \/ WriteCancelled(w)
    BY <2>4 DEF WriteProceeds, WriteStarts, WriteReserves, WriteAcquires, WriteRejected,
                WriteAnswered, WriteCancelled, WriteRest
  <2> QED
    BY <2>1, <2>2, <2>3, <2>4
<1>3. \/ UNCHANGED <<stopPhase, cause>>
      \/ stopPhase \in {1, 2} /\ stopPhase' = stopPhase + 1 /\ cause' = cause
      \/ \E c \in {"peer closed", "shutdown expired", "closed", "context", "ambiguous"} :
           FailAndStop(c)
  <2> USE DEF ending
  <2>1. CASE StopGoesOn \/ PeerSends \/ PeerHangsUp \/ ReadPump
    BY <2>1 DEF StopGoesOn, PeerSends, PeerHangsUp, ReadPump, AcquireProcessing,
                ReadFrame, ReadFails, ReaderGivesUp
  <2>2. CASE WriteReaches \/ WriteReturns \/ WriterExits \/ ReadTakes \/ ReadReleases \/ ReadEnds
    BY <2>2 DEF WriteReaches, WriteReturns, WriterExits, WriterRest, ReadTakes,
                ReadReleases, ReadEnds, ReadRest
  <2>3. CASE \/ ShutdownStarts \/ ShutdownReturns \/ AbortShutdown \/ CloseCalled
             \/ ContextEnds \/ WatchContext
    BY <2>3 DEF ShutdownStarts, ShutdownReturns, AbortShutdown, CloseCalled,
                ContextEnds, WatchContext
  <2>4. CASE \E w \in Writes : WriteProceeds(w) \/ WriteStarts(w) \/ WriteCancelled(w)
    BY <2>4 DEF WriteProceeds, WriteStarts, WriteReserves, WriteAcquires, WriteRejected,
                WriteAnswered, WriteCancelled
  <2> QED
    BY <2>1, <2>2, <2>3, <2>4
<1>4. /\ stopPhase' \in 0..3 /\ (Stopping => Stopping') /\ (Stopped => Stopped')
      /\ cause # "none" => cause' # "none"
      /\ Stopping' => Stopping \/ cause' # "none"
  <2>1. CASE UNCHANGED <<stopPhase, cause>>
    BY <2>1 DEF EndIInv, Stopping, Stopped
  <2>2. CASE stopPhase \in {1, 2} /\ stopPhase' = stopPhase + 1 /\ cause' = cause
    BY <2>2 DEF EndIInv, Stopping, Stopped
  <2>3. CASE \E c \in {"peer closed", "shutdown expired", "closed", "context", "ambiguous"} :
               FailAndStop(c)
    BY <2>3, FailAndStopIsOnward
  <2> QED
    BY <1>3, <2>1, <2>2, <2>3
<1>5. at \in Leaving => Stopping
  BY DEF EndIInv
<1>6. Onward
  BY <1>2, <1>4 DEF Onward
<1> QED
  BY <1>1, <1>4, <1>5, <1>6 DEF EndAlone

(* The coordinator in its loop, and leaving it.                                    *)
LEMMA InboundIsOnward ==
  ASSUME EndIInv,
         \/ TakeFrame \/ Decode \/ Enqueue \/ Discard
         \/ Deliver \/ PendingRefused \/ NoticeStop \/ Withdraw \/ HandOff
  PROVE  EndAlone
<1>1. /\ UNCHANGED <<observations, dispatcher, draining, writer>>
      /\ reader = "exited" => reader' = "exited"
  BY DEF TakeFrame, Decode, Enqueue, Discard, Deliver, PendingRefused, NoticeStop,
         Withdraw, HandOff, InboundRest, dispatch, writePump
<1>2. \/ UNCHANGED <<stopPhase, cause>>
      \/ \E c \in {"malformed", "queue"} : at' = "stopping" /\ FailAndStop(c)
  BY DEF TakeFrame, Decode, Enqueue, Discard, Deliver, PendingRefused, NoticeStop,
         Withdraw, HandOff, ending
<1>3. /\ stopPhase' \in 0..3 /\ (Stopping => Stopping') /\ (Stopped => Stopped')
      /\ cause # "none" => cause' # "none"
      /\ Stopping' => Stopping \/ cause' # "none"
  BY <1>2, FailAndStopIsOnward DEF EndIInv, Stopping, Stopped
<1>4. /\ at \notin Over
      /\ at' \in Over => at' = "ended" /\ Stopping
      /\ at' \in Leaving => Stopping
      /\ ~HasSink => at' \notin DOMAIN Observed
  <2>1. CASE TakeFrame \/ Decode \/ Enqueue
    BY <2>1 DEF TakeFrame, Decode, Enqueue, DeliverArrival, Observe, Observed, Over, Leaving
  <2>2. CASE Discard \/ Withdraw \/ HandOff
    BY <2>2 DEF Discard, Withdraw, HandOff, DeliverArrival, Observed, Over, Leaving, EndIInv
  <2>3. CASE Deliver \/ PendingRefused \/ NoticeStop
    BY <2>3 DEF Deliver, PendingRefused, NoticeStop, Observed, Over, Leaving
  <2> QED
    BY <2>1, <2>2, <2>3
<1>5. Onward
  BY <1>1, <1>3 DEF Onward
<1>6. Stopping => cause' # "none"
  BY <1>3 DEF EndIInv
<1> QED
  BY <1>1, <1>3, <1>4, <1>5, <1>6 DEF EndAlone

LEMMA OutboundIsOnward ==
  ASSUME EndIInv,
         \/ \E w \in Writes : TakeWrite(w)
         \/ Encode \/ Refuse \/ GiveJob \/ FinishWrite \/ Confirm \/ ReleaseWrite
         \/ TakeShutdown \/ GiveBye \/ AwaitBye \/ FinishShutdown
  PROVE  EndAlone
<1>1. /\ UNCHANGED <<observations, dispatcher, draining, reader>>
      /\ writer = "exited" => writer' = "exited"
  BY DEF TakeWrite, Encode, Refuse, GiveJob, FinishWrite, Confirm, ReleaseWrite,
         TakeShutdown, GiveBye, AwaitBye, FinishShutdown, HandJob, OutboundRest, ByeRest,
         dispatch, readPump, writePump
<1>2. \/ UNCHANGED <<stopPhase, cause>>
      \/ at' = "stopWrite" /\ FailAndStop("write")
      \/ /\ at' = "ended" /\ stopPhase' = stopPhase
         /\ \E c \in {"clean", "disconnect"} : FirstCause(c)
  BY DEF TakeWrite, Encode, Refuse, GiveJob, FinishWrite, Confirm, ReleaseWrite,
         TakeShutdown, GiveBye, AwaitBye, FinishShutdown, ending
<1>3. /\ stopPhase' \in 0..3 /\ (Stopping => Stopping') /\ (Stopped => Stopped')
      /\ cause # "none" => cause' # "none"
      /\ Stopping' => Stopping \/ cause' # "none"
  BY <1>2, FailAndStopIsOnward DEF EndIInv, Stopping, Stopped, FirstCause
<1>4. /\ at \notin Over
      /\ at' \in Over => at' = "ended" /\ cause' # "none"
      /\ at' \in Leaving => Stopping
      /\ ~HasSink => at' \notin DOMAIN Observed
  <2>1. CASE \/ \E w \in Writes : TakeWrite(w)
             \/ Encode \/ Refuse \/ GiveJob \/ FinishWrite \/ Confirm
    BY <2>1 DEF TakeWrite, Encode, Refuse, GiveJob, FinishWrite, Confirm, Observe,
                Observed, Over, Leaving
  <2>2. CASE ReleaseWrite
    BY <2>2 DEF ReleaseWrite, Observed, Over, Leaving, EndIInv, Stopped, Stopping, ending,
                OutboundRest
  <2>3. CASE TakeShutdown \/ GiveBye \/ AwaitBye
    BY <2>3 DEF TakeShutdown, GiveBye, AwaitBye, Observe, Observed, Over, Leaving
  <2>4. CASE FinishShutdown
    BY <2>4 DEF FinishShutdown, FirstCause, Observed, Over, Leaving
  <2> QED
    BY <2>1, <2>2, <2>3, <2>4
<1>5. Onward
  BY <1>1, <1>3 DEF Onward
<1> QED
  BY <1>1, <1>3, <1>4, <1>5 DEF EndAlone

LEMMA StoppingReturns ==
  ASSUME EndIInv, CoordinatorReturns
  PROVE  EndAlone
<1>1. /\ UNCHANGED <<observations, dispatcher, draining, reader, writer, stopPhase, cause>>
      /\ at = "stopping" /\ at' = "ended" /\ Stopped
  BY DEF CoordinatorReturns, RunRest, dispatch, readPump, writePump, ending
<1>2. Stopping /\ cause # "none" /\ stopPhase \in 0..3
  BY <1>1 DEF EndIInv, Stopped, Stopping
<1> QED
  BY <1>1, <1>2 DEF EndAlone, Onward, Stopping, Stopped, Over, Leaving, Observed

(* The record a coordinator queues or gives up.                                   *)
LEMMA ObserveKeepsEnd ==
  ASSUME EndIInv, ObserveReserves \/ ObserveQueues \/ ObserveFails
  PROVE  EndIInv'
<1>1. /\ at \in DOMAIN Observed /\ HasSink /\ at \notin Over
      /\ UNCHANGED <<dispatcher, draining, reader, writer>>
  BY OverPoints DEF EndIInv, ObserveReserves, ObserveQueues, ObserveFails, Observing,
         CoordinatorRest, dispatch, readPump, writePump
<1>2. \/ UNCHANGED <<stopPhase, cause>>
      \/ FailAndStop("observe")
  BY DEF ObserveReserves, ObserveQueues, ObserveFails, ObserveError, ending
<1>3. /\ stopPhase' \in 0..3 /\ (Stopping => Stopping')
      /\ Stopping' => cause' # "none"
  BY <1>2, FailAndStopIsOnward DEF EndIInv, Stopping
<1>4. at' \notin Over \cup Leaving
  <2>1. CASE ObserveReserves
    BY <1>1, <2>1, OverPoints DEF ObserveReserves, Observed, Leaving
  <2>2. CASE ObserveQueues
    <3>1. Observed[at].then \notin Over \cup Leaving
      BY <1>1 DEF Observed, Over, Leaving
    <3> QED
      BY <2>2, <3>1 DEF ObserveQueues
  <2>3. CASE ObserveFails
    <3>1. at \in {"rawIn", "packetIn"} => Observed[at].then \notin Over \cup Leaving
      BY DEF Observed, Over, Leaving
    <3> QED
      BY <2>3, <3>1 DEF ObserveFails, ObserveError, Over, Leaving
  <2> QED
    BY <2>1, <2>2, <2>3
<1>5. dispatcher = "exited" => Stopping
  BY <1>1 DEF EndIInv
<1> QED
  BY <1>1, <1>3, <1>4, <1>5, OverPoints DEF EndIInv, Over, AfterRun, Leaving

(* The dispatcher.                                                             *)
LEMMA DispatchKeepsEnd ==
  ASSUME EndIInv, Dispatch
  PROVE  EndIInv'
<1>1. UNCHANGED <<reader, writer, at>>
  BY DEF Dispatch, TakeRecord, SinkReturns, SinkFailure, StartDrain, DispatcherExits,
         DispatchRest, readPump, writePump
<1>2. dispatcher # "exited"
  BY DEF Dispatch, TakeRecord, SinkReturns, SinkFailure, StartDrain, DispatcherExits
<1>3. UNCHANGED <<stopPhase, cause>> \/ FailAndStop("sink")
  BY DEF Dispatch, TakeRecord, SinkReturns, SinkFailure, StartDrain, DispatcherExits, ending
<1>4. /\ stopPhase' \in 0..3 /\ (Stopping => Stopping') /\ (Stopped => Stopped')
      /\ Stopping' \/ at \in Over => cause' # "none"
  BY <1>3, FailAndStopIsOnward DEF EndIInv, Stopping, Stopped, FailAndStop, FirstCause
<1>5. /\ draining' => at \in Over
      /\ dispatcher' = "exited" => Stopping \/ (draining /\ observations' = <<>>)
      /\ observations = <<>> => observations' = <<>>
  BY DEF EndIInv, Dispatch, TakeRecord, SinkReturns, SinkFailure, StartDrain,
         DispatcherExits, Stopped, Stopping
<1>6. at \notin AfterRun
  BY <1>2 DEF EndIInv
<1> QED
  BY <1>1, <1>4, <1>5, <1>6 DEF EndIInv, AfterRun, Observed

(* run after coordinate.                                                       *)
LEMMA RunKeepsEnd ==
  ASSUME EndIInv, Linger \/ LingerEnds \/ RunStops \/ Finish
  PROVE  EndIInv'
<1>1. /\ UNCHANGED <<observations, dispatcher, draining, reader, writer>>
      /\ at \in Over /\ dispatcher = "exited" /\ cause # "none"
  <2>1. UNCHANGED <<observations, dispatcher, draining, reader, writer>>
    BY DEF Linger, LingerEnds, RunStops, Finish, RunRest, dispatch, readPump, writePump
  <2>2. at \in Over /\ dispatcher = "exited"
    BY DEF Linger, LingerEnds, RunStops, Finish, EndIInv, Over, AfterRun
  <2> QED
    BY <2>1, <2>2 DEF EndIInv
<1>2. \/ at' \in {"lingering", "stop"} /\ UNCHANGED <<stopPhase, cause>>
      \/ /\ at' = "joining" /\ cause' = cause
         /\ stopPhase' = IF stopPhase = 0 THEN 1 ELSE stopPhase
      \/ /\ at' = "done" /\ Stopped /\ reader = "exited" /\ writer = "exited"
         /\ stopPhase' = stopPhase
         /\ cause' = cause \/ FirstCause("context")
  BY DEF Linger, LingerEnds, RunStops, Finish, ending
<1>3. /\ stopPhase' \in 0..3 /\ (Stopping => Stopping') /\ cause' # "none"
      /\ at' \in {"joining", "done"} => Stopping'
      /\ at' = "done" => Stopped' /\ reader' = "exited" /\ writer' = "exited"
  BY <1>1, <1>2 DEF EndIInv, FirstCause, Stopping, Stopped
<1>4. at' \in AfterRun
  BY <1>2 DEF AfterRun
<1> QED
  BY <1>1, <1>3, <1>4, OverPoints DEF EndIInv

LEMMA NextKeepsEnd == EndIInv /\ [Next]_vars => EndIInv'
<1> SUFFICES ASSUME EndIInv, [Next]_vars PROVE EndIInv'
  OBVIOUS
<1>1. CASE UNCHANGED vars
  BY <1>1 DEF vars, EndIInv, dispatch, readPump, writePump, ending, Stopping, Stopped, Observed
<1>2. CASE Next
  BY <1>2, OutsideIsOnward, InboundIsOnward, OutboundIsOnward, StoppingReturns,
     EndAloneKeeps, ObserveKeepsEnd, DispatchKeepsEnd, RunKeepsEnd
     DEF Next, System, User, Coordinate
<1> QED
  BY <1>1, <1>2

LEMMA InitEnd == Init => EndIInv
BY DEF Init, EndIInv, Over, Leaving, AfterRun, Stopping, Observed

(* When Wait returns, no goroutine of the stream is left, the transport has been     *)
(* interrupted and the cause is known (stream_runtime.go:112-160, 251-270).        *)
THEOREM SpecDoneMeansOver == Spec => []DoneMeansOver
<1>1. EndIInv => DoneMeansOver
  BY DEF EndIInv, DoneMeansOver, Over, AfterRun
<1> QED
  BY <1>1, InitEnd, NextKeepsEnd, PTL DEF Spec

(* A stream that ends in order has given every record to the sink before it lingers  *)
(* or interrupts its transport (stream_runtime.go:112-160, 555-600).               *)
THEOREM SpecCaptureIsComplete == Spec => []CaptureIsComplete
<1>1. EndIInv => CaptureIsComplete
  BY DEF EndIInv, CaptureIsComplete, AfterRun
<1> QED
  BY <1>1, InitEnd, NextKeepsEnd, PTL DEF Spec
-----------------------------------------------------------------------------
(***************************************************************************)
(* WriteTellsTheTruth is not inductive.  That an answer stays true depends on    *)
(* who still may send the frame: nobody before the request has begun, and after  *)
(* that the coordinator alone, for as long as it has not answered.              *)
(***************************************************************************)
Unanswered == {"encode", "refused", "refuse", "handJob", "writing", "rawOut",
               "packetOut", "confirm"}
Sending    == {"handJob", "writing", "rawOut", "packetOut", "confirm"}
Wired(w)   == InQueue(wire, w)

CallTyped ==
  /\ call \in [Writes -> {"idle", "acquiring", "sending", "waiting", "returned"}]
  /\ begun \in [Writes -> {"queued", "started", "abandoned"}]
  /\ reply \in [Writes -> {"none", "ok", "closed", "error"}]
  /\ result \in [Writes -> {"none", "ok", "closed", "error", "rejected",
                            "cancelled", "ambiguous"}]
  /\ wire \in Seq(Packets \cup {None}) /\ job \in Packets \cup {None}

(* The coordinator and the write pump about the frame they send.               *)
PumpIInv ==
  /\ at \in OnWrite => current \in Writes
  /\ writer = "writing" =>
       outcome = "none" /\ (job = Bye \/ (at = "writing" /\ ~Wired(job)))
  /\ writer = "sent" \/ outcome = "ok" => Wired(job)
  /\ at = "writing" => job = current
  /\ at = "handJob" => job # current /\ ~Wired(current)
  /\ at \in {"rawOut", "packetOut", "confirm"} => Wired(current)

(* One call of Write.                                                         *)
CallIInv(w) ==
  /\ call[w] \notin {"waiting", "returned"} =>
       begun[w] = "queued" /\ reply[w] = "none" /\ ~(at \in OnWrite /\ current = w)
  /\ call[w] # "returned" => result[w] = "none"
  /\ at \in Unanswered /\ current = w => reply[w] = "none"
  /\ at = "encode" /\ current = w => begun[w] # "started"
  /\ begun[w] # "started" => ~Wired(w) /\ job # w /\ ~(at \in Sending /\ current = w)
  /\ reply[w] = "ok" => Wired(w)
  /\ reply[w] = "closed" => ~Wired(w) /\ job # w
  /\ result[w] \in {"ok", "closed", "error"} => reply[w] = result[w]
  /\ result[w] \in {"cancelled", "rejected"} =>
       /\ begun[w] # "started"
       /\ at = "encode" /\ current = w => begun[w] = "abandoned"

WriteIInv == CallTyped /\ PumpIInv /\ \A w \in Writes : CallIInv(w)
-----------------------------------------------------------------------------
outgoing    == <<wire, writer, job, outcome>>
answers == <<call, begun, reply, result>>

(* Steps that leave the frame and the calls alone, and the coordinator off the    *)
(* path of a write unless it stands still on it.                              *)
WritesAlone ==
  /\ UNCHANGED outgoing /\ UNCHANGED answers
  /\ at \in OnWrite \/ at' \in OnWrite => at' = at /\ current' = current

LEMMA PointsOnWrite == Unanswered \subseteq OnWrite /\ Sending \subseteq Unanswered
BY DEF Unanswered, OnWrite, Sending

LEMMA WritesAloneKeeps == WriteIInv /\ WritesAlone => WriteIInv'
<1> SUFFICES ASSUME WriteIInv, WritesAlone PROVE WriteIInv'
  OBVIOUS
<1>1. UNCHANGED <<wire, writer, job, outcome, call, begun, reply, result>>
  BY DEF WritesAlone, outgoing, answers
<1>2. at \in OnWrite \/ at' \in OnWrite => at' = at /\ current' = current
  BY DEF WritesAlone
<1>3. \A w \in Writes : Wired(w)' <=> Wired(w)
  BY <1>1 DEF Wired, InQueue
<1>4. CallTyped'
  BY <1>1 DEF WriteIInv, CallTyped
<1>5. PumpIInv'
  BY <1>1, <1>2 DEF WriteIInv, PumpIInv, OnWrite, Wired, InQueue
<1>6. ASSUME NEW w \in Writes PROVE CallIInv(w)'
  <2>1. CallIInv(w)
    BY DEF WriteIInv
  <2> QED
    BY <1>1, <1>2, <1>3, <2>1, PointsOnWrite DEF CallIInv, Unanswered
<1> QED
  BY <1>4, <1>5, <1>6 DEF WriteIInv

LEMMA OutsideLeavesWrites ==
  StopGoesOn \/ PeerSends \/ PeerHangsUp \/ ReadPump => WritesAlone
<1>1. StopGoesOn \/ PeerSends \/ PeerHangsUp => WritesAlone
  BY DEF StopGoesOn, PeerSends, PeerHangsUp, WritesAlone, outgoing, answers, writePump,
         writeCalls
<1>2. ReadPump => WritesAlone
  BY DEF ReadPump, AcquireProcessing, ReadFrame, ReadFails, ReaderGivesUp,
         ReaderRest, WritesAlone, outgoing, answers, writePump, writeCalls
<1> QED
  BY <1>1, <1>2

LEMMA InboundLeavesWrites ==
  \/ ObserveReserves \/ TakeFrame \/ Decode \/ Enqueue \/ Discard
  \/ Deliver \/ PendingRefused \/ NoticeStop \/ Withdraw \/ HandOff
  => WritesAlone
<1> USE DEF WritesAlone, outgoing, answers, writePump, writeCalls, OnWrite
<1>1. ObserveReserves => WritesAlone
  BY DEF ObserveReserves, CoordinatorRest
<1>2. TakeFrame \/ Decode => WritesAlone
  BY DEF TakeFrame, Decode, Observe, InboundRest
<1>3. Enqueue \/ HandOff => WritesAlone
  BY DEF Enqueue, HandOff, DeliverArrival, InboundRest
<1>4. Discard \/ Deliver \/ PendingRefused \/ Withdraw => WritesAlone
  BY DEF Discard, Deliver, PendingRefused, Withdraw, InboundRest
<1>5. NoticeStop => WritesAlone
  BY DEF NoticeStop, InboundRest
<1> QED
  BY <1>1, <1>2, <1>3, <1>4, <1>5

LEMMA EndingLeavesWrites ==
  \/ TakeShutdown \/ AwaitBye \/ FinishShutdown
  \/ CoordinatorReturns \/ Linger \/ LingerEnds \/ RunStops \/ Finish
  => WritesAlone
<1> USE DEF WritesAlone, outgoing, answers, writePump, writeCalls, OnWrite
<1>1. TakeShutdown \/ AwaitBye \/ FinishShutdown => WritesAlone
  BY DEF TakeShutdown, AwaitBye, FinishShutdown, Observe, ByeRest
<1>2. CoordinatorReturns \/ Linger \/ LingerEnds \/ RunStops \/ Finish => WritesAlone
  BY DEF CoordinatorReturns, Linger, LingerEnds, RunStops, Finish, RunRest
<1> QED
  BY <1>1, <1>2

LEMMA OthersLeaveWrites ==
  \/ Dispatch \/ ReadTakes \/ ReadReleases \/ ReadEnds
  \/ ShutdownStarts \/ ShutdownReturns \/ AbortShutdown \/ CloseCalled
  \/ ContextEnds \/ WatchContext
  => WritesAlone
<1> USE DEF WritesAlone, outgoing, answers, writePump, writeCalls
<1>1. Dispatch => WritesAlone
  BY DEF Dispatch, TakeRecord, SinkReturns, SinkFailure, StartDrain,
         DispatcherExits, DispatchRest
<1>2. ReadTakes \/ ReadReleases \/ ReadEnds => WritesAlone
  BY DEF ReadTakes, ReadReleases, ReadEnds, ReadRest
<1>3. \/ ShutdownStarts \/ ShutdownReturns \/ AbortShutdown \/ CloseCalled
      \/ ContextEnds \/ WatchContext
      => WritesAlone
  BY DEF ShutdownStarts, ShutdownReturns, AbortShutdown, CloseCalled,
         ContextEnds, WatchContext, EndRest
<1> QED
  BY <1>1, <1>2, <1>3
-----------------------------------------------------------------------------
(* The write pump: a frame that reaches the peer is the one the coordinator has    *)
(* begun and not answered.                                                    *)
LEMMA AppendWires ==
  ASSUME CallTyped, wire' = Append(wire, job)
  PROVE  /\ wire' \in Seq(Packets \cup {None})
         /\ \A p : Wired(p)' <=> Wired(p) \/ p = job
<1>1. /\ wire \in Seq(Packets \cup {None}) /\ job \in Packets \cup {None}
  BY DEF CallTyped
<1>2. /\ wire' \in Seq(Packets \cup {None})
      /\ Len(wire') = Len(wire) + 1 /\ Len(wire) \in Nat
      /\ \A k \in 1..Len(wire) : wire'[k] = wire[k]
      /\ wire'[Len(wire) + 1] = job
  BY <1>1
<1>3. ASSUME NEW p, Wired(p)' PROVE Wired(p) \/ p = job
  <2>1. PICK k \in 1..Len(wire') : wire'[k] = p
    BY <1>3 DEF Wired, InQueue
  <2>2. k \in 1..Len(wire) \/ k = Len(wire) + 1
    BY <1>2, <2>1
  <2> QED
    BY <1>2, <2>1, <2>2 DEF Wired, InQueue
<1>4. ASSUME NEW p, Wired(p) \/ p = job PROVE Wired(p)'
  <2>1. \E k \in 1..(Len(wire) + 1) : wire'[k] = p
    BY <1>2, <1>4 DEF Wired, InQueue
  <2> QED
    BY <1>2, <2>1 DEF Wired, InQueue
<1> QED
  BY <1>2, <1>3, <1>4

LEMMA PumpKeepsWrites ==
  ASSUME WriteIInv, WriteReaches \/ WriteReturns \/ WriterExits
  PROVE  WriteIInv'
<1>0. UNCHANGED <<job, at, current, call, begun, reply, result>>
  BY DEF WriteReaches, WriteReturns, WriterExits, WriterRest, writeCalls
<1>1. CASE WriteReaches
  <2>1. /\ wire' = Append(wire, job) /\ outcome' = outcome
        /\ writer = "writing" /\ writer' = "sent"
    BY <1>1 DEF WriteReaches
  <2>2. wire' \in Seq(Packets \cup {None}) /\ \A p : Wired(p)' <=> Wired(p) \/ p = job
    BY <2>1, AppendWires DEF WriteIInv
  <2>3. CallTyped'
    BY <1>0, <2>2 DEF WriteIInv, CallTyped
  <2>4. PumpIInv'
    <3>1. Wired(job)' /\ (Wired(current)' <=> Wired(current) \/ current = job)
      BY <1>0, <2>2 DEF Wired
    <3> QED
      BY <1>0, <2>1, <2>2, <3>1 DEF WriteIInv, PumpIInv, Wired
  <2>5. ASSUME NEW w \in Writes PROVE CallIInv(w)'
    <3>1. CallIInv(w)
      BY DEF WriteIInv
    <3>2. Wired(w)' <=> Wired(w) \/ w = job
      BY <2>2
    <3> QED
      BY <1>0, <3>1, <3>2 DEF CallIInv
  <2> QED
    BY <2>3, <2>4, <2>5 DEF WriteIInv
<1>2. CASE WriteReturns \/ WriterExits
  <2>1. /\ wire' = wire
        /\ writer' \in {"idle", "exited"} /\ (outcome' = "ok" => writer = "sent" \/ outcome = "ok")
    BY <1>2 DEF WriteReturns, WriterExits
  <2>2. CallTyped'
    BY <1>0, <2>1 DEF WriteIInv, CallTyped
  <2>3. PumpIInv'
    BY <1>0, <2>1 DEF WriteIInv, PumpIInv, Wired, InQueue
  <2>4. ASSUME NEW w \in Writes PROVE CallIInv(w)'
    <3>1. CallIInv(w)
      BY DEF WriteIInv
    <3> QED
      BY <1>0, <2>1, <3>1 DEF CallIInv, Wired, InQueue
  <2> QED
    BY <2>2, <2>3, <2>4 DEF WriteIInv
<1> QED
  BY <1>1, <1>2
-----------------------------------------------------------------------------
(* The coordinator on the path of a write.  What a step does to the calls it does   *)
(* to the current one.                                                        *)
LEMMA ObserveKeepsWrites ==
  ASSUME WriteIInv, ObserveQueues \/ ObserveFails
  PROVE  WriteIInv'
<1>1. UNCHANGED outgoing /\ UNCHANGED <<call, begun, result, current>>
  BY DEF ObserveQueues, ObserveFails, CoordinatorRest, outgoing, writePump
<1>2. at \in DOMAIN Observed
  BY DEF ObserveQueues, ObserveFails, Observing
<1>3. \/ /\ at \in {"rawIn", "packetIn", "rawBye", "packetBye"} /\ reply' = reply
         /\ at' \in {"decode", "enqueue", "stopping", "packetBye", "bye", "byeFailed"}
      \/ at \in {"rawOut", "packetOut"} /\ at' \in {"packetOut", "confirm"} /\ reply' = reply
      \/ at = "refused" /\ at' = "refuse" /\ reply' = reply
      \/ /\ at \in {"rawOut", "packetOut"} /\ at' = "stopWrite"
         /\ reply' = [reply EXCEPT ![current] = "error"]
  <2>1. CASE ObserveQueues
    <3>1. at' = Observed[at].then /\ reply' = reply
      BY <2>1 DEF ObserveQueues
    <3> QED
      BY <1>2, <3>1 DEF Observed
  <2>2. CASE ObserveFails
    <3>1. ObserveError
      BY <2>2 DEF ObserveFails
    <3>2. CASE at \in {"rawIn", "packetIn"}
      BY <3>1, <3>2 DEF ObserveError, Observed
    <3>3. CASE at \notin {"rawIn", "packetIn"}
      BY <3>1, <3>3 DEF ObserveError
    <3> QED
      BY <3>2, <3>3
  <2> QED
    BY <2>1, <2>2
<1>4. CallTyped'
  BY <1>1, <1>3 DEF WriteIInv, CallTyped, outgoing
<1>5. PumpIInv'
  BY <1>1, <1>3 DEF WriteIInv, PumpIInv, outgoing, Wired, InQueue, OnWrite
<1>6. ASSUME NEW w \in Writes PROVE CallIInv(w)'
  <2>1. CallIInv(w) /\ (Wired(w)' <=> Wired(w))
    BY <1>1 DEF WriteIInv, Wired, InQueue, outgoing
  <2>2. CASE reply' = reply
    BY <1>1, <1>3, <2>1, <2>2 DEF CallIInv, outgoing, OnWrite, Unanswered, Sending
  <2>3. CASE at \in {"rawOut", "packetOut"} /\ at' = "stopWrite"
              /\ reply' = [reply EXCEPT ![current] = "error"]
    <3>1. current \in Writes /\ CallIInv(current)
      BY <2>3 DEF WriteIInv, PumpIInv, OnWrite
    <3>2. reply'[w] = IF w = current THEN "error" ELSE reply[w]
      BY <2>3 DEF WriteIInv, CallTyped
    <3> QED
      BY <1>1, <2>1, <2>3, <3>1, <3>2 DEF CallIInv, outgoing, OnWrite, Unanswered, Sending
  <2> QED
    BY <1>3, <2>2, <2>3
<1> QED
  BY <1>4, <1>5, <1>6 DEF WriteIInv

LEMMA TakeWriteKeepsWrites ==
  ASSUME WriteIInv, NEW v \in Writes, TakeWrite(v)
  PROVE  WriteIInv'
<1>1. /\ UNCHANGED outgoing /\ UNCHANGED <<begun, reply, result>>
      /\ at = "select" /\ at' = "encode" /\ current' = v /\ call[v] = "sending"
      /\ call' = [call EXCEPT ![v] = "waiting"]
  BY DEF TakeWrite, OutboundRest, outgoing, writePump
<1>2. CallTyped'
  BY <1>1 DEF WriteIInv, CallTyped, outgoing
<1>3. PumpIInv'
  BY <1>1 DEF WriteIInv, PumpIInv, outgoing, Wired, InQueue, OnWrite
<1>4. ASSUME NEW w \in Writes PROVE CallIInv(w)'
  <2>1. CallIInv(w) /\ (Wired(w)' <=> Wired(w)) /\ call'[w] = IF w = v THEN "waiting" ELSE call[w]
    BY <1>1 DEF WriteIInv, CallTyped, Wired, InQueue, outgoing
  <2> QED
    BY <1>1, <2>1 DEF CallIInv, outgoing, OnWrite, Unanswered, Sending
<1> QED
  BY <1>2, <1>3, <1>4 DEF WriteIInv

LEMMA EncodeKeepsWrites ==
  ASSUME WriteIInv, Encode
  PROVE  WriteIInv'
<1>1. /\ UNCHANGED outgoing /\ UNCHANGED <<call, reply, result, current>> /\ at = "encode"
      /\ current \in Writes /\ CallIInv(current)
  BY DEF Encode, OutboundRest, outgoing, writePump, WriteIInv, PumpIInv, OnWrite
<1>2. \/ begun' = begun /\ at' \in {"refused", "refuse"}
      \/ /\ at' = "handJob" /\ begun[current] # "abandoned"
         /\ begun' = [begun EXCEPT ![current] = "started"]
  BY DEF Encode, Observe
<1>3. CallTyped'
  BY <1>1, <1>2 DEF WriteIInv, CallTyped, outgoing
<1>4. PumpIInv'
  <2>1. CASE at' = "handJob"
    <3>1. begun[current] # "started"
      BY <1>1 DEF CallIInv
    <3> QED
      BY <1>1, <2>1, <3>1 DEF WriteIInv, PumpIInv, CallIInv, outgoing, Wired, InQueue
  <2>2. CASE at' \in {"refused", "refuse"}
    BY <1>1, <2>2 DEF WriteIInv, PumpIInv, outgoing, Wired, InQueue
  <2> QED
    BY <1>2, <2>1, <2>2
<1>5. ASSUME NEW w \in Writes PROVE CallIInv(w)'
  <2>1. CallIInv(w) /\ (Wired(w)' <=> Wired(w))
    BY <1>1 DEF WriteIInv, Wired, InQueue, outgoing
  <2>2. \/ at' # "handJob" /\ begun'[w] = begun[w]
        \/ at' = "handJob" /\ w # current /\ begun'[w] = begun[w]
        \/ at' = "handJob" /\ w = current /\ begun'[w] = "started" /\ begun[w] # "abandoned"
    BY <1>1, <1>2 DEF WriteIInv, CallTyped
  <2> QED
    BY <1>1, <1>2, <2>1, <2>2 DEF CallIInv, outgoing, OnWrite, Unanswered, Sending
<1> QED
  BY <1>3, <1>4, <1>5 DEF WriteIInv

(* The steps that answer a request, or end its path without an answer.           *)
LEMMA AnswerKeepsWrites ==
  ASSUME WriteIInv, Refuse \/ FinishWrite \/ Confirm \/ ReleaseWrite
  PROVE  WriteIInv'
<1>1. /\ UNCHANGED outgoing /\ UNCHANGED <<call, begun, result, current>>
      /\ at \in OnWrite /\ current \in Writes /\ CallIInv(current)
  BY DEF Refuse, FinishWrite, Confirm, ReleaseWrite, OutboundRest, outgoing, writePump,
         WriteIInv, PumpIInv, OnWrite
<1>2. \/ at = "refuse" /\ at' = "release" /\ reply' = reply
      \/ at = "refuse" /\ at' = "release" /\ reply' = [reply EXCEPT ![current] = "error"]
      \/ /\ at = "writing" /\ outcome = "ok" /\ at' \in {"rawOut", "confirm"}
         /\ reply' = reply
      \/ /\ at = "writing" /\ outcome = "error" /\ at' = "stopWrite"
         /\ reply' = [reply EXCEPT ![current] = "error"]
      \/ at = "confirm" /\ at' = "release" /\ reply' = [reply EXCEPT ![current] = "ok"]
      \/ /\ at \in {"release", "releaseLast", "stopWrite"} /\ at' \in {"select", "ended"}
         /\ reply' = reply
  BY DEF Refuse, FinishWrite, Confirm, ReleaseWrite, Observe
<1>3. CallTyped'
  BY <1>1, <1>2 DEF WriteIInv, CallTyped, outgoing
<1>4. PumpIInv'
  <2>1. outcome = "ok" /\ at = "writing" => Wired(current)
    BY DEF WriteIInv, PumpIInv
  <2> QED
    BY <1>1, <1>2, <2>1 DEF WriteIInv, PumpIInv, outgoing, Wired, InQueue, OnWrite
<1>5. ASSUME NEW w \in Writes PROVE CallIInv(w)'
  <2>1. CallIInv(w) /\ (Wired(w)' <=> Wired(w))
    BY <1>1 DEF WriteIInv, Wired, InQueue, outgoing
  <2>2. CASE reply'[w] = reply[w]
    BY <1>1, <1>2, <2>1, <2>2 DEF CallIInv, outgoing, OnWrite, Unanswered, Sending
  <2>3. CASE reply'[w] # reply[w]
    <3>1. w = current /\ at' \in {"release", "stopWrite"} /\ reply[w] = "none"
      BY <1>1, <1>2, <2>1, <2>3 DEF WriteIInv, CallTyped, CallIInv, Unanswered
    <3>2. \/ reply'[w] = "error"
          \/ reply'[w] = "ok" /\ at = "confirm"
      BY <1>1, <1>2, <2>3, <3>1 DEF WriteIInv, CallTyped
    <3>3. at = "confirm" => Wired(w)
      BY <3>1 DEF WriteIInv, PumpIInv
    <3> QED
      BY <1>1, <2>1, <3>1, <3>2, <3>3 DEF CallIInv, outgoing, OnWrite, Unanswered, Sending
  <2> QED
    BY <2>2, <2>3
<1> QED
  BY <1>3, <1>4, <1>5 DEF WriteIInv

LEMMA GiveJobKeepsWrites ==
  ASSUME WriteIInv, GiveJob
  PROVE  WriteIInv'
<1>1. /\ UNCHANGED <<wire, call, begun, result, current>> /\ at = "handJob"
      /\ current \in Writes /\ CallIInv(current) /\ job # current /\ ~Wired(current)
  BY DEF GiveJob, OutboundRest, WriteIInv, PumpIInv, OnWrite
<1>2. current \in Packets
  BY <1>1 DEF Packets
<1>3. CASE at' = "writing" /\ HandJob(current) /\ reply' = reply
  <2>1. CallTyped'
    BY <1>1, <1>2, <1>3 DEF WriteIInv, CallTyped, HandJob
  <2>2. PumpIInv'
    <3>1. Wired(job)' <=> Wired(current)
      BY <1>1, <1>3 DEF HandJob, Wired, InQueue
    <3> QED
      BY <1>1, <1>3, <3>1 DEF WriteIInv, PumpIInv, HandJob, OnWrite
  <2>3. ASSUME NEW w \in Writes PROVE CallIInv(w)'
    <3>1. CallIInv(w) /\ (Wired(w)' <=> Wired(w)) /\ job' = current
      BY <1>1, <1>3 DEF WriteIInv, Wired, InQueue, HandJob
    <3>2. w = current => begun[w] = "started" /\ reply[w] = "none"
      BY <1>1 DEF CallIInv, Sending, Unanswered
    <3> QED
      BY <1>1, <1>3, <3>1, <3>2 DEF CallIInv, OnWrite, Unanswered, Sending
  <2> QED
    BY <2>1, <2>2, <2>3 DEF WriteIInv
<1>4. CASE /\ at' = "releaseLast" /\ UNCHANGED outgoing
           /\ reply' = [reply EXCEPT ![current] = "closed"]
  <2>1. CallTyped'
    BY <1>1, <1>4 DEF WriteIInv, CallTyped, outgoing
  <2>2. PumpIInv'
    BY <1>1, <1>4 DEF WriteIInv, PumpIInv, OnWrite, outgoing, Wired, InQueue
  <2>3. ASSUME NEW w \in Writes PROVE CallIInv(w)'
    <3>1. CallIInv(w) /\ (Wired(w)' <=> Wired(w))
      BY <1>1 DEF WriteIInv, Wired, InQueue
    <3>2. reply'[w] = IF w = current THEN "closed" ELSE reply[w]
      BY <1>1, <1>4 DEF WriteIInv, CallTyped
    <3>3. w = current => begun[w] = "started" /\ reply[w] = "none"
      BY <1>1 DEF CallIInv, Sending, Unanswered
    <3> QED
      BY <1>1, <1>4, <3>1, <3>2, <3>3 DEF CallIInv, outgoing, OnWrite, Unanswered, Sending
  <2> QED
    BY <2>1, <2>2, <2>3 DEF WriteIInv
<1> QED
  BY <1>1, <1>3, <1>4 DEF GiveJob, outgoing, writePump

LEMMA GiveByeKeepsWrites ==
  ASSUME WriteIInv, GiveBye
  PROVE  WriteIInv'
<1>1. /\ UNCHANGED <<wire, call, begun, reply, result, current>> /\ at = "byeJob"
      /\ at' \in {"byeWriting", "byeFailed"}
  BY DEF GiveBye, ByeRest, writeCalls
<1>2. CASE HandJob(Bye)
  <2>1. \A w \in Writes : w # Bye
    BY StreamAssumption
  <2>2. CallTyped'
    BY <1>1, <1>2 DEF WriteIInv, CallTyped, HandJob, Packets
  <2>3. PumpIInv'
    BY <1>1, <1>2 DEF WriteIInv, PumpIInv, HandJob, OnWrite
  <2>4. ASSUME NEW w \in Writes PROVE CallIInv(w)'
    <3>1. CallIInv(w) /\ (Wired(w)' <=> Wired(w)) /\ job' # w
      BY <1>1, <1>2, <2>1 DEF WriteIInv, Wired, InQueue, HandJob
    <3> QED
      BY <1>1, <3>1 DEF CallIInv, OnWrite, Unanswered, Sending
  <2> QED
    BY <2>2, <2>3, <2>4 DEF WriteIInv
<1>3. CASE UNCHANGED writePump
  <2>1. WritesAlone
    BY <1>1, <1>3 DEF WritesAlone, outgoing, answers, writePump, OnWrite
  <2> QED
    BY <2>1, WritesAloneKeeps
<1> QED
  BY <1>2, <1>3 DEF GiveBye
-----------------------------------------------------------------------------
(* The calls themselves.                                                      *)
LEMMA CallKeepsWrites ==
  ASSUME WriteIInv, NEW v \in Writes, WriteProceeds(v) \/ WriteStarts(v) \/ WriteCancelled(v)
  PROVE  WriteIInv'
<1>1. UNCHANGED outgoing /\ UNCHANGED <<reply, at, current>> /\ CallIInv(v)
  BY DEF WriteProceeds, WriteReserves, WriteAcquires, WriteRejected, WriteAnswered,
         WriteStarts, WriteCancelled, WriteRest, outgoing, writePump, WriteIInv
<1>2. \/ UNCHANGED <<call, begun, result>>
      \/ /\ call[v] = "idle" /\ call' = [call EXCEPT ![v] = "acquiring"]
         /\ UNCHANGED <<begun, result>>
      \/ /\ call[v] = "acquiring" /\ call' = [call EXCEPT ![v] = "sending"]
         /\ UNCHANGED <<begun, result>>
      \/ /\ call[v] \in {"idle", "acquiring", "sending"} /\ begun' = begun
         /\ Returns(v, "rejected") \/ Returns(v, "cancelled")
      \/ call[v] = "waiting" /\ reply[v] # "none" /\ Returns(v, reply[v]) /\ begun' = begun
      \/ /\ call[v] = "waiting" /\ begun[v] = "queued" /\ Returns(v, "cancelled")
         /\ begun' = [begun EXCEPT ![v] = "abandoned"]
      \/ /\ call[v] = "waiting" /\ begun[v] = "started" /\ Returns(v, "ambiguous")
         /\ begun' = begun
  BY DEF WriteProceeds, WriteReserves, WriteAcquires, WriteRejected, WriteAnswered,
         WriteStarts, WriteCancelled
<1>3. CallTyped'
  BY <1>1, <1>2 DEF WriteIInv, CallTyped, Returns, outgoing
<1>4. PumpIInv'
  BY <1>1 DEF WriteIInv, PumpIInv, outgoing, Wired, InQueue
<1>5. ASSUME NEW w \in Writes PROVE CallIInv(w)'
  <2>1. CallIInv(w) /\ (Wired(w)' <=> Wired(w))
    BY <1>1 DEF WriteIInv, Wired, InQueue, outgoing
  <2>2. CASE w # v
    <3>1. call'[w] = call[w] /\ begun'[w] = begun[w] /\ result'[w] = result[w]
      BY <1>2, <2>2 DEF WriteIInv, CallTyped, Returns
    <3> QED
      BY <1>1, <2>1, <3>1 DEF CallIInv, outgoing
  <2>3. CASE w = v
    <3>1. \/ call'[v] = call[v] /\ begun'[v] = begun[v] /\ result'[v] = result[v]
          \/ /\ call[v] \in {"idle", "acquiring"} /\ call'[v] \in {"acquiring", "sending"}
             /\ begun'[v] = begun[v] /\ result'[v] = result[v]
          \/ /\ call[v] \in {"idle", "acquiring", "sending"} /\ begun'[v] = begun[v]
             /\ call'[v] = "returned" /\ result'[v] \in {"rejected", "cancelled"}
          \/ /\ call[v] = "waiting" /\ reply[v] # "none" /\ begun'[v] = begun[v]
             /\ call'[v] = "returned" /\ result'[v] = reply[v]
          \/ /\ call[v] = "waiting" /\ begun[v] = "queued" /\ begun'[v] = "abandoned"
             /\ call'[v] = "returned" /\ result'[v] = "cancelled"
          \/ /\ call[v] = "waiting" /\ begun'[v] = begun[v]
             /\ call'[v] = "returned" /\ result'[v] = "ambiguous"
      BY <1>2 DEF WriteIInv, CallTyped, Returns
    <3>2. reply[v] \in {"none", "ok", "closed", "error"}
      BY DEF WriteIInv, CallTyped
    <3> QED
      BY <1>1, <2>1, <2>3, <3>1, <3>2, PointsOnWrite DEF CallIInv, outgoing, OnWrite
  <2> QED
    BY <2>2, <2>3
<1> QED
  BY <1>3, <1>4, <1>5 DEF WriteIInv
-----------------------------------------------------------------------------
LEMMA NextKeepsWrites == WriteIInv /\ [Next]_vars => WriteIInv'
<1> SUFFICES ASSUME WriteIInv, [Next]_vars PROVE WriteIInv'
  OBVIOUS
<1>1. CASE WritesAlone
  BY <1>1, WritesAloneKeeps
<1>2. CASE \E w \in Writes : TakeWrite(w)
  BY <1>2, TakeWriteKeepsWrites
<1>3. CASE \E w \in Writes : WriteProceeds(w) \/ WriteStarts(w) \/ WriteCancelled(w)
  BY <1>3, CallKeepsWrites
<1>4. CASE UNCHANGED vars
  <2>1. WritesAlone
    BY <1>4 DEF vars, WritesAlone, outgoing, answers, writePump, writeCalls
  <2> QED
    BY <2>1, WritesAloneKeeps
<1> QED
  BY <1>1, <1>2, <1>3, <1>4, OutsideLeavesWrites, InboundLeavesWrites,
     EndingLeavesWrites, OthersLeaveWrites, ObserveKeepsWrites, PumpKeepsWrites,
     EncodeKeepsWrites, AnswerKeepsWrites, GiveJobKeepsWrites, GiveByeKeepsWrites
     DEF Next, System, User, Coordinate

LEMMA InitWrites == Init => WriteIInv
<1> SUFFICES ASSUME Init PROVE WriteIInv
  OBVIOUS
<1>1. /\ wire = <<>> /\ job = None /\ writer = "idle" /\ outcome = "none"
      /\ at = "select"
      /\ call = [w \in Writes |-> "idle"] /\ begun = [w \in Writes |-> "queued"]
      /\ reply = [w \in Writes |-> "none"] /\ result = [w \in Writes |-> "none"]
  BY DEF Init
<1>2. ASSUME NEW w \in Writes PROVE ~Wired(w) /\ job # w
  <2>1. w # None
    BY StreamAssumption DEF Packets
  <2>2. ~Wired(w)
    BY <1>1 DEF Wired, InQueue
  <2> QED
    BY <1>1, <2>1, <2>2
<1>3. CallTyped
  BY <1>1 DEF CallTyped
<1>4. PumpIInv
  BY <1>1 DEF PumpIInv, OnWrite
<1>5. ASSUME NEW w \in Writes PROVE CallIInv(w)
  BY <1>1, <1>2 DEF CallIInv, OnWrite, Unanswered, Sending
<1> QED
  BY <1>3, <1>4, <1>5 DEF WriteIInv

(* Write tells the truth, however a cancellation, a stop and the pumps interleave:  *)
(* "ok" means that the peer has the frame, and an error other than a failed or      *)
(* ambiguous write that it never will (stream_runtime.go:1046-1092).            *)
THEOREM SpecWriteTellsTheTruth == Spec => []WriteTellsTheTruth
<1>1. ASSUME WriteIInv PROVE WriteTellsTheTruth
  <2>1. ASSUME NEW w \in Writes
        PROVE  /\ result[w] = "ok" => Wired(w)
               /\ result[w] \in {"cancelled", "rejected", "closed"} => ~Wired(w) /\ job # w
    BY <1>1 DEF WriteIInv, CallIInv
  <2> QED
    BY <2>1 DEF WriteTellsTheTruth, Wired
<1>2. WriteIInv => WriteTellsTheTruth
  BY <1>1
<1> QED
  BY <1>2, InitWrites, NextKeepsWrites, PTL DEF Spec
-----------------------------------------------------------------------------
(***************************************************************************)
(* ReadInOrder is not inductive: where the next packet belongs depends on how    *)
(* many frames the coordinator has taken, and on the one it has in hand.         *)
(***************************************************************************)
InHand == {"rawIn", "decode", "packetIn", "enqueue"}
Taken  == IF reader = "handing" THEN framed - 1 ELSE framed

Ascending(s) == \A j, k \in 1..Len(s) : j < k => Position(s[j]) < Position(s[k])
UpTo(s, n)   == \A k \in 1..Len(s) : Position(s[k]) <= n
Gapless(s)   == \A k \in 1..Len(s) : s[k] = Inbound[k]

OrderTyped ==
  /\ delivered \in Seq(Arrivals) /\ inboundPackets \in Seq(Arrivals)
  /\ pending \in Arrivals \cup {None}
  /\ sent \in 0..Len(Inbound) /\ framed \in 0..sent
  /\ reader = "handing" => framed >= 1
  /\ decoded \in Nat /\ stopPhase \in 0..3

Placed ==
  /\ Ascending(ToRead) /\ UpTo(ToRead, Taken)
  /\ at \in InHand =>
       /\ pending = None /\ current \in Arrivals
       /\ Position(current) <= Taken /\ UpTo(ToRead, Position(current) - 1)
  /\ at \in {"withdraw", "handOff"} => pending # None /\ Stopping

(* While nothing has stopped the stream, nothing is missing.                    *)
Complete ==
  ~Stopping =>
    /\ Gapless(ToRead)
    /\ at \in InHand => Position(current) = Taken
    /\ at \notin Over =>
         /\ Len(ToRead) = IF at \in {"packetIn", "enqueue"} THEN decoded - 1 ELSE decoded
         /\ Taken = IF at \in Undecoded THEN decoded + 1 ELSE decoded

OrderIInv == OrderTyped /\ Placed /\ Complete
-----------------------------------------------------------------------------
(* Moving one packet along leaves what there is to read as it was.               *)
LEMMA TakeHead ==
  ASSUME NEW S, NEW d \in Seq(S), NEW q \in Seq(S), q # <<>>
  PROVE  Append(d, Head(q)) \o Tail(q) = d \o q
<1> DEFINE u == Append(d, Head(q)) \o Tail(q)
           v == d \o q
<1>1. Head(q) \in S /\ Tail(q) \in Seq(S) /\ Len(q) \in Nat \ {0}
  BY HeadTailProperties, EmptySeq
<1>2. u \in Seq(S) /\ v \in Seq(S) /\ Append(d, Head(q)) \in Seq(S)
  BY <1>1, AppendProperties, ConcatProperties
<1>3. Len(u) = Len(d) + Len(q) /\ Len(v) = Len(d) + Len(q) /\ Len(d) \in Nat
  BY <1>1, <1>2
<1>4. ASSUME NEW k \in 1..(Len(d) + Len(q)) PROVE u[k] = v[k]
  <2>1. CASE k <= Len(d)
    BY <1>1, <1>2, <1>3, <2>1
  <2>2. CASE k = Len(d) + 1
    BY <1>1, <1>2, <1>3, <2>2
  <2>3. CASE k > Len(d) + 1
    BY <1>1, <1>2, <1>3, <2>3
  <2> QED
    BY <1>3, <2>1, <2>2, <2>3
<1> QED
  BY <1>2, <1>3, <1>4, SeqEqual

LEMMA AppendInner ==
  ASSUME NEW S, NEW d \in Seq(S), NEW q \in Seq(S), NEW x \in S
  PROVE  d \o Append(q, x) = Append(d \o q, x)
<1> DEFINE u == d \o Append(q, x)
           v == Append(d \o q, x)
<1>1. u \in Seq(S) /\ v \in Seq(S) /\ d \o q \in Seq(S) /\ Append(q, x) \in Seq(S)
  BY AppendProperties, ConcatProperties
<1>2. Len(u) = Len(d) + Len(q) + 1 /\ Len(v) = Len(d) + Len(q) + 1
  BY <1>1
<1>3. \A k \in 1..(Len(d) + Len(q) + 1) : u[k] = v[k]
  BY <1>1, <1>2
<1> QED
  BY <1>1, <1>2, <1>3, SeqEqual

Queue == delivered \o inboundPackets

LEMMA ToReadIs ==
  ASSUME OrderTyped
  PROVE  /\ Queue \in Seq(Arrivals) /\ ToRead \in Seq(Arrivals)
         /\ pending = None => ToRead = Queue
         /\ pending # None => pending \in Arrivals /\ ToRead = Append(Queue, pending)
<1>1. delivered \in Seq(Arrivals) /\ inboundPackets \in Seq(Arrivals)
  BY DEF OrderTyped
<1>2. Queue \in Seq(Arrivals)
  BY <1>1, ConcatProperties DEF Queue
<1>3. CASE pending = None
  <2>1. ToRead = Queue \o <<>>
    BY <1>3 DEF ToRead, Queue
  <2>2. Queue \o <<>> = Queue
    BY <1>2, ConcatEmptySeq
  <2> QED
    BY <1>2, <1>3, <2>1, <2>2
<1>4. CASE pending # None
  <2>1. pending \in Arrivals
    BY <1>4 DEF OrderTyped
  <2>2. ToRead = Queue \o <<pending>>
    BY <1>4 DEF ToRead, Queue
  <2>3. <<>> \in Seq(Arrivals) /\ Append(<<>>, pending) = <<pending>>
    BY <2>1
  <2>4. Queue \o Append(<<>>, pending) = Append(Queue \o <<>>, pending)
    BY <1>2, <2>1, <2>3, AppendInner
  <2>5. Queue \o <<>> = Queue
    BY <1>2, ConcatEmptySeq
  <2>6. ToRead = Append(Queue, pending)
    BY <2>2, <2>3, <2>4, <2>5
  <2> QED
    BY <1>2, <1>4, <2>1, <2>6, AppendProperties
<1> QED
  BY <1>3, <1>4

(* The same facts of the state a step leads to.                                  *)
ToReadShape ==
  /\ Queue \in Seq(Arrivals) /\ ToRead \in Seq(Arrivals)
  /\ pending = None => ToRead = Queue
  /\ pending # None => pending \in Arrivals /\ ToRead = Append(Queue, pending)

LEMMA ToReadHasShape == OrderTyped => ToReadShape
BY ToReadIs DEF ToReadShape

LEMMA ToReadKeepsShape == OrderTyped' => ToReadShape'
BY ToReadHasShape, PTL

(* Every arrival has one place in the sequence the peer sends.                   *)
LEMMA Positions ==
  /\ Len(Inbound) \in Nat
  /\ \A k \in 1..Len(Inbound) : Inbound[k] \in Arrivals /\ Position(Inbound[k]) = k
  /\ \A p \in Arrivals : Position(p) \in 1..Len(Inbound) /\ Inbound[Position(p)] = p
<1>0. Inbound \in Seq(Arrivals)
  BY StreamAssumption
<1>1. Len(Inbound) \in Nat
  BY <1>0
<1>2. ASSUME NEW p \in Arrivals
      PROVE  Position(p) \in 1..Len(Inbound) /\ Inbound[Position(p)] = p
  <2>1. \E k \in 1..Len(Inbound) : Inbound[k] = p
    BY DEF Arrivals
  <2> QED
    BY <2>1 DEF Position
<1>3. ASSUME NEW k \in 1..Len(Inbound)
      PROVE  Inbound[k] \in Arrivals /\ Position(Inbound[k]) = k
  <2>1. Inbound[k] \in Arrivals
    BY DEF Arrivals
  <2>2. Position(Inbound[k]) \in 1..Len(Inbound) /\ Inbound[Position(Inbound[k])] = Inbound[k]
    BY <1>2, <2>1
  <2> QED
    BY <2>1, <2>2, StreamAssumption
<1> QED
  BY <1>1, <1>2, <1>3

(* A packet that comes behind all others keeps the order, and the gaps closed.    *)
LEMMA AppendAscends ==
  ASSUME NEW s \in Seq(Arrivals), NEW p \in Arrivals, NEW n \in Int,
         Ascending(s), UpTo(s, Position(p) - 1), Position(p) <= n
  PROVE  Ascending(Append(s, p)) /\ UpTo(Append(s, p), n)
<1> DEFINE t == Append(s, p)
<1>1. /\ Len(t) = Len(s) + 1 /\ Len(s) \in Nat /\ t[Len(s) + 1] = p
      /\ \A k \in 1..Len(s) : t[k] = s[k] /\ s[k] \in Arrivals
  BY ElementOfSeq
<1>2. Position(p) \in Int /\ \A k \in 1..Len(s) : Position(s[k]) \in Int /\ Position(s[k]) < Position(p)
  BY <1>1, Positions DEF UpTo
<1>3. Ascending(t)
  <2> SUFFICES ASSUME NEW j \in 1..Len(t), NEW k \in 1..Len(t), j < k
               PROVE  Position(t[j]) < Position(t[k])
    BY DEF Ascending
  <2>1. j \in 1..Len(s)
    BY <1>1
  <2>2. k \in 1..Len(s) \/ k = Len(s) + 1
    BY <1>1
  <2> QED
    BY <1>1, <1>2, <2>1, <2>2 DEF Ascending
<1>4. UpTo(t, n)
  <2> SUFFICES ASSUME NEW k \in 1..Len(t) PROVE Position(t[k]) <= n
    BY DEF UpTo
  <2>1. k \in 1..Len(s) \/ k = Len(s) + 1
    BY <1>1
  <2> QED
    BY <1>1, <1>2, <2>1
<1> QED
  BY <1>3, <1>4

LEMMA AppendGapless ==
  ASSUME NEW s \in Seq(Arrivals), NEW p \in Arrivals, Gapless(s), Position(p) = Len(s) + 1
  PROVE  Gapless(Append(s, p))
<1>1. Inbound[Len(s) + 1] = p
  BY Positions
<1> QED
  BY <1>1 DEF Gapless

LEMMA FrontAscends ==
  ASSUME NEW s \in Seq(Arrivals), NEW p \in Arrivals, NEW n,
         Ascending(Append(s, p)), UpTo(Append(s, p), n)
  PROVE  Ascending(s) /\ UpTo(s, n)
BY DEF Ascending, UpTo
-----------------------------------------------------------------------------
orderVars == <<delivered, inboundPackets, pending, decoded, framed, sent>>

(* Steps that leave the packets where they are, and the coordinator at what it has   *)
(* in hand, or stop the stream.                                                *)
OrderAlone ==
  /\ UNCHANGED <<delivered, inboundPackets, pending, decoded, framed>>
  /\ sent' \in framed..Len(Inbound)
  /\ reader' = "handing" <=> reader = "handing"
  /\ stopPhase' \in 0..3 /\ (Stopping => Stopping')
  /\ at' \in InHand => at \in InHand /\ current' = current
  /\ at' \in {"withdraw", "handOff"} => at' = at
  /\ \/ Stopping'
     \/ at' \in Over /\ at \notin InHand
     \/ /\ at \in Over => at' \in Over
        /\ at \in Undecoded <=> at' \in Undecoded
        /\ at \in {"packetIn", "enqueue"} <=> at' \in {"packetIn", "enqueue"}

LEMMA OrderAloneKeeps == OrderIInv /\ OrderAlone => OrderIInv'
<1> SUFFICES ASSUME OrderIInv, OrderAlone PROVE OrderIInv'
  OBVIOUS
<1>1. ToRead' = ToRead /\ Taken' = Taken
  BY DEF OrderAlone, ToRead, Taken
<1>2. /\ Ascending(ToRead)' <=> Ascending(ToRead)
      /\ Gapless(ToRead)' <=> Gapless(ToRead)
      /\ UpTo(ToRead, Taken)' <=> UpTo(ToRead, Taken)
  BY <1>1 DEF Ascending, Gapless, UpTo
<1>3. OrderTyped'
  BY DEF OrderIInv, OrderTyped, OrderAlone
<1>4. Placed'
  <2>1. ASSUME at' \in InHand
        PROVE  /\ pending' = None /\ current' \in Arrivals /\ Position(current)' <= Taken'
               /\ UpTo(ToRead, Position(current) - 1)'
    BY <1>1, <2>1 DEF OrderIInv, Placed, OrderAlone, UpTo
  <2>2. at' \in {"withdraw", "handOff"} => pending' # None /\ Stopping'
    BY DEF OrderIInv, Placed, OrderAlone
  <2> QED
    BY <1>2, <2>1, <2>2 DEF OrderIInv, Placed
<1>5. Complete'
  <2> SUFFICES ASSUME ~Stopping' PROVE Complete'
    BY DEF Complete
  <2>1. ~Stopping
    BY DEF OrderAlone
  <2>2. Complete
    BY DEF OrderIInv
  <2>3. at' \in InHand => at \in InHand /\ Position(current)' = Position(current)
    BY DEF OrderAlone
  <2> QED
    BY <1>1, <1>2, <2>1, <2>2, <2>3 DEF Complete, OrderAlone, Undecoded, InHand, Over
<1> QED
  BY <1>3, <1>4, <1>5 DEF OrderIInv

LEMMA StopPhaseGrows ==
  ASSUME OrderTyped, NEW c, FailAndStop(c)
  PROVE  stopPhase' \in 0..3 /\ Stopping'
BY DEF OrderTyped, FailAndStop, Stopping

LEMMA OutsideLeavesOrder ==
  ASSUME OrderTyped, StopGoesOn \/ PeerSends \/ PeerHangsUp
  PROVE  OrderAlone
<1>1. /\ UNCHANGED <<delivered, inboundPackets, pending, decoded, framed, reader, at, current>>
  BY DEF StopGoesOn, PeerSends, PeerHangsUp, readCall, session, readPump
<1>2. sent' = sent \/ (sent < Len(Inbound) /\ sent' = sent + 1)
  BY DEF StopGoesOn, PeerSends, PeerHangsUp, peer
<1>3. sent \in 0..Len(Inbound) /\ framed \in 0..sent /\ Len(Inbound) \in Nat
  BY Positions DEF OrderTyped
<1>4. sent' \in framed..Len(Inbound)
  BY <1>2, <1>3
<1>5. stopPhase' = stopPhase \/ (stopPhase \in {1, 2} /\ stopPhase' = stopPhase + 1)
  BY DEF StopGoesOn, PeerSends, PeerHangsUp, ending
<1>6. stopPhase' \in 0..3 /\ (Stopping => Stopping')
  BY <1>5 DEF OrderTyped, Stopping
<1> QED
  BY <1>1, <1>4, <1>6 DEF OrderAlone

LEMMA OutboundLeavesOrder ==
  ASSUME OrderTyped,
         \/ \E w \in Writes : TakeWrite(w)
         \/ Encode \/ Refuse \/ GiveJob \/ FinishWrite \/ Confirm \/ ReleaseWrite
         \/ WriteReaches \/ WriteReturns \/ WriterExits
  PROVE  OrderAlone
<1>1. /\ UNCHANGED <<delivered, inboundPackets, pending, decoded, framed, reader, sent>>
  BY DEF TakeWrite, Encode, Refuse, GiveJob, FinishWrite, Confirm, ReleaseWrite,
         WriteReaches, WriteReturns, WriterExits, OutboundRest, WriterRest, readCall,
         session, readPump, peer
<1>2. stopPhase' \in 0..3 /\ (Stopping => Stopping')
  BY StopPhaseGrows
     DEF TakeWrite, Encode, Refuse, GiveJob, FinishWrite, Confirm, ReleaseWrite,
         WriteReaches, WriteReturns, WriterExits, OrderTyped, Stopping, WriterRest, ending
<1>3. \/ at' = at /\ current' = current
      \/ /\ at \notin InHand \cup Over /\ at' \notin InHand \cup {"withdraw", "handOff"}
  BY DEF TakeWrite, Encode, Refuse, GiveJob, FinishWrite, Confirm, ReleaseWrite, Observe,
         WriteReaches, WriteReturns, WriterExits, WriterRest, InHand, Over
<1> QED
  BY <1>1, <1>2, <1>3 DEF OrderAlone, OrderTyped, InHand, Undecoded

LEMMA EndingLeavesOrder ==
  ASSUME OrderTyped,
         \/ TakeShutdown \/ GiveBye \/ AwaitBye \/ FinishShutdown
         \/ CoordinatorReturns \/ Linger \/ LingerEnds \/ RunStops \/ Finish
  PROVE  OrderAlone
<1>1. /\ UNCHANGED <<delivered, inboundPackets, pending, decoded, framed, reader, sent>>
  BY DEF TakeShutdown, GiveBye, AwaitBye, FinishShutdown, CoordinatorReturns, Linger,
         LingerEnds, RunStops, Finish, ByeRest, RunRest, readCall, session, readPump, peer
<1>2. stopPhase' = stopPhase \/ (stopPhase = 0 /\ stopPhase' = 1)
  BY DEF TakeShutdown, GiveBye, AwaitBye, FinishShutdown, CoordinatorReturns, Linger,
         LingerEnds, RunStops, Finish, ending
<1>3. stopPhase' \in 0..3 /\ (Stopping => Stopping')
  BY <1>2 DEF OrderTyped, Stopping
<1>4. /\ at \notin InHand /\ at' \notin InHand \cup {"withdraw", "handOff"}
      /\ at \in Over => at' \in Over
  BY DEF TakeShutdown, GiveBye, AwaitBye, FinishShutdown, CoordinatorReturns, Linger,
         LingerEnds, RunStops, Finish, Observe, InHand, Over
<1>5. sent' \in framed..Len(Inbound)
  BY <1>1 DEF OrderTyped
<1> QED
  BY <1>1, <1>3, <1>4, <1>5 DEF OrderAlone, InHand, Undecoded

LEMMA OthersLeaveOrder ==
  ASSUME OrderTyped,
         \/ Dispatch \/ ReadReleases \/ ReadEnds \/ ObserveReserves
         \/ ShutdownStarts \/ ShutdownReturns \/ AbortShutdown \/ CloseCalled
         \/ ContextEnds \/ WatchContext
         \/ \E w \in Writes : WriteProceeds(w) \/ WriteStarts(w) \/ WriteCancelled(w)
  PROVE  OrderAlone
<1>1. CASE Dispatch
  <2>1. UNCHANGED <<delivered, inboundPackets, pending, decoded, framed, reader, sent, at, current>>
    BY <1>1 DEF Dispatch, TakeRecord, SinkReturns, SinkFailure, StartDrain,
                DispatcherExits, DispatchRest, readCall, session, readPump, peer
  <2>2. stopPhase' \in 0..3 /\ (Stopping => Stopping')
    BY <1>1, StopPhaseGrows DEF Dispatch, TakeRecord, SinkReturns, SinkFailure, StartDrain,
                DispatcherExits, ending, OrderTyped, Stopping
  <2> QED
    BY <2>1, <2>2 DEF OrderAlone, OrderTyped
<1>2. CASE ReadReleases \/ ReadEnds \/ ObserveReserves
  <2>1. UNCHANGED <<delivered, inboundPackets, pending, decoded, framed, reader, sent, at, current,
                    stopPhase>>
    BY <1>2 DEF ReadReleases, ReadEnds, ObserveReserves, ReadRest, CoordinatorRest,
                readCall, session, readPump, peer, ending
  <2> QED
    BY <2>1 DEF OrderAlone, OrderTyped, Stopping
<1>3. CASE \/ ShutdownStarts \/ ShutdownReturns \/ AbortShutdown \/ CloseCalled
           \/ ContextEnds \/ WatchContext
  <2>1. UNCHANGED <<delivered, inboundPackets, pending, decoded, framed, reader, sent, at, current>>
    BY <1>3 DEF ShutdownStarts, ShutdownReturns, AbortShutdown, CloseCalled,
                ContextEnds, WatchContext, EndRest, readCall, session, readPump, peer
  <2>2. stopPhase' \in 0..3 /\ (Stopping => Stopping')
    BY <1>3, StopPhaseGrows
       DEF ShutdownStarts, ShutdownReturns, AbortShutdown, CloseCalled,
           ContextEnds, WatchContext, ending, OrderTyped, Stopping
  <2> QED
    BY <2>1, <2>2 DEF OrderAlone, OrderTyped
<1>4. CASE \E w \in Writes : WriteProceeds(w) \/ WriteStarts(w) \/ WriteCancelled(w)
  <2>1. UNCHANGED <<delivered, inboundPackets, pending, decoded, framed, reader, sent, at, current>>
    BY <1>4 DEF WriteProceeds, WriteStarts, WriteReserves, WriteAcquires, WriteRejected,
                WriteAnswered, WriteCancelled, WriteRest, readCall, session, readPump, peer
  <2>2. stopPhase' \in 0..3 /\ (Stopping => Stopping')
    BY <1>4, StopPhaseGrows
       DEF WriteProceeds, WriteStarts, WriteReserves, WriteAcquires, WriteRejected,
           WriteAnswered, WriteCancelled, ending, OrderTyped, Stopping
  <2> QED
    BY <2>1, <2>2 DEF OrderAlone, OrderTyped
<1> QED
  BY <1>1, <1>2, <1>3, <1>4

LEMMA ObserveLeavesOrder ==
  ASSUME OrderTyped, ObserveQueues \/ ObserveFails
  PROVE  OrderAlone
<1>1. UNCHANGED <<delivered, inboundPackets, pending, decoded, framed, reader, sent, current>>
  BY DEF ObserveQueues, ObserveFails, CoordinatorRest, readCall, session, readPump, peer
<1>2. at \in DOMAIN Observed
  BY DEF ObserveQueues, ObserveFails, Observing
<1>3. \/ UNCHANGED <<stopPhase, cause>>
      \/ FailAndStop("observe")
  BY DEF ObserveQueues, ObserveFails, ObserveError, ending
<1>4. stopPhase' \in 0..3 /\ (Stopping => Stopping')
  BY <1>3, StopPhaseGrows DEF OrderTyped, Stopping
<1>5. \/ at = "rawIn" /\ at' = "decode"
      \/ at = "packetIn" /\ at' = "enqueue"
      \/ at \in {"rawIn", "packetIn"} /\ at' = "stopping" /\ FailAndStop("observe")
      \/ /\ at \notin InHand \cup Over
         /\ at' \in {"packetOut", "confirm", "refuse", "packetBye", "bye", "byeFailed", "stopWrite"}
  <2>1. CASE ObserveQueues
    <3>1. at' = Observed[at].then
      BY <2>1 DEF ObserveQueues
    <3> QED
      BY <1>2, <3>1 DEF Observed, InHand, Over
  <2>2. CASE ObserveFails
    <3>1. ObserveError
      BY <2>2 DEF ObserveFails
    <3>2. CASE at \in {"rawIn", "packetIn"}
      BY <3>1, <3>2 DEF ObserveError, Observed
    <3>3. CASE at \notin {"rawIn", "packetIn"}
      BY <3>1, <3>3 DEF ObserveError, InHand, Over
    <3> QED
      BY <3>2, <3>3
  <2> QED
    BY <2>1, <2>2
<1>6. FailAndStop("observe") => Stopping'
  BY StopPhaseGrows
<1>7. sent' \in framed..Len(Inbound)
  BY <1>1 DEF OrderTyped
<1>8. /\ at' \in InHand => at \in InHand
      /\ at' \notin {"withdraw", "handOff"}
  BY <1>5 DEF InHand
<1>9. \/ Stopping'
      \/ /\ at \notin Over
         /\ at \in Undecoded <=> at' \in Undecoded
         /\ at \in {"packetIn", "enqueue"} <=> at' \in {"packetIn", "enqueue"}
  BY <1>5, <1>6 DEF InHand, Undecoded, Over
<1> QED
  BY <1>1, <1>4, <1>7, <1>8, <1>9 DEF OrderAlone
-----------------------------------------------------------------------------
(* The read pump.  A frame counts as taken once it is not the pump's any more.     *)
LEMMA TakenIs == OrderTyped => Taken \in 0..Len(Inbound)
BY Positions DEF OrderTyped, Taken

LEMMA UpToGrows ==
  ASSUME OrderTyped, NEW n \in Int, NEW m \in Int, n <= m, UpTo(ToRead, n)
  PROVE  UpTo(ToRead, m)
<1>1. \A k \in 1..Len(ToRead) : Position(ToRead[k]) \in Int
  BY ToReadIs, ElementOfSeq, Positions
<1> QED
  BY <1>1 DEF UpTo

LEMMA ReaderKeepsOrder ==
  ASSUME OrderIInv, ReadPump
  PROVE  OrderIInv'
<1>0. /\ UNCHANGED <<delivered, inboundPackets, pending, decoded, sent, at, current>>
      /\ OrderTyped
  BY DEF ReadPump, AcquireProcessing, ReadFrame, ReadFails, ReaderGivesUp, ReaderRest,
         readCall, session, peer, OrderIInv
<1>1. CASE AcquireProcessing \/ ReadFails \/ (ReaderGivesUp /\ reader # "handing")
  <2>1. framed' = framed /\ (reader' = "handing" <=> reader = "handing")
    BY <1>1 DEF AcquireProcessing, ReadFails, ReaderGivesUp
  <2>2. stopPhase' \in 0..3 /\ (Stopping => Stopping')
    BY <1>0, <1>1, StopPhaseGrows
       DEF AcquireProcessing, ReadFails, ReaderGivesUp, ending, OrderTyped, Stopping
  <2>3. sent' \in framed..Len(Inbound)
    BY <1>0 DEF OrderTyped
  <2>4. OrderAlone
    BY <1>0, <2>1, <2>2, <2>3 DEF OrderAlone
  <2> QED
    BY <2>4, OrderAloneKeeps
<1>2. CASE ReadFrame
  <2>1. /\ reader = "reading" /\ reader' = "handing" /\ framed < sent
        /\ framed' = framed + 1 /\ stopPhase' = stopPhase
    BY <1>2 DEF ReadFrame, ending
  <2>2. OrderTyped'
    BY <1>0, <2>1, Positions DEF OrderTyped
  <2>3. Taken' = Taken /\ ToRead' = ToRead
    BY <1>0, <2>1 DEF Taken, ToRead, OrderTyped
  <2>4. Placed'
    BY <1>0, <2>1, <2>3 DEF OrderIInv, Placed, Ascending, UpTo, Stopping
  <2>5. Complete'
    BY <1>0, <2>1, <2>3 DEF OrderIInv, Complete, Gapless, Stopping
  <2> QED
    BY <2>2, <2>4, <2>5 DEF OrderIInv
<1>3. CASE ReaderGivesUp /\ reader = "handing"
  <2>1. /\ reader' = "exited" /\ framed' = framed /\ stopPhase' = stopPhase /\ Stopping
    BY <1>3 DEF ReaderGivesUp, ending
  <2>2. OrderTyped'
    BY <1>0, <2>1 DEF OrderTyped
  <2>3. /\ ToRead' = ToRead /\ Taken' = framed /\ Taken = framed - 1
        /\ framed \in Int /\ Taken \in Int
    BY <1>0, <1>3, <2>1, TakenIs DEF Taken, ToRead, OrderTyped
  <2>4. UpTo(ToRead, framed)
    BY <1>0, <2>3, UpToGrows DEF OrderIInv, Placed
  <2>5. at \in InHand => Position(current) <= framed
    BY <2>3, Positions DEF OrderIInv, Placed
  <2>6. Placed'
    BY <1>0, <2>1, <2>3, <2>4, <2>5 DEF OrderIInv, Placed, Ascending, UpTo, Stopping
  <2>7. Complete'
    BY <2>1 DEF Complete, Stopping
  <2> QED
    BY <2>2, <2>6, <2>7 DEF OrderIInv
<1> QED
  BY <1>1, <1>2, <1>3 DEF ReadPump

LEMMA TakeFrameKeepsOrder ==
  ASSUME OrderIInv, TakeFrame
  PROVE  OrderIInv'
<1>1. /\ UNCHANGED <<delivered, inboundPackets, pending, decoded, framed, sent, stopPhase>>
      /\ at = "select" /\ pending = None /\ reader = "handing" /\ reader' = "acquire"
      /\ current' = Inbound[framed] /\ at' \in {"rawIn", "decode"}
  BY DEF TakeFrame, Observe, InboundRest, readCall, session, peer, ending
<1>2. OrderTyped /\ OrderTyped'
  BY <1>1 DEF OrderIInv, OrderTyped
<1>3. /\ Taken = framed - 1 /\ Taken' = framed /\ ToRead' = ToRead
      /\ framed \in 1..Len(Inbound)
  BY <1>1, <1>2, Positions DEF Taken, ToRead, OrderTyped
<1>4. current' \in Arrivals /\ Position(current)' = framed
  <2>1. Inbound[framed] \in Arrivals /\ Position(Inbound[framed]) = framed
    BY <1>3, Positions
  <2> QED
    BY <1>1, <2>1 DEF Position
<1>5. UpTo(ToRead, framed - 1) /\ UpTo(ToRead, framed)
  BY <1>2, <1>3, UpToGrows DEF OrderIInv, Placed
<1>6. Placed'
  BY <1>1, <1>3, <1>4, <1>5 DEF OrderIInv, Placed, Ascending, UpTo
<1>7. Complete'
  BY <1>1, <1>3, <1>4 DEF OrderIInv, Complete, Gapless, Stopping, Undecoded, InHand, Over
<1> QED
  BY <1>2, <1>6, <1>7 DEF OrderIInv

LEMMA DecodeKeepsOrder ==
  ASSUME OrderIInv, Decode
  PROVE  OrderIInv'
<1>1. /\ UNCHANGED <<delivered, inboundPackets, pending, framed, sent, reader, current>>
      /\ at = "decode"
  BY DEF Decode, InboundRest, readCall, peer
<1>2. CASE /\ at' = "stopping" /\ FailAndStop("malformed") /\ decoded' = decoded
  <2>1. stopPhase' \in 0..3 /\ Stopping'
    BY <1>2, StopPhaseGrows DEF OrderIInv
  <2>2. OrderAlone
    BY <1>1, <1>2, <2>1 DEF OrderAlone, InHand, OrderIInv, OrderTyped
  <2> QED
    BY <2>2, OrderAloneKeeps
<1>3. CASE /\ at' \in {"packetIn", "enqueue"} /\ decoded' = decoded + 1
           /\ stopPhase' = stopPhase
  <2>1. OrderTyped'
    BY <1>1, <1>3 DEF OrderIInv, OrderTyped
  <2>2. ToRead' = ToRead /\ Taken' = Taken
    BY <1>1 DEF ToRead, Taken
  <2>3. Placed'
    BY <1>1, <1>3, <2>2 DEF OrderIInv, Placed, InHand, Ascending, UpTo
  <2>4. Complete'
    BY <1>1, <1>3, <2>2
       DEF OrderIInv, OrderTyped, Complete, InHand, Gapless, Stopping, Undecoded, Over
  <2> QED
    BY <2>1, <2>3, <2>4 DEF OrderIInv
<1> QED
  BY <1>2, <1>3 DEF Decode, Observe, session, ending
-----------------------------------------------------------------------------
(* What there is to read, before and after the packet in hand is put behind it.    *)
LEMMA QueueGrows ==
  ASSUME OrderTyped, NEW p \in Arrivals,
         delivered' = delivered, inboundPackets' = Append(inboundPackets, p)
  PROVE  inboundPackets' \in Seq(Arrivals) /\ Queue' = Append(Queue, p)
<1>1. delivered \in Seq(Arrivals) /\ inboundPackets \in Seq(Arrivals)
  BY DEF OrderTyped
<1> QED
  BY <1>1, AppendInner, AppendProperties DEF Queue

LEMMA EnqueueKeepsOrder ==
  ASSUME OrderIInv, Enqueue
  PROVE  OrderIInv'
<1>1. /\ UNCHANGED <<delivered, decoded, framed, sent, reader, current>>
      /\ at = "enqueue" /\ OrderTyped /\ pending = None
      /\ current \in Arrivals /\ Position(current) <= Taken /\ UpTo(ToRead, Position(current) - 1)
      /\ Ascending(ToRead) /\ UpTo(ToRead, Taken)
  BY DEF Enqueue, InboundRest, readCall, peer, session, OrderIInv, Placed, InHand
<1>2. /\ Queue \in Seq(Arrivals) /\ ToRead = Queue
      /\ Taken' = Taken /\ Taken \in Int
  BY <1>1, ToReadIs, TakenIs DEF Taken
<1>3. Ascending(Append(Queue, current)) /\ UpTo(Append(Queue, current), Taken)
  BY <1>1, <1>2, AppendAscends
<1>4. CASE /\ pending' = current /\ at' = "select"
           /\ UNCHANGED <<inboundPackets, stopPhase>>
  <2>1. OrderTyped'
    BY <1>1, <1>4 DEF OrderTyped
  <2>2. pending' # None
    BY <1>1, <1>4, StreamAssumption DEF Packets
  <2>3. Queue' = Queue /\ ToRead' = Append(Queue, current)
    <3>1. Queue' = Queue
      BY <1>1, <1>4 DEF Queue
    <3>2. ToRead' = Append(Queue', pending')
      BY <2>1, <2>2, ToReadKeepsShape DEF ToReadShape
    <3> QED
      BY <1>4, <3>1, <3>2
  <2>4. Placed'
    BY <1>2, <1>3, <1>4, <2>3 DEF Placed, Ascending, UpTo, InHand
  <2>5. Complete'
    <3> SUFFICES ASSUME ~Stopping PROVE Complete'
      BY <1>4 DEF Complete, Stopping
    <3>1. /\ Gapless(Queue) /\ Position(current) = Taken
          /\ Len(Queue) = decoded - 1 /\ Taken = decoded
      BY <1>1, <1>2 DEF OrderIInv, Complete, InHand, Undecoded, Over
    <3>2. Gapless(Append(Queue, current))
      BY <1>1, <1>2, <3>1, AppendGapless DEF OrderTyped
    <3>3. Len(Append(Queue, current)) = decoded
      BY <1>1, <1>2, <3>1 DEF OrderTyped
    <3> QED
      BY <1>1, <1>2, <1>4, <2>3, <3>1, <3>2, <3>3
         DEF Complete, Gapless, InHand, Undecoded
  <2> QED
    BY <2>1, <2>4, <2>5 DEF OrderIInv
<1>5. CASE /\ at' \in {"select", "discard"} /\ Stopping /\ stopPhase' = stopPhase
           /\ pending' = pending
           /\ \/ inboundPackets' = inboundPackets
              \/ inboundPackets' = Append(inboundPackets, current)
  <2>1. OrderTyped'
    BY <1>1, <1>5, QueueGrows DEF OrderTyped
  <2>2. ToRead' \in {Queue, Append(Queue, current)}
    <3>1. Queue' \in {Queue, Append(Queue, current)}
      BY <1>1, <1>5, QueueGrows DEF Queue
    <3>2. ToRead' = Queue'
      BY <1>1, <1>5, <2>1, ToReadKeepsShape DEF ToReadShape
    <3> QED
      BY <3>1, <3>2
  <2>3. Placed'
    BY <1>1, <1>2, <1>3, <1>5, <2>2 DEF Placed, Ascending, UpTo, InHand
  <2>4. Complete'
    BY <1>5 DEF Complete, Stopping
  <2> QED
    BY <2>1, <2>3, <2>4 DEF OrderIInv
<1>6. CASE /\ at' = "stopping" /\ FailAndStop("queue")
           /\ UNCHANGED <<pending, inboundPackets>>
  <2>1. stopPhase' \in 0..3 /\ Stopping'
    BY <1>1, <1>6, StopPhaseGrows
  <2>2. OrderAlone
    BY <1>1, <1>6, <2>1 DEF OrderAlone, InHand, OrderTyped
  <2> QED
    BY <2>2, OrderAloneKeeps
<1> QED
  BY <1>4, <1>5, <1>6 DEF Enqueue, DeliverArrival, ending
-----------------------------------------------------------------------------
(* Steps that pass a packet on: there is as much to read as before.                *)
PassedOn ==
  /\ OrderTyped' /\ ToRead' = ToRead
  /\ UNCHANGED <<decoded, framed, reader, stopPhase>>
  /\ at' \in InHand => at' = at /\ current' = current /\ pending' = None
  /\ at' \in {"withdraw", "handOff"} => pending' # None /\ Stopping
  /\ at' = at \/ Stopping

LEMMA PassedOnKeeps == OrderIInv /\ PassedOn => OrderIInv'
<1> SUFFICES ASSUME OrderIInv, PassedOn PROVE OrderIInv'
  OBVIOUS
<1>1. Taken' = Taken /\ Stopping' = Stopping
  BY DEF PassedOn, Taken, Stopping
<1>2. Placed'
  BY <1>1 DEF OrderIInv, Placed, PassedOn, InHand, Ascending, UpTo
<1>3. Complete'
  <2> SUFFICES ASSUME ~Stopping PROVE Complete'
    BY <1>1 DEF Complete
  <2>1. Complete /\ at' = at
    BY DEF OrderIInv, PassedOn
  <2> QED
    BY <1>1, <2>1 DEF Complete, PassedOn, InHand, Gapless
<1> QED
  BY <1>2, <1>3 DEF OrderIInv, PassedOn

LEMMA PendingMovesOn ==
  ASSUME OrderIInv, pending # None, pending' = None,
         inboundPackets' = Append(inboundPackets, pending),
         UNCHANGED <<delivered, sent, decoded, framed, reader, stopPhase>>
  PROVE  OrderTyped' /\ ToRead' = ToRead
<1>1. OrderTyped /\ pending \in Arrivals
  BY DEF OrderIInv, OrderTyped
<1>2. inboundPackets' \in Seq(Arrivals) /\ Queue' = Append(Queue, pending)
  BY <1>1, QueueGrows
<1>3. OrderTyped'
  BY <1>1, <1>2 DEF OrderTyped
<1>4. ToRead' = Queue'
  BY <1>3, ToReadKeepsShape DEF ToReadShape
<1> QED
  BY <1>1, <1>2, <1>3, <1>4, ToReadIs

LEMMA DeliverKeepsOrder ==
  ASSUME OrderIInv, Deliver
  PROVE  OrderIInv'
<1>1. /\ UNCHANGED <<delivered, sent, decoded, framed, reader, stopPhase, at>>
      /\ at = "select" /\ pending # None /\ pending' = None
      /\ inboundPackets' = Append(inboundPackets, pending)
  BY DEF Deliver, InboundRest, readCall, peer, session, ending
<1>2. OrderTyped' /\ ToRead' = ToRead
  BY <1>1, PendingMovesOn
<1>3. PassedOn
  BY <1>1, <1>2 DEF PassedOn, InHand
<1> QED
  BY <1>3, PassedOnKeeps

LEMMA NoticeStopKeepsOrder ==
  ASSUME OrderIInv, NoticeStop
  PROVE  OrderIInv'
<1>1. /\ UNCHANGED <<delivered, sent, decoded, framed, reader, stopPhase>>
      /\ at = "select" /\ Stopping /\ OrderTyped
  BY DEF NoticeStop, InboundRest, readCall, peer, session, ending, OrderIInv
<1>2. CASE at' = "ended" /\ UNCHANGED <<current, pending, inboundPackets>>
  <2>1. OrderTyped' /\ ToRead' = ToRead
    BY <1>1, <1>2 DEF OrderTyped, ToRead
  <2>2. PassedOn
    BY <1>1, <1>2, <2>1 DEF PassedOn, InHand
  <2> QED
    BY <2>2, PassedOnKeeps
<1>3. CASE /\ pending # None /\ pending' = None /\ at' = "ended"
           /\ inboundPackets' = Append(inboundPackets, pending)
  <2>1. OrderTyped' /\ ToRead' = ToRead
    BY <1>1, <1>3, PendingMovesOn
  <2>2. PassedOn
    BY <1>1, <1>3, <2>1 DEF PassedOn, InHand
  <2> QED
    BY <2>2, PassedOnKeeps
<1>4. CASE /\ pending # None /\ at' \in {"withdraw", "handOff"}
           /\ UNCHANGED <<pending, inboundPackets>>
  <2>1. OrderTyped' /\ ToRead' = ToRead
    BY <1>1, <1>4 DEF OrderTyped, ToRead
  <2>2. PassedOn
    BY <1>1, <1>4, <2>1 DEF PassedOn, InHand
  <2> QED
    BY <2>2, PassedOnKeeps
<1> QED
  BY <1>2, <1>3, <1>4 DEF NoticeStop

LEMMA WithdrawKeepsOrder ==
  ASSUME OrderIInv, Withdraw
  PROVE  OrderIInv'
<1>1. /\ UNCHANGED <<delivered, inboundPackets, pending, sent, decoded, framed, reader,
                     stopPhase>>
      /\ at = "withdraw" /\ at' = "handOff" /\ OrderTyped
      /\ pending # None /\ Stopping
  BY DEF Withdraw, InboundRest, readCall, peer, session, ending, OrderIInv, Placed
<1>2. OrderTyped' /\ ToRead' = ToRead
  BY <1>1 DEF OrderTyped, ToRead
<1>3. PassedOn
  BY <1>1, <1>2 DEF PassedOn, InHand
<1> QED
  BY <1>3, PassedOnKeeps

LEMMA HandOffKeepsOrder ==
  ASSUME OrderIInv, HandOff
  PROVE  OrderIInv'
<1>1. /\ UNCHANGED <<delivered, sent, decoded, framed, reader, stopPhase>>
      /\ at = "handOff" /\ at' \in {"ended", "discardLast"} /\ OrderTyped
      /\ pending # None /\ pending' = None /\ Stopping
      /\ \/ inboundPackets' = inboundPackets
         \/ inboundPackets' = Append(inboundPackets, pending)
  BY DEF HandOff, DeliverArrival, InboundRest, readCall, peer, session, ending,
         OrderIInv, Placed
<1>2. CASE inboundPackets' = Append(inboundPackets, pending)
  <2>1. OrderTyped' /\ ToRead' = ToRead
    BY <1>1, <1>2, PendingMovesOn
  <2>2. PassedOn
    BY <1>1, <2>1 DEF PassedOn, InHand
  <2> QED
    BY <2>2, PassedOnKeeps
<1>3. CASE inboundPackets' = inboundPackets
  <2>1. OrderTyped'
    BY <1>1, <1>3 DEF OrderTyped
  <2>2. /\ ToRead' = Queue /\ Taken' = Taken
        /\ pending \in Arrivals /\ ToRead = Append(Queue, pending) /\ Queue \in Seq(Arrivals)
    <3>1. Queue' = Queue /\ Taken' = Taken
      BY <1>1, <1>3 DEF Queue, Taken
    <3> QED
      BY <1>1, <2>1, <3>1, ToReadIs, ToReadKeepsShape DEF ToReadShape
  <2>3. Ascending(Queue) /\ UpTo(Queue, Taken)
    BY <2>2, FrontAscends DEF OrderIInv, Placed
  <2>4. Placed'
    BY <1>1, <2>2, <2>3 DEF Placed, InHand, Ascending, UpTo
  <2>5. Complete'
    BY <1>1 DEF Complete, Stopping
  <2> QED
    BY <2>1, <2>4, <2>5 DEF OrderIInv
<1> QED
  BY <1>1, <1>2, <1>3

LEMMA ReadTakesKeepsOrder ==
  ASSUME OrderIInv, ReadTakes
  PROVE  OrderIInv'
<1>1. /\ UNCHANGED <<pending, sent, decoded, framed, reader, stopPhase, at, current>>
      /\ inboundPackets # <<>> /\ OrderTyped
      /\ delivered' = Append(delivered, Head(inboundPackets))
      /\ inboundPackets' = Tail(inboundPackets)
  BY DEF ReadTakes, ReadRest, readPump, peer, session, ending, OrderIInv
<1>2. /\ delivered \in Seq(Arrivals) /\ inboundPackets \in Seq(Arrivals)
      /\ Head(inboundPackets) \in Arrivals /\ Tail(inboundPackets) \in Seq(Arrivals)
  BY <1>1, HeadTailProperties DEF OrderTyped
<1>3. Queue' = Queue
  BY <1>1, <1>2, TakeHead DEF Queue
<1>4. OrderTyped'
  BY <1>1, <1>2, AppendProperties DEF OrderTyped
<1>5. ToRead' = ToRead
  BY <1>1, <1>3, <1>4, ToReadIs, ToReadKeepsShape DEF ToReadShape
<1>6. at \in InHand => pending = None
  BY DEF OrderIInv, Placed
<1>7. at \in {"withdraw", "handOff"} => pending # None /\ Stopping
  BY DEF OrderIInv, Placed
<1>8. PassedOn
  BY <1>1, <1>4, <1>5, <1>6, <1>7 DEF PassedOn
<1> QED
  BY <1>8, PassedOnKeeps

LEMMA DropsLeaveOrder ==
  ASSUME OrderTyped, Discard \/ PendingRefused
  PROVE  OrderAlone
<1>1. UNCHANGED <<delivered, inboundPackets, pending, decoded, framed, reader, sent, current>>
  BY DEF Discard, PendingRefused, InboundRest, readCall, session, peer
<1>2. stopPhase' \in 0..3 /\ (Stopping => Stopping')
  BY StopPhaseGrows DEF Discard, PendingRefused, OrderTyped, Stopping, ending
<1>3. \/ at \in {"discard", "discardLast"} /\ at' \in {"select", "ended"}
      \/ at = "select" /\ at' = "stopping"
  BY DEF Discard, PendingRefused
<1>4. sent' \in framed..Len(Inbound)
  BY <1>1 DEF OrderTyped
<1> QED
  BY <1>1, <1>2, <1>3, <1>4 DEF OrderAlone, InHand, Undecoded, Over
-----------------------------------------------------------------------------
LEMMA OrderNext ==
  ASSUME OrderIInv, [Next]_vars
  PROVE  OrderIInv'
<1>0. OrderTyped
  BY DEF OrderIInv
<1>1. CASE Coordinate
  <2>1. CASE TakeFrame \/ Decode \/ Enqueue
    BY <2>1, TakeFrameKeepsOrder, DecodeKeepsOrder, EnqueueKeepsOrder
  <2>2. CASE Deliver \/ NoticeStop \/ Withdraw \/ HandOff
    BY <2>2, DeliverKeepsOrder, NoticeStopKeepsOrder, WithdrawKeepsOrder, HandOffKeepsOrder
  <2>3. CASE ObserveReserves \/ ObserveQueues \/ ObserveFails \/ Discard \/ PendingRefused
    BY <1>0, <2>3, ObserveLeavesOrder, OthersLeaveOrder, DropsLeaveOrder, OrderAloneKeeps
  <2>4. CASE \/ \E w \in Writes : TakeWrite(w)
             \/ Encode \/ Refuse \/ GiveJob \/ FinishWrite \/ Confirm \/ ReleaseWrite
    BY <1>0, <2>4, OutboundLeavesOrder, OrderAloneKeeps
  <2>5. CASE \/ TakeShutdown \/ GiveBye \/ AwaitBye \/ FinishShutdown
             \/ CoordinatorReturns \/ Linger \/ LingerEnds \/ RunStops \/ Finish
    BY <1>0, <2>5, EndingLeavesOrder, OrderAloneKeeps
  <2> QED
    BY <1>1, <2>1, <2>2, <2>3, <2>4, <2>5 DEF Coordinate
<1>2. CASE ReadPump
  BY <1>2, ReaderKeepsOrder
<1>3. CASE StopGoesOn \/ PeerSends \/ PeerHangsUp
  BY <1>0, <1>3, OutsideLeavesOrder, OrderAloneKeeps
<1>4. CASE WriteReaches \/ WriteReturns \/ WriterExits
  BY <1>0, <1>4, OutboundLeavesOrder, OrderAloneKeeps
<1>5. CASE \/ Dispatch \/ WatchContext \/ ReadReleases \/ ReadEnds \/ ShutdownReturns
           \/ ShutdownStarts \/ AbortShutdown \/ CloseCalled \/ ContextEnds
           \/ \E w \in Writes : WriteProceeds(w) \/ WriteStarts(w) \/ WriteCancelled(w)
  BY <1>0, <1>5, OthersLeaveOrder, OrderAloneKeeps
<1>6. CASE ReadTakes
  BY <1>6, ReadTakesKeepsOrder
<1>7. CASE UNCHANGED vars
  <2>1. OrderTyped'
    BY <1>0, <1>7 DEF vars, OrderTyped, readPump, peer, session, ending, readCall
  <2>2. PassedOn
    BY <1>7, <2>1
       DEF vars, PassedOn, readPump, peer, session, ending, readCall, ToRead, OrderIInv, Placed
  <2> QED
    BY <2>2, PassedOnKeeps
<1> QED
  BY <1>1, <1>2, <1>3, <1>4, <1>5, <1>6, <1>7 DEF Next, System, User

LEMMA OrderInit == Init => OrderIInv
<1> SUFFICES ASSUME Init PROVE OrderIInv
  OBVIOUS
<1>1. /\ delivered = <<>> /\ inboundPackets = <<>> /\ pending = None /\ sent = 0
      /\ framed = 0 /\ decoded = 0 /\ stopPhase = 0 /\ reader = "acquire" /\ at = "select"
  BY DEF Init
<1>2. OrderTyped
  BY <1>1, Positions DEF OrderTyped
<1>3. ToRead = <<>> /\ Taken = 0
  BY <1>1 DEF ToRead, Taken
<1>4. Placed
  BY <1>1, <1>3 DEF Placed, InHand, Ascending, UpTo
<1>5. Complete
  BY <1>1, <1>3 DEF Complete, InHand, Gapless, Undecoded, Over
<1> QED
  BY <1>2, <1>4, <1>5 DEF OrderIInv

LEMMA OrderImplies == OrderIInv => ReadInOrder
<1> SUFFICES ASSUME OrderIInv PROVE ReadInOrder
  OBVIOUS
<1>1. \A j, k \in 1..Len(ToRead) : j < k => Position(ToRead[j]) < Position(ToRead[k])
  BY DEF OrderIInv, Placed, Ascending
<1>2. ASSUME ~Stopping, at \notin {"packetIn", "enqueue"} \cup Over
      PROVE  ToRead = SubSeq(Inbound, 1, decoded)
  <2>1. Gapless(ToRead) /\ Len(ToRead) = decoded /\ decoded <= Taken
    BY <1>2 DEF OrderIInv, OrderTyped, Complete
  <2>2. ToRead \in Seq(Arrivals) /\ Inbound \in Seq(Arrivals)
    BY ToReadIs, StreamAssumption DEF OrderIInv
  <2>3. decoded \in 0..Len(Inbound)
    BY <2>1, TakenIs, Positions DEF OrderIInv, OrderTyped
  <2>4. /\ SubSeq(Inbound, 1, decoded) \in Seq(Arrivals)
        /\ Len(SubSeq(Inbound, 1, decoded)) = decoded
        /\ \A k \in 1..decoded : SubSeq(Inbound, 1, decoded)[k] = Inbound[k]
    BY <2>2, <2>3, Positions, SubSeqProperties
  <2> QED
    BY <2>1, <2>2, <2>4, SeqEqual DEF Gapless
<1> QED
  BY <1>1, <1>2 DEF ReadInOrder

(* What Read has returned, and what it will return, is in the order the peer sent  *)
(* it; and until the stream stops nothing that was decoded is missing              *)
(* (stream_runtime.go:420-466, 631-645).                                        *)
THEOREM SpecReadInOrder == Spec => []ReadInOrder
<1>1. Init => OrderIInv
  BY OrderInit
<1>2. OrderIInv /\ [Next]_vars => OrderIInv'
  BY OrderNext
<1>3. OrderIInv => ReadInOrder
  BY OrderImplies
<1> QED
  BY <1>1, <1>2, <1>3, PTL DEF Spec
-----------------------------------------------------------------------------
(***************************************************************************)
(* TransitionsCommitted depends on what the coordinator has in hand: an arrival   *)
(* it commits before it is queued, a write before it is answered.               *)
(***************************************************************************)
Readable(p) ==
  InQueue(delivered, p) \/ InQueue(inboundPackets, p) \/ (pending = p /\ pending # None)

Committed == {"packetIn", "enqueue", "rawOut", "packetOut", "confirm"}

SessionIInv ==
  /\ \A p \in Transitions : Readable(p) => p \in applied
  /\ at \in Committed => current \in applied \/ current \notin Transitions
  /\ \A w \in Writes \cap Transitions :
       /\ w \in applied => Wired(w)
       /\ reply[w] = "ok" => w \in applied

AllIInv == OrderIInv /\ WriteIInv /\ SessionIInv

(* Steps that commit nothing, answer no call with success, and show nothing new.    *)
SessionAlone ==
  /\ applied' = applied
  /\ \A p : Readable(p)' => Readable(p)
  /\ at' \in Committed => at \in Committed /\ current' = current
  /\ \A w \in Writes : (Wired(w) => Wired(w)') /\ (reply'[w] = "ok" => reply[w] = "ok")

LEMMA SessionAloneKeeps == SessionIInv /\ SessionAlone => SessionIInv'
BY DEF SessionIInv, SessionAlone

LEMMA ReadableAfter ==
  \A p : Readable(p)' => \/ InQueue(delivered', p) \/ InQueue(inboundPackets', p)
                         \/ pending' = p /\ pending' # None
BY DEF Readable, InQueue

LEMMA InQueueAppend ==
  ASSUME NEW S, NEW s \in Seq(S), NEW x \in S
  PROVE  \A p : InQueue(Append(s, x), p) <=> InQueue(s, p) \/ p = x
<1> SUFFICES ASSUME NEW p PROVE InQueue(Append(s, x), p) <=> InQueue(s, p) \/ p = x
  OBVIOUS
<1>1. /\ Len(Append(s, x)) = Len(s) + 1 /\ Len(s) \in Nat
      /\ Append(s, x)[Len(s) + 1] = x /\ \A k \in 1..Len(s) : Append(s, x)[k] = s[k]
  OBVIOUS
<1>2. \A k \in 1..(Len(s) + 1) : k \in 1..Len(s) \/ k = Len(s) + 1
  BY <1>1
<1>3. Len(s) + 1 \in 1..(Len(s) + 1) /\ \A k \in 1..Len(s) : k \in 1..(Len(s) + 1)
  BY <1>1
<1> QED
  BY <1>1, <1>2, <1>3 DEF InQueue

LEMMA InQueueTail ==
  ASSUME NEW S, NEW s \in Seq(S), s # <<>>
  PROVE  InQueue(s, Head(s)) /\ \A p : InQueue(Tail(s), p) => InQueue(s, p)
<1>1. /\ Len(s) \in Nat \ {0} /\ Head(s) = s[1] /\ Len(Tail(s)) = Len(s) - 1
      /\ \A k \in 1..(Len(s) - 1) : Tail(s)[k] = s[k + 1]
  BY EmptySeq
<1>2. 1 \in 1..Len(s) /\ \A k \in 1..(Len(s) - 1) : k + 1 \in 1..Len(s)
  BY <1>1
<1> QED
  BY <1>1, <1>2 DEF InQueue

LEMMA InQueueHead ==
  ASSUME NEW S, NEW s \in Seq(S), s # <<>>, NEW p, InQueue(s, p)
  PROVE  InQueue(Tail(s), p) \/ p = Head(s)
<1>1. /\ Len(s) \in Nat \ {0} /\ Head(s) = s[1] /\ Len(Tail(s)) = Len(s) - 1
      /\ \A k \in 1..(Len(s) - 1) : Tail(s)[k] = s[k + 1]
  BY EmptySeq
<1>2. PICK k \in 1..Len(s) : s[k] = p
  BY DEF InQueue
<1>3. CASE k = 1
  BY <1>1, <1>2, <1>3
<1>4. CASE k # 1
  <2>1. k - 1 \in 1..Len(Tail(s)) /\ Tail(s)[k - 1] = s[k]
    BY <1>1, <1>2, <1>4
  <2> QED
    BY <1>2, <2>1 DEF InQueue
<1> QED
  BY <1>3, <1>4

SessionStill ==
  UNCHANGED <<applied, delivered, inboundPackets, pending, at, current, wire, reply>>

LEMMA OutsideLeavesSession ==
  \/ StopGoesOn \/ PeerSends \/ PeerHangsUp \/ ReadPump \/ WriterExits \/ WriteReturns
  \/ Dispatch \/ ReadReleases \/ ReadEnds \/ ObserveReserves
  \/ ShutdownStarts \/ ShutdownReturns \/ AbortShutdown \/ CloseCalled
  \/ ContextEnds \/ WatchContext
  \/ (\E w \in Writes : WriteProceeds(w) \/ WriteStarts(w) \/ WriteCancelled(w))
  \/ UNCHANGED vars
  => SessionAlone
<1> USE DEF SessionStill
<1>1. StopGoesOn \/ PeerSends \/ PeerHangsUp \/ ReadPump => SessionStill
  BY DEF session, readCall, writeCalls, StopGoesOn, PeerSends, PeerHangsUp, ReadPump,
         AcquireProcessing, ReadFrame, ReadFails, ReaderGivesUp, ReaderRest
<1>2. WriterExits \/ WriteReturns => SessionStill
  BY DEF session, readCall, writeCalls, WriterExits, WriteReturns, WriterRest
<1>3. Dispatch \/ ReadReleases \/ ReadEnds \/ ObserveReserves => SessionStill
  BY DEF session, readCall, writeCalls, Dispatch, TakeRecord, SinkReturns, SinkFailure,
         StartDrain, DispatcherExits, DispatchRest, ReadReleases, ReadEnds, ReadRest,
         ObserveReserves, CoordinatorRest
<1>4. \/ ShutdownStarts \/ ShutdownReturns \/ AbortShutdown \/ CloseCalled
      \/ ContextEnds \/ WatchContext
      => SessionStill
  BY DEF session, readCall, writeCalls, ShutdownStarts, ShutdownReturns, AbortShutdown,
         CloseCalled, ContextEnds, WatchContext, EndRest
<1>5. (\E w \in Writes : WriteProceeds(w) \/ WriteStarts(w) \/ WriteCancelled(w))
        => SessionStill
  BY DEF session, readCall, writeCalls, WriteProceeds, WriteStarts, WriteReserves,
         WriteAcquires, WriteRejected, WriteAnswered, WriteCancelled, WriteRest
<1>6. UNCHANGED vars => SessionStill
  BY DEF session, readCall, writeCalls, vars
<1>7. SessionStill => SessionAlone
  BY DEF SessionAlone, Readable, Wired, InQueue
<1> HIDE DEF SessionStill
<1> QED
  BY <1>1, <1>2, <1>3, <1>4, <1>5, <1>6, <1>7

LEMMA EndingLeavesSession ==
  \/ TakeShutdown \/ GiveBye \/ AwaitBye \/ FinishShutdown
  \/ CoordinatorReturns \/ Linger \/ LingerEnds \/ RunStops \/ Finish
  => SessionAlone
<1> SUFFICES ASSUME \/ TakeShutdown \/ GiveBye \/ AwaitBye \/ FinishShutdown
                    \/ CoordinatorReturns \/ Linger \/ LingerEnds \/ RunStops \/ Finish
             PROVE  SessionAlone
  OBVIOUS
<1>1. UNCHANGED <<applied, delivered, inboundPackets, pending, wire, reply>>
  BY DEF TakeShutdown, GiveBye, AwaitBye, FinishShutdown, CoordinatorReturns, Linger,
         LingerEnds, RunStops, Finish, ByeRest, RunRest, session, readCall, writeCalls
<1>2. at' \notin Committed
  BY DEF TakeShutdown, GiveBye, AwaitBye, FinishShutdown, CoordinatorReturns, Linger,
         LingerEnds, RunStops, Finish, Observe, Committed
<1> QED
  BY <1>1, <1>2 DEF SessionAlone, Readable, Wired, InQueue

LEMMA ObserveLeavesSession ==
  ASSUME WriteIInv, ObserveQueues \/ ObserveFails
  PROVE  SessionAlone
<1>1. UNCHANGED <<applied, delivered, inboundPackets, pending, wire, current>>
  BY DEF ObserveQueues, ObserveFails, CoordinatorRest, session, readCall, peer
<1>2. at \in DOMAIN Observed
  BY DEF ObserveQueues, ObserveFails, Observing
<1>3. at' \in Committed => at \in Committed
  <2>1. CASE ObserveQueues
    BY <1>2, <2>1 DEF ObserveQueues, Observed, Committed
  <2>2. CASE ObserveFails
    BY <1>2, <2>2 DEF ObserveFails, ObserveError, Observed, Committed
  <2> QED
    BY <2>1, <2>2
<1>4. reply' = reply \/ reply' = [reply EXCEPT ![current] = "error"]
  BY DEF ObserveQueues, ObserveFails, ObserveError
<1>5. \A w \in Writes : reply'[w] = "ok" => reply[w] = "ok"
  BY <1>4 DEF WriteIInv, CallTyped
<1> QED
  BY <1>1, <1>3, <1>5 DEF SessionAlone, Readable, Wired, InQueue

LEMMA InboundLeavesSession ==
  ASSUME OrderIInv,
         \/ TakeFrame \/ Discard \/ Deliver \/ PendingRefused \/ NoticeStop
         \/ Withdraw \/ HandOff \/ ReadTakes
  PROVE  SessionAlone
<1>1. UNCHANGED <<applied, wire, reply>>
  BY DEF TakeFrame, Discard, Deliver, PendingRefused, NoticeStop, Withdraw, HandOff,
         InboundRest, ReadTakes, ReadRest, session, writeCalls
<1>2. at' \in Committed => at \in Committed /\ current' = current
  BY DEF TakeFrame, Discard, Deliver, PendingRefused, NoticeStop, Withdraw, HandOff,
         DeliverArrival, Observe, ReadTakes, ReadRest, Committed
<1>3. /\ delivered \in Seq(Arrivals) /\ inboundPackets \in Seq(Arrivals)
      /\ pending # None => pending \in Arrivals
  BY DEF OrderIInv, OrderTyped
<1>4. ASSUME NEW p, Readable(p)' PROVE Readable(p)
  <2>1. CASE UNCHANGED <<delivered, inboundPackets, pending>>
    BY <1>4, <2>1 DEF Readable
  <2>2. CASE /\ pending # None /\ pending' = None /\ delivered' = delivered
             /\ \/ inboundPackets' = inboundPackets
                \/ inboundPackets' = Append(inboundPackets, pending)
    <3>0. pending \in Arrivals
      BY <1>3, <2>2
    <3>1. InQueue(Append(inboundPackets, pending), p) => InQueue(inboundPackets, p) \/ p = pending
      BY <1>3, <3>0, InQueueAppend
    <3>2. InQueue(delivered', p) \/ InQueue(inboundPackets', p)
      BY <1>4, <2>2, ReadableAfter
    <3>3. delivered' = delivered /\ inboundPackets' \in {inboundPackets, Append(inboundPackets, pending)}
      BY <2>2
    <3> QED
      BY <2>2, <3>1, <3>2, <3>3 DEF Readable
  <2>3. CASE ReadTakes
    <3>1. /\ inboundPackets # <<>> /\ pending' = pending
          /\ delivered' = Append(delivered, Head(inboundPackets))
          /\ inboundPackets' = Tail(inboundPackets)
      BY <2>3 DEF ReadTakes, ReadRest
    <3>2. Head(inboundPackets) \in Arrivals
      BY <1>3, <3>1, HeadTailProperties
    <3>3. /\ InQueue(delivered', p) => InQueue(delivered, p) \/ p = Head(inboundPackets)
          /\ InQueue(inboundPackets', p) => InQueue(inboundPackets, p)
          /\ InQueue(inboundPackets, Head(inboundPackets))
      BY <1>3, <3>1, <3>2, InQueueAppend, InQueueTail
    <3> QED
      BY <1>4, <3>1, <3>3, ReadableAfter DEF Readable
  <2>4. HandOff => pending # None
    BY DEF HandOff, OrderIInv, Placed
  <2>5. \/ UNCHANGED <<delivered, inboundPackets, pending>>
        \/ /\ pending # None /\ pending' = None /\ delivered' = delivered
           /\ \/ inboundPackets' = inboundPackets
              \/ inboundPackets' = Append(inboundPackets, pending)
        \/ ReadTakes
    BY <2>4 DEF TakeFrame, Discard, Deliver, PendingRefused, NoticeStop, Withdraw, HandOff,
                DeliverArrival, InboundRest, readCall
  <2> QED
    BY <2>1, <2>2, <2>3, <2>5
<1> QED
  BY <1>1, <1>2, <1>4 DEF SessionAlone, Wired, InQueue

LEMMA ArrivalsKeepSession ==
  ASSUME AllIInv, Decode \/ Enqueue
  PROVE  SessionIInv'
<1>1. /\ at \in {"decode", "enqueue"} /\ current \in Arrivals /\ current \notin Writes
      /\ inboundPackets \in Seq(Arrivals)
      /\ UNCHANGED <<wire, reply, delivered, current>>
  BY StreamAssumption
     DEF Decode, Enqueue, InboundRest, AllIInv, OrderIInv, OrderTyped, Placed, InHand,
         writeCalls, readCall
<1>2. CASE Decode
  <2>1. UNCHANGED <<inboundPackets, pending>>
    BY <1>2 DEF Decode
  <2>2. \/ applied' = applied /\ at' = "stopping"
        \/ applied' = applied \cup ({current} \cap Transitions)
    BY <1>2 DEF Decode, session, Commit
  <2> QED
    BY <1>1, <2>1, <2>2
       DEF AllIInv, SessionIInv, Readable, Wired, InQueue, Committed
<1>3. CASE Enqueue
  <2>1. applied' = applied /\ at' \notin Committed
    BY <1>3 DEF Enqueue, DeliverArrival, session, Committed
  <2>2. current \in applied \/ current \notin Transitions
    BY <1>1, <1>3 DEF Enqueue, AllIInv, SessionIInv, Committed
  <2>3. ASSUME NEW p, Readable(p)' PROVE Readable(p) \/ p = current
    <3>1. \/ pending' = current /\ UNCHANGED inboundPackets
          \/ /\ pending' = pending
             /\ \/ inboundPackets' = inboundPackets
                \/ inboundPackets' = Append(inboundPackets, current)
      BY <1>3 DEF Enqueue, DeliverArrival
    <3> QED
      <4>1. /\ InQueue(delivered', p) => InQueue(delivered, p)
            /\ InQueue(inboundPackets', p) => InQueue(inboundPackets, p) \/ p = current
        BY <1>1, <3>1, InQueueAppend
      <4>2. \/ InQueue(delivered', p) \/ InQueue(inboundPackets', p)
            \/ pending' = p /\ pending' # None
        BY <2>3, ReadableAfter
      <4> QED
        BY <3>1, <4>1, <4>2 DEF Readable
  <2> QED
    BY <1>1, <2>1, <2>2, <2>3 DEF AllIInv, SessionIInv, Wired, InQueue
<1> QED
  BY <1>2, <1>3

LEMMA WritesKeepSession ==
  ASSUME AllIInv,
         \/ \E w \in Writes : TakeWrite(w)
         \/ Encode \/ Refuse \/ GiveJob \/ FinishWrite \/ Confirm \/ ReleaseWrite
         \/ WriteReaches
  PROVE  SessionIInv'
<1>1. UNCHANGED <<delivered, inboundPackets, pending>>
  BY DEF TakeWrite, Encode, Refuse, GiveJob, FinishWrite, Confirm, ReleaseWrite,
         WriteReaches, OutboundRest, WriterRest, readCall
<1>2. reply \in [Writes -> {"none", "ok", "closed", "error"}] /\ SessionIInv
  BY DEF AllIInv, WriteIInv, CallTyped
<1>3. CASE \/ \E w \in Writes : TakeWrite(w)
           \/ Encode \/ Refuse \/ GiveJob \/ ReleaseWrite
  <2>1. UNCHANGED <<applied, wire>> /\ at' \notin Committed
    BY <1>3 DEF TakeWrite, Encode, Refuse, GiveJob, ReleaseWrite, OutboundRest, Observe,
                Committed
  <2>2. \A w \in Writes : reply'[w] = "ok" => reply[w] = "ok"
    BY <1>2, <1>3 DEF TakeWrite, Encode, Refuse, GiveJob, ReleaseWrite
  <2>3. SessionAlone
    BY <1>1, <2>1, <2>2 DEF SessionAlone, Readable, Wired, InQueue
  <2> QED
    BY <1>2, <2>3, SessionAloneKeeps
<1>4. CASE FinishWrite
  <2>1. /\ at = "writing" /\ wire' = wire /\ current' = current
        /\ \/ /\ outcome = "ok" /\ applied' = applied \cup ({current} \cap Transitions)
              /\ reply' = reply
           \/ /\ applied' = applied /\ at' = "stopWrite"
              /\ reply' = [reply EXCEPT ![current] = "error"]
    BY <1>4 DEF FinishWrite, Commit, OutboundRest
  <2>2. outcome = "ok" => Wired(current)
    BY <2>1 DEF AllIInv, WriteIInv, PumpIInv
  <2> QED
    BY <1>1, <1>2, <2>1, <2>2 DEF SessionIInv, Readable, Wired, InQueue, Committed
<1>5. CASE Confirm
  <2>1. /\ at = "confirm" /\ at' = "release" /\ UNCHANGED <<applied, wire, current>>
        /\ reply' = [reply EXCEPT ![current] = "ok"]
    BY <1>5 DEF Confirm, OutboundRest
  <2>2. current \in applied \/ current \notin Transitions
    BY <1>2, <2>1 DEF SessionIInv, Committed
  <2> QED
    BY <1>1, <1>2, <2>1, <2>2 DEF SessionIInv, Readable, Wired, InQueue, Committed
<1>6. CASE WriteReaches
  <2>1. /\ wire' = Append(wire, job) /\ UNCHANGED <<applied, reply, at, current>>
        /\ wire \in Seq(Packets \cup {None}) /\ job \in Packets \cup {None}
    BY <1>6 DEF WriteReaches, WriterRest, session, writeCalls, AllIInv, WriteIInv, CallTyped
  <2>2. \A w : Wired(w) => Wired(w)'
    BY <2>1, InQueueAppend DEF Wired
  <2>3. SessionAlone
    BY <1>1, <2>1, <2>2 DEF SessionAlone, Readable
  <2> QED
    BY <1>2, <2>3, SessionAloneKeeps
<1> QED
  BY <1>3, <1>4, <1>5, <1>6

LEMMA SessionNext == AllIInv /\ [Next]_vars => SessionIInv'
BY OutsideLeavesSession, EndingLeavesSession, ObserveLeavesSession, InboundLeavesSession,
   ArrivalsKeepSession, WritesKeepSession, SessionAloneKeeps
   DEF AllIInv, Next, System, User, Coordinate

LEMMA SessionInit == Init => SessionIInv
<1> SUFFICES ASSUME Init PROVE SessionIInv
  OBVIOUS
<1>1. /\ delivered = <<>> /\ inboundPackets = <<>> /\ pending = None /\ applied = {}
      /\ at = "select" /\ reply = [w \in Writes |-> "none"]
  BY DEF Init
<1> QED
  BY <1>1 DEF SessionIInv, Readable, InQueue, Committed

LEMMA SessionImplies == AllIInv => TransitionsCommitted
<1> SUFFICES ASSUME AllIInv PROVE TransitionsCommitted
  OBVIOUS
<1>1. ASSUME NEW k \in 1..Len(ToRead) PROVE Readable(ToRead[k])
  <2>1. /\ delivered \in Seq(Arrivals) /\ inboundPackets \in Seq(Arrivals)
        /\ pending # None => pending \in Arrivals
    BY DEF AllIInv, OrderIInv, OrderTyped
  <2>2. /\ Queue \in Seq(Arrivals) /\ Len(Queue) = Len(delivered) + Len(inboundPackets)
        /\ \A j \in 1..Len(Queue) : Queue[j] = IF j <= Len(delivered) THEN delivered[j]
                                               ELSE inboundPackets[j - Len(delivered)]
    BY <2>1, ConcatProperties DEF Queue
  <2>3. ASSUME NEW j \in 1..Len(Queue) PROVE Readable(Queue[j])
    <3>1. /\ Len(delivered) \in Nat /\ Len(inboundPackets) \in Nat
          /\ j \in 1..(Len(delivered) + Len(inboundPackets))
      BY <2>1, <2>2
    <3>2. CASE j <= Len(delivered)
      <4>1. j \in 1..Len(delivered) /\ delivered[j] = Queue[j]
        BY <2>2, <3>1, <3>2
      <4> QED
        BY <4>1 DEF Readable, InQueue
    <3>3. CASE ~(j <= Len(delivered))
      <4>1. /\ j - Len(delivered) \in 1..Len(inboundPackets)
            /\ inboundPackets[j - Len(delivered)] = Queue[j]
        BY <2>2, <3>1, <3>3
      <4> QED
        BY <4>1 DEF Readable, InQueue
    <3> QED
      BY <3>2, <3>3
  <2>4. CASE pending = None
    BY <2>3, <2>4, ToReadIs DEF AllIInv, OrderIInv
  <2>5. CASE pending # None
    <3>1. ToRead = Append(Queue, pending)
      BY <2>5, ToReadIs DEF AllIInv, OrderIInv
    <3>2. \/ k \in 1..Len(Queue) /\ ToRead[k] = Queue[k]
          \/ ToRead[k] = pending
      BY <2>1, <2>2, <2>5, <3>1
    <3> QED
      BY <2>3, <2>5, <3>2 DEF Readable
  <2> QED
    BY <2>4, <2>5
<1>2. \A w \in Writes : result[w] = "ok" => reply[w] = "ok"
  BY DEF AllIInv, WriteIInv, CallIInv
<1> QED
  BY <1>1, <1>2 DEF AllIInv, SessionIInv, TransitionsCommitted, Wired

(* A packet that Read can see has changed the session before it can be seen, and a   *)
(* written one when its whole frame is on the wire and before its call learns of it   *)
(* (stream_runtime.go:342-344, 461-463).                                        *)
THEOREM SpecTransitionsCommitted == Spec => []TransitionsCommitted
<1>1. Init => AllIInv
  BY OrderInit, InitWrites, SessionInit DEF AllIInv
<1>2. AllIInv /\ [Next]_vars => AllIInv'
  BY OrderNext, NextKeepsWrites, SessionNext DEF AllIInv
<1> QED
  BY <1>1, <1>2, SessionImplies, PTL DEF Spec
-----------------------------------------------------------------------------
(***************************************************************************)
(* A stream implements module Duplex: every step of its goroutines and its users *)
(* is a step Duplex allows, or none that shows.                                *)
(***************************************************************************)
(***************************************************************************)
(* What the three proofs before this one show of packets, calls and frames, and   *)
(* what is left once run has joined the pumps.                                *)
(***************************************************************************)
Joined ==
  /\ stopPhase \in Nat
  /\ at \in {"joining", "done"} => Stopping
  /\ at = "done" => writer = "exited"

PromiseIInv == OrderIInv /\ WriteIInv /\ ByeIInv /\ Joined

(* Steps that show nothing, save that they may stop the stream.                    *)
Quiet ==
  /\ UNCHANGED <<delivered, wire, result>>
  /\ stopPhase' \in Nat /\ (Stopping => Stopping')
  /\ writer = "exited" => writer' = "exited"
  /\ at' = "joining" => Stopping'
  /\ at' = "done" <=> at = "done"

LEMMA QuietKeeps == Joined /\ Quiet => Joined'
BY DEF Joined, Quiet

LEMMA QuietShows == Quiet => [Promised!Next]_(Promised!promises)
<1> SUFFICES ASSUME Quiet PROVE [Promised!Next]_(Promised!promises)
  OBVIOUS
<1>1. UNCHANGED <<delivered, wire, result>> /\ (at = "done")' = (at = "done")
  BY DEF Quiet
<1>2. CASE Stopping' = Stopping
  BY <1>1, <1>2 DEF Promised!promises
<1>3. CASE Stopping' # Stopping
  <2>1. ~Stopping /\ Stopping' = TRUE
    BY <1>3 DEF Quiet, Stopping
  <2>2. Promised!Stop
    BY <1>1, <2>1 DEF Promised!Stop
  <2> QED
    BY <2>2 DEF Promised!Next
<1> QED
  BY <1>2, <1>3

LEMMA WiredIs == \A p : p \in Promised!ToSet(wire) <=> InQueue(wire, p)
BY SMTT(60) DEF Promised!ToSet, InQueue
-----------------------------------------------------------------------------
LEMMA FailAndStopStops ==
  ASSUME Joined, NEW c, FailAndStop(c)
  PROVE  stopPhase' \in Nat /\ Stopping'
BY DEF Joined, FailAndStop, Stopping

LEMMA OutsideIsQuiet ==
  ASSUME Joined, StopGoesOn \/ PeerSends \/ PeerHangsUp \/ ReadPump
  PROVE  Quiet
<1>1. CASE StopGoesOn \/ PeerSends \/ PeerHangsUp
  <2>1. UNCHANGED <<delivered, wire, result, writer, at>>
    BY <1>1 DEF StopGoesOn, PeerSends, PeerHangsUp, writePump, writeCalls, readCall
  <2>2. stopPhase' = stopPhase \/ stopPhase' = stopPhase + 1
    BY <1>1 DEF StopGoesOn, PeerSends, PeerHangsUp, ending
  <2>3. stopPhase' \in Nat /\ (Stopping => Stopping')
    BY <2>2 DEF Joined, Stopping
  <2> QED
    BY <2>1, <2>3 DEF Quiet, Joined
<1>2. CASE ReadPump
  <2>1. UNCHANGED <<delivered, wire, result, writer, at>>
    BY <1>2 DEF ReadPump, AcquireProcessing, ReadFrame, ReadFails, ReaderGivesUp,
                ReaderRest, writePump, writeCalls, readCall
  <2>2. stopPhase' \in Nat /\ (Stopping => Stopping')
    BY <1>2, FailAndStopStops
       DEF ReadPump, AcquireProcessing, ReadFrame, ReadFails, ReaderGivesUp, ending,
           Joined, Stopping
  <2> QED
    BY <2>1, <2>2 DEF Quiet, Joined, Stopping
<1> QED
  BY <1>1, <1>2

LEMMA InboundIsQuiet ==
  ASSUME Joined,
         \/ ObserveReserves \/ TakeFrame \/ Decode \/ Enqueue \/ Discard
         \/ Deliver \/ PendingRefused \/ NoticeStop \/ Withdraw \/ HandOff
  PROVE  Quiet
<1>1. UNCHANGED <<delivered, wire, result, writer>>
  BY DEF ObserveReserves, TakeFrame, Decode, Enqueue, Discard, Deliver, PendingRefused,
         NoticeStop, Withdraw, HandOff, InboundRest, CoordinatorRest, writePump,
         writeCalls, readCall
<1>2. stopPhase' \in Nat /\ (Stopping => Stopping')
  BY FailAndStopStops
     DEF ObserveReserves, TakeFrame, Decode, Enqueue, Discard, Deliver, PendingRefused,
         NoticeStop, Withdraw, HandOff, ending, Joined, Stopping
<1>3. at \notin {"joining", "done"} /\ at' \notin {"joining", "done"}
  BY DEF ObserveReserves, TakeFrame, Decode, Enqueue, DeliverArrival, Discard, Deliver,
         PendingRefused, NoticeStop, Withdraw, HandOff, Observing, Observed, Observe
<1> QED
  BY <1>1, <1>2, <1>3 DEF Quiet

LEMMA ObserveIsQuiet ==
  ASSUME Joined, ObserveQueues \/ ObserveFails
  PROVE  Quiet
<1>1. UNCHANGED <<delivered, wire, result, writer>>
  BY DEF ObserveQueues, ObserveFails, CoordinatorRest, readCall, writePump
<1>2. /\ stopPhase' \in Nat /\ (Stopping => Stopping')
  BY FailAndStopStops DEF ObserveQueues, ObserveFails, ObserveError, ending, Joined, Stopping
<1>3. at \in DOMAIN Observed
  BY DEF ObserveQueues, ObserveFails, Observing
<1>4. Observed[at].then \in {"decode", "enqueue", "packetOut", "confirm", "refuse",
                             "packetBye", "bye"}
  BY <1>3 DEF Observed
<1>5. at \notin {"joining", "done"} /\ at' \notin {"joining", "done"}
  <2>1. at \notin {"joining", "done"}
    BY <1>3 DEF Observed
  <2>2. CASE ObserveQueues
    BY <1>4, <2>1, <2>2 DEF ObserveQueues
  <2>3. CASE ObserveFails
    BY <1>4, <2>1, <2>3 DEF ObserveFails, ObserveError
  <2> QED
    BY <2>1, <2>2, <2>3
<1> QED
  BY <1>1, <1>2, <1>5 DEF Quiet

LEMMA OutboundIsQuiet ==
  ASSUME Joined,
         \/ \E w \in Writes : TakeWrite(w)
         \/ Encode \/ Refuse \/ GiveJob \/ FinishWrite \/ Confirm \/ ReleaseWrite
         \/ WriteReturns \/ WriterExits
  PROVE  Quiet
<1>1. UNCHANGED <<delivered, wire, result>>
  BY DEF TakeWrite, Encode, Refuse, GiveJob, FinishWrite, Confirm, ReleaseWrite,
         WriteReturns, WriterExits, OutboundRest, WriterRest, readCall, writeCalls
<1>2. writer = "exited" => writer' = "exited"
  BY DEF TakeWrite, Encode, Refuse, GiveJob, FinishWrite, Confirm, ReleaseWrite,
         WriteReturns, WriterExits, HandJob, writePump
<1>3. stopPhase' \in Nat /\ (Stopping => Stopping')
  BY FailAndStopStops
     DEF TakeWrite, Encode, Refuse, GiveJob, FinishWrite, Confirm, ReleaseWrite,
         WriteReturns, WriterExits, WriterRest, ending, Joined, Stopping
<1>4. \/ at' = at
      \/ at \notin {"joining", "done"} /\ at' \notin {"joining", "done"}
  BY DEF TakeWrite, Encode, Refuse, GiveJob, FinishWrite, Confirm, ReleaseWrite, Observe,
         WriteReturns, WriterExits, WriterRest
<1> QED
  BY <1>1, <1>2, <1>3, <1>4 DEF Quiet, Joined

LEMMA EndingIsQuiet ==
  ASSUME Joined,
         \/ TakeShutdown \/ GiveBye \/ AwaitBye \/ FinishShutdown
         \/ CoordinatorReturns \/ Linger \/ LingerEnds \/ RunStops
  PROVE  Quiet
<1>1. UNCHANGED <<delivered, wire, result>>
  BY DEF TakeShutdown, GiveBye, AwaitBye, FinishShutdown, CoordinatorReturns, Linger,
         LingerEnds, RunStops, ByeRest, RunRest, readCall, writeCalls
<1>2. writer = "exited" => writer' = "exited"
  BY DEF TakeShutdown, GiveBye, AwaitBye, FinishShutdown, CoordinatorReturns, Linger,
         LingerEnds, RunStops, HandJob, RunRest, writePump
<1>3. /\ stopPhase' = stopPhase \/ (stopPhase = 0 /\ stopPhase' = 1)
      /\ at' = "joining" => stopPhase' # 0
  <2>1. CASE RunStops
    BY <2>1 DEF RunStops
  <2>2. CASE TakeShutdown \/ GiveBye \/ AwaitBye \/ FinishShutdown
    BY <2>2 DEF TakeShutdown, GiveBye, AwaitBye, FinishShutdown, Observe, ByeRest, ending
  <2>3. CASE CoordinatorReturns \/ Linger \/ LingerEnds
    BY <2>3 DEF CoordinatorReturns, Linger, LingerEnds, ending
  <2> QED
    BY <2>1, <2>2, <2>3
<1>4. at \notin {"joining", "done"} /\ at' # "done"
  BY DEF TakeShutdown, GiveBye, AwaitBye, FinishShutdown, CoordinatorReturns, Linger,
         LingerEnds, RunStops, Observe
<1>5. stopPhase' \in Nat /\ (Stopping => Stopping') /\ (at' = "joining" => Stopping')
  BY <1>3 DEF Joined, Stopping
<1> QED
  BY <1>1, <1>2, <1>4, <1>5 DEF Quiet

LEMMA OthersAreQuiet ==
  ASSUME Joined,
         \/ Dispatch \/ ReadReleases \/ ReadEnds
         \/ ShutdownStarts \/ ShutdownReturns \/ AbortShutdown \/ CloseCalled
         \/ ContextEnds \/ WatchContext
  PROVE  Quiet
<1>1. UNCHANGED <<delivered, wire, result, writer, at>>
  BY DEF Dispatch, TakeRecord, SinkReturns, SinkFailure, StartDrain, DispatcherExits,
         DispatchRest, ReadReleases, ReadEnds, ReadRest, ShutdownStarts, ShutdownReturns,
         AbortShutdown, CloseCalled, ContextEnds, WatchContext, EndRest, writePump,
         writeCalls, readCall
<1>2. stopPhase' \in Nat /\ (Stopping => Stopping')
  BY FailAndStopStops
     DEF Dispatch, TakeRecord, SinkReturns, SinkFailure, StartDrain, DispatcherExits,
         ReadReleases, ReadEnds, ReadRest, ShutdownStarts, ShutdownReturns,
         AbortShutdown, CloseCalled, ContextEnds, WatchContext, ending, Joined, Stopping
<1> QED
  BY <1>1, <1>2 DEF Quiet, Joined
-----------------------------------------------------------------------------
(* The steps that show.                                                        *)
LEMMA FinishEnds ==
  ASSUME Joined, Finish
  PROVE  Joined' /\ Promised!End
<1>1. /\ at = "joining" /\ at' = "done" /\ writer = "exited"
      /\ UNCHANGED <<delivered, wire, result, writer, stopPhase>>
  BY DEF Finish, RunRest, readCall, writeCalls, writePump
<1>2. Stopping /\ Stopping'
  BY <1>1 DEF Joined, Stopping
<1> QED
  <2>1. (Stopping' = Stopping) /\ (at = "done")' = TRUE /\ at # "done"
    BY <1>1, <1>2
  <2>2. Promised!End
    BY <1>1, <1>2, <2>1 DEF Promised!End
  <2> QED
    BY <1>1, <1>2, <2>2 DEF Joined

LEMMA WriteReachesTransmits ==
  ASSUME PromiseIInv, WriteReaches
  PROVE  Joined' /\ Promised!Transmit
<1>1. /\ writer = "writing" /\ writer' = "sent" /\ wire' = Append(wire, job)
      /\ UNCHANGED <<delivered, result, at, stopPhase>>
  BY DEF WriteReaches, WriterRest, ending, readCall, writeCalls
<1>2. Joined /\ at # "done"
  BY <1>1 DEF PromiseIInv, Joined
<1>3. ~InQueue(wire, Bye)
  BY <1>1 DEF PromiseIInv, ByeIInv, OnWire
<1>4. (Stopping' = Stopping) /\ (at = "done")' = (at = "done") /\ Joined'
  BY <1>1, <1>2 DEF Stopping, Joined
<1>5. CASE job = Bye
  <2>1. Bye \notin Writes /\ Bye \notin Promised!ToSet(wire)
    BY <1>3, WiredIs, StreamAssumption
  <2> QED
    BY <1>1, <1>2, <1>4, <1>5, <2>1 DEF Promised!Transmit
<1>6. CASE job # Bye
  <2>1. at = "writing" /\ ~InQueue(wire, job) /\ job = current /\ current \in Writes
    BY <1>1, <1>6 DEF PromiseIInv, WriteIInv, PumpIInv, Wired, OnWrite
  <2>2. CallIInv(job)
    BY <2>1 DEF PromiseIInv, WriteIInv
  <2>3. reply[job] = "none" /\ begun[job] = "started"
    BY <2>1, <2>2 DEF CallIInv, Unanswered, Sending
  <2>4. result[job] \in {"none", "ok", "closed", "error", "rejected", "cancelled",
                         "ambiguous"}
    BY <2>1 DEF PromiseIInv, WriteIInv, CallTyped
  <2>5. result[job] \in {"none", "ambiguous"}
    BY <2>2, <2>3, <2>4 DEF CallIInv
  <2>6. job \in Writes /\ job \notin Promised!ToSet(wire) /\ Bye \notin Promised!ToSet(wire)
    BY <1>3, <2>1, WiredIs
  <2> QED
    BY <1>1, <1>2, <1>4, <2>5, <2>6 DEF Promised!Transmit
<1> QED
  BY <1>5, <1>6

LEMMA ReadTakesDelivers ==
  ASSUME PromiseIInv, ReadTakes
  PROVE  Joined' /\ Promised!Deliver
<1> DEFINE p == Head(inboundPackets)
           n == Len(delivered)
<1>1. /\ UNCHANGED <<wire, result, at, stopPhase, writer>>
      /\ inboundPackets # <<>>
      /\ delivered' = Append(delivered, p)
  BY DEF ReadTakes, ReadRest, ending, writeCalls, writePump
<1>2. /\ delivered \in Seq(Arrivals) /\ inboundPackets \in Seq(Arrivals)
      /\ n \in Nat /\ Len(inboundPackets) \in Nat \ {0} /\ p \in Arrivals
      /\ p = inboundPackets[1]
  BY <1>1, HeadTailProperties, EmptySeq DEF PromiseIInv, OrderIInv, OrderTyped
<1>3. /\ Queue \in Seq(Arrivals) /\ Len(Queue) = n + Len(inboundPackets)
      /\ Queue[n + 1] = p /\ \A d \in 1..n : Queue[d] = delivered[d]
  BY <1>2, ConcatProperties DEF Queue
<1>4. /\ ToRead \in Seq(Arrivals) /\ Len(ToRead) >= n + 1
      /\ ToRead[n + 1] = p /\ \A d \in 1..n : ToRead[d] = delivered[d]
  <2>1. CASE pending = None
    BY <1>2, <1>3, <2>1, ToReadIs DEF PromiseIInv, OrderIInv
  <2>2. CASE pending # None
    <3>1. /\ ToRead = Append(Queue, pending) /\ pending \in Arrivals
          /\ ToRead \in Seq(Arrivals)
      BY <2>2, ToReadIs DEF PromiseIInv, OrderIInv
    <3>2. Len(ToRead) = Len(Queue) + 1 /\ \A k \in 1..Len(Queue) : ToRead[k] = Queue[k]
      BY <1>3, <3>1
    <3> QED
      BY <1>2, <1>3, <3>1, <3>2
  <2> QED
    BY <2>1, <2>2
<1>5. Position(p) \in 1..Len(Inbound) /\ Inbound[Position(p)] = p /\ Len(Inbound) \in Nat
  BY <1>2, Positions
<1>6. ASSUME NEW d \in 1..n
      PROVE  \E j \in 1..(Position(p) - 1) : delivered[d] = Inbound[j]
  <2>1. delivered[d] \in Arrivals
    BY <1>2
  <2>2. /\ Position(delivered[d]) \in 1..Len(Inbound)
        /\ Inbound[Position(delivered[d])] = delivered[d]
    BY <2>1, Positions
  <2>3. d \in 1..Len(ToRead) /\ n + 1 \in 1..Len(ToRead) /\ d < n + 1
    BY <1>2, <1>4
  <2>4. Position(delivered[d]) < Position(p)
    BY <1>4, <2>3 DEF PromiseIInv, OrderIInv, Placed, Ascending
  <2> QED
    BY <1>5, <2>2, <2>4
<1>7. ASSUME ~Stopping PROVE Position(p) = n + 1
  <2>1. Gapless(ToRead)
    BY <1>7 DEF PromiseIInv, OrderIInv, Complete
  <2>2. p = Inbound[n + 1]
    BY <1>2, <1>4, <2>1 DEF Gapless
  <2>3. n + 1 \in 1..Len(Inbound)
    <3> SUFFICES ASSUME n + 1 > Len(Inbound) PROVE FALSE
      BY <1>2, <1>5
    <3> DEFINE m == Len(Inbound)
    <3>1. m \in 1..n /\ m \in 1..Len(ToRead) /\ n + 1 \in 1..Len(ToRead)
      BY <1>2, <1>4, <1>5
    <3>2. ToRead[m] = Inbound[m] /\ Position(Inbound[m]) = m
      BY <2>1, <3>1, <1>5, Positions DEF Gapless
    <3>3. Position(ToRead[m]) < Position(ToRead[n + 1])
      BY <3>1 DEF PromiseIInv, OrderIInv, Placed, Ascending
    <3> QED
      BY <1>2, <1>4, <1>5, <3>2, <3>3
  <2> QED
    BY <2>2, <2>3, Positions
<1>8. Promised!Deliver
  <2>1. /\ delivered' = Append(delivered, Inbound[Position(p)])
        /\ UNCHANGED <<wire, result>>
        /\ (Stopping' = Stopping) /\ (at = "done")' = (at = "done")
    BY <1>1, <1>5 DEF Stopping
  <2> QED
    BY <1>5, <1>6, <1>7, <2>1 DEF Promised!Deliver
<1> QED
  BY <1>1, <1>8 DEF PromiseIInv, Joined, Stopping

(* A call of Write that returns nothing in this step, and one that does.            *)
LEMMA CallTells ==
  ASSUME PromiseIInv, NEW w \in Writes,
         WriteStarts(w) \/ WriteProceeds(w) \/ WriteCancelled(w)
  PROVE  Joined' /\ [Promised!Next]_(Promised!promises)
<1>1. /\ UNCHANGED <<delivered, wire, at, writer>>
      /\ stopPhase' \in Nat /\ (Stopping => Stopping')
  <2>1. UNCHANGED <<delivered, wire, at, writer>>
    BY DEF WriteStarts, WriteProceeds, WriteReserves, WriteAcquires, WriteRejected,
           WriteAnswered, WriteCancelled, WriteRest, readCall, writePump
  <2>2. stopPhase' \in Nat /\ (Stopping => Stopping')
    BY FailAndStopStops
       DEF PromiseIInv, WriteStarts, WriteProceeds, WriteReserves, WriteAcquires,
           WriteRejected, WriteAnswered, WriteCancelled, ending, Joined, Stopping
  <2> QED
    BY <2>1, <2>2
<1>2. CASE result' = result
  <2>1. Quiet
    BY <1>1, <1>2 DEF Quiet, Joined, PromiseIInv
  <2> QED
    BY <2>1, QuietKeeps, QuietShows DEF PromiseIInv
<1>3. CASE result' # result
  <2>0. CallTyped /\ CallIInv(w) /\ Joined
    BY DEF PromiseIInv, WriteIInv
  <2>1. PICK r \in Promised!Answers :
          /\ call[w] # "returned" /\ result' = [result EXCEPT ![w] = r]
          /\ r \in {"cancelled", "rejected"} => begun[w] # "started"
          /\ r \in {"ok", "closed", "error"} => reply[w] = r
          /\ \/ r = "ambiguous" /\ Stopping'
             \/ r # "ambiguous" /\ stopPhase' = stopPhase
    <3>1. CASE WriteStarts(w)
      <4>1. call[w] = "idle" /\ result' = [result EXCEPT ![w] = "rejected"]
            /\ stopPhase' = stopPhase
        BY <1>3, <3>1 DEF WriteStarts, Returns, ending
      <4>2. begun[w] = "queued"
        BY <2>0, <4>1 DEF CallIInv
      <4> QED
        BY <4>1, <4>2 DEF Promised!Answers
    <3>2. CASE WriteReserves(w) \/ WriteAcquires(w) \/ WriteRejected(w)
      <4>1. call[w] \in {"acquiring", "sending"}
            /\ result' = [result EXCEPT ![w] = "rejected"] /\ stopPhase' = stopPhase
        BY <1>3, <3>2 DEF WriteReserves, WriteAcquires, WriteRejected, Returns, ending
      <4>2. begun[w] = "queued"
        BY <2>0, <4>1 DEF CallIInv
      <4> QED
        BY <4>1, <4>2 DEF Promised!Answers
    <3>3. CASE WriteAnswered(w)
      <4>1. call[w] = "waiting" /\ reply[w] # "none"
            /\ result' = [result EXCEPT ![w] = reply[w]] /\ stopPhase' = stopPhase
        BY <3>3 DEF WriteAnswered, Returns, ending
      <4>2. reply[w] \in {"ok", "closed", "error"}
        BY <2>0, <4>1 DEF CallTyped
      <4> QED
        BY <4>1, <4>2 DEF Promised!Answers
    <3>4. CASE WriteCancelled(w)
      <4>1. CASE /\ call[w] \in {"acquiring", "sending"} /\ stopPhase' = stopPhase
                 /\ result' = [result EXCEPT ![w] = "cancelled"]
        <5>1. begun[w] = "queued"
          BY <2>0, <4>1 DEF CallIInv
        <5> QED
          BY <4>1, <5>1 DEF Promised!Answers
      <4>2. CASE /\ call[w] = "waiting" /\ begun[w] = "queued" /\ stopPhase' = stopPhase
                 /\ result' = [result EXCEPT ![w] = "cancelled"]
        BY <4>2 DEF Promised!Answers
      <4>3. CASE /\ call[w] = "waiting" /\ Stopping'
                 /\ result' = [result EXCEPT ![w] = "ambiguous"]
        BY <4>3 DEF Promised!Answers
      <4>4. FailAndStop("ambiguous") => Stopping'
        BY <2>0, FailAndStopStops
      <4> QED
        BY <3>4, <4>1, <4>2, <4>3, <4>4 DEF WriteCancelled, Returns, ending
    <3> QED
      BY <3>1, <3>2, <3>3, <3>4 DEF WriteProceeds
  <2>2. result[w] = "none"
    BY <2>0, <2>1 DEF CallIInv
  <2>3. /\ r = "ok" => w \in Promised!ToSet(wire)
        /\ r \in {"cancelled", "rejected", "closed"} => w \notin Promised!ToSet(wire)
    BY <2>0, <2>1, WiredIs DEF CallIInv, Wired
  <2>4. Stopping' = (Stopping \/ r = "ambiguous")
    BY <2>0, <2>1 DEF Stopping
  <2>5. Promised!Tell(w, r)
    <3>1. (at = "done")' = (at = "done") /\ UNCHANGED <<delivered, wire>>
      BY <1>1
    <3> QED
      BY <2>1, <2>2, <2>3, <2>4, <3>1 DEF Promised!Tell
  <2>6. Joined'
    BY <1>1, <2>0 DEF Joined
  <2> QED
    BY <2>1, <2>5, <2>6 DEF Promised!Next
<1> QED
  BY <1>2, <1>3
-----------------------------------------------------------------------------
LEMMA NextShows ==
  ASSUME PromiseIInv, [Next]_vars
  PROVE  Joined' /\ [Promised!Next]_(Promised!promises)
<1>0. Joined
  BY DEF PromiseIInv
<1>1. CASE Quiet
  BY <1>0, <1>1, QuietKeeps, QuietShows
<1>2. CASE Coordinate
  <2>1. CASE Finish
    BY <1>0, <2>1, FinishEnds DEF Promised!Next
  <2>2. CASE \/ ObserveReserves \/ TakeFrame \/ Decode \/ Enqueue \/ Discard
             \/ Deliver \/ PendingRefused \/ NoticeStop \/ Withdraw \/ HandOff
    BY <1>0, <1>1, <2>2, InboundIsQuiet
  <2>3. CASE ObserveQueues \/ ObserveFails
    BY <1>0, <1>1, <2>3, ObserveIsQuiet
  <2>4. CASE \/ \E w \in Writes : TakeWrite(w)
             \/ Encode \/ Refuse \/ GiveJob \/ FinishWrite \/ Confirm \/ ReleaseWrite
    BY <1>0, <1>1, <2>4, OutboundIsQuiet
  <2>5. CASE \/ TakeShutdown \/ GiveBye \/ AwaitBye \/ FinishShutdown
             \/ CoordinatorReturns \/ Linger \/ LingerEnds \/ RunStops
    BY <1>0, <1>1, <2>5, EndingIsQuiet
  <2> QED
    BY <1>2, <2>1, <2>2, <2>3, <2>4, <2>5 DEF Coordinate
<1>3. CASE StopGoesOn \/ PeerSends \/ PeerHangsUp \/ ReadPump
  BY <1>0, <1>1, <1>3, OutsideIsQuiet
<1>4. CASE WriteReturns \/ WriterExits
  BY <1>0, <1>1, <1>4, OutboundIsQuiet
<1>5. CASE \/ Dispatch \/ WatchContext \/ ReadReleases \/ ReadEnds \/ ShutdownReturns
           \/ ShutdownStarts \/ AbortShutdown \/ CloseCalled \/ ContextEnds
  BY <1>0, <1>1, <1>5, OthersAreQuiet
<1>6. CASE WriteReaches
  BY <1>6, WriteReachesTransmits DEF Promised!Next
<1>7. CASE ReadTakes
  BY <1>7, ReadTakesDelivers DEF Promised!Next
<1>8. CASE \E w \in Writes : WriteProceeds(w) \/ WriteStarts(w) \/ WriteCancelled(w)
  BY <1>8, CallTells
<1>9. CASE UNCHANGED vars
  <2>1. Quiet
    BY <1>0, <1>9 DEF vars, Quiet, Joined, writePump, ending, writeCalls, readCall, Stopping
  <2> QED
    BY <1>1, <2>1
<1> QED
  BY <1>2, <1>3, <1>4, <1>5, <1>6, <1>7, <1>8, <1>9 DEF Next, System, User

LEMMA InitShows == Init => Joined /\ Promised!Init
<1> SUFFICES ASSUME Init PROVE Joined /\ Promised!Init
  OBVIOUS
<1>1. /\ delivered = <<>> /\ wire = <<>> /\ result = [w \in Writes |-> "none"]
      /\ stopPhase = 0 /\ at = "select"
  BY DEF Init
<1>2. (Stopping = FALSE) /\ ((at = "done") = FALSE)
  BY <1>1 DEF Stopping
<1> QED
  BY <1>1, <1>2 DEF Joined, Promised!Init

(* Whatever its goroutines, its users and its peer do, and in whatever order, a     *)
(* stream keeps the promises of module Duplex: packets in order and without a gap     *)
(* until it stops, answers that stay true, a disconnect that is the last word        *)
(* (stream_runtime.go:986-1092, 631-645, stream.go:302).                          *)
THEOREM SpecKeepsPromises == Spec => KeepsPromises
<1>1. Init => PromiseIInv /\ Promised!Init
  BY OrderInit, InitWrites, InitBye, InitShows DEF PromiseIInv
<1>2. PromiseIInv /\ [Next]_vars => PromiseIInv'
  BY OrderNext, NextKeepsWrites, NextKeepsBye, NextShows DEF PromiseIInv
<1>3. PromiseIInv /\ [Next]_vars => [Promised!Next]_(Promised!promises)
  BY NextShows
<1>4. Spec => Promised!Init /\ [][Promised!Next]_(Promised!promises)
  BY <1>1, <1>2, <1>3, PTL DEF Spec
<1> QED
  BY <1>4 DEF KeepsPromises, Promised!Spec

-----------------------------------------------------------------------------
(***************************************************************************)
(* The goroutines of a stream keep the protocol of module Budget, and what the    *)
(* budget is charged for is what they keep in memory.                           *)
(***************************************************************************)
Counted == INSTANCE BudgetProofs WITH
  Requests <- Reservations, MaxItems <- QueueItems, MaxBytes <- QueueBytes

(* What a stream asks of its budget are numbers.                              *)
LEMMA NeedsAreNumbers == Counted!BudgetAssumption
<1>1. ASSUME NEW r \in Records PROVE Size[r[2]] \in Nat
  BY StreamAssumption DEF Records
<1>2. ASSUME NEW r \in Arrivals PROVE Size[r] \in Nat
  BY StreamAssumption DEF Packets
<1>3. Need \in [Reservations -> [items : Nat, bytes : Nat]]
  BY <1>1, <1>2 DEF Need
<1> QED
  BY <1>3, StreamAssumption DEF Counted!BudgetAssumption
-----------------------------------------------------------------------------
(* The budget the proofs count with is the budget the stream uses.             *)
LEMMA SameGrant ==
  ASSUME NEW ws, NEW i, NEW b, NEW st
  PROVE  Queued!GrantLocked(ws, i, b, st) <=> Counted!GrantLocked(ws, i, b, st)
BY DEF Queued!GrantLocked, Counted!GrantLocked, Queued!Servable, Counted!Servable,
       Queued!IsServable, Counted!IsServable, Queued!Fits, Counted!Fits,
       Queued!ItemLoad, Counted!ItemLoad, Queued!ByteLoad, Counted!ByteLoad,
       Queued!PrefixSum, Counted!PrefixSum

LEMMA SameCalls ==
  ASSUME NEW r
  PROVE  /\ Queued!Reserve(r) <=> Counted!Reserve(r)
         /\ Queued!Refuse(r) <=> Counted!Refuse(r)
         /\ Queued!Cancel(r) <=> Counted!Cancel(r)
         /\ Queued!Charge(r) <=> Counted!Charge(r)
         /\ Queued!Release(r) <=> Counted!Release(r)
<1>1. Queued!Refuses(r) <=> Counted!Refuses(r)
  BY DEF Queued!Refuses, Counted!Refuses, Queued!TooLarge, Counted!TooLarge,
         Queued!Fits, Counted!Fits
<1>2. Queued!Reserve(r) <=> Counted!Reserve(r)
  BY <1>1, SameGrant DEF Queued!Reserve, Counted!Reserve
<1>3. Queued!Refuse(r) <=> Counted!Refuse(r)
  BY <1>1 DEF Queued!Refuse, Counted!Refuse
<1>4. Queued!CancelGranted(r) <=> Counted!CancelGranted(r)
  BY SameGrant DEF Queued!CancelGranted, Counted!CancelGranted
<1>5. Queued!CancelWaiting(r) <=> Counted!CancelWaiting(r)
  BY DEF Queued!CancelWaiting, Counted!CancelWaiting, Queued!RemoveAt, Counted!RemoveAt
<1>6. Queued!Cancel(r) <=> Counted!Cancel(r)
  BY <1>4, <1>5 DEF Queued!Cancel, Counted!Cancel, Queued!vars, Counted!vars
<1>7. Queued!Charge(r) <=> Counted!Charge(r)
  BY DEF Queued!Charge, Counted!Charge
<1>8. Queued!Release(r) <=> Counted!Release(r)
  BY SameGrant DEF Queued!Release, Counted!Release
<1> QED
  BY <1>2, <1>3, <1>6, <1>7, <1>8

LEMMA SameBudget ==
  /\ Queued!Init <=> Counted!Init
  /\ [Queued!Next]_(Queued!vars) <=> [Counted!Next]_(Counted!vars)
  /\ Queued!Close <=> Counted!Close
  /\ Queued!Typed <=> Counted!Typed
<1>1. Queued!Init <=> Counted!Init
  BY DEF Queued!Init, Counted!Init
<1>2. Queued!Close <=> Counted!Close
  BY DEF Queued!Close, Counted!Close
<1>3. Queued!Next <=> Counted!Next
  BY <1>2, SameCalls
     DEF Queued!Next, Counted!Next, Queued!Make, Counted!Make,
         Queued!GiveUp, Counted!GiveUp, Queued!ForceCharge, Counted!ForceCharge,
         Queued!GiveBack, Counted!GiveBack
<1>4. Queued!vars = Counted!vars /\ (UNCHANGED Queued!vars <=> UNCHANGED Counted!vars)
  BY DEF Queued!vars, Counted!vars
<1>5. Queued!Typed <=> Counted!Typed
  BY DEF Queued!Typed, Counted!Typed, Queued!Status, Counted!Status
<1> QED
  BY <1>1, <1>2, <1>3, <1>4, <1>5

(* The inductive invariant of the budget.                                     *)
Sound == Counted!IInv /\ Counted!Accounts

LEMMA InitSound == Queued!Init => Sound
BY NeedsAreNumbers, SameBudget, Counted!InitIInv, Counted!InitAccounts DEF Sound

LEMMA NextKeepsSound == Sound /\ [Queued!Next]_(Queued!vars) => Sound'
BY NeedsAreNumbers, SameBudget, Counted!NextKeepsIInv, Counted!NextKeepsAccounts DEF Sound

(* What one call does to the reservation it is made for, and what it may do to *)
(* the others.                                                                *)
Settled(q) ==
  \/ status'[q] = status[q]
  \/ status[q] = "waiting" /\ status'[q] \in {"granted", "refused"}

Others(r) == \A q \in Reservations : q # r => Settled(q)

LEMMA CallsSettle ==
  ASSUME Sound, NEW r \in Reservations
  PROVE  /\ status[r] = "new" /\ Queued!Reserve(r) =>
              status'[r] \in {"waiting", "granted"} /\ Others(r)
         /\ Queued!Refuse(r) => status'[r] = "refused" /\ Others(r)
         /\ status[r] \in {"waiting", "granted", "refused"} /\ Queued!Cancel(r) =>
              status'[r] \in {"cancelled", "refused"} /\ Others(r)
         /\ Queued!Charge(r) => status'[r] = "charged" /\ Others(r)
         /\ status[r] \in {"granted", "charged"} /\ Queued!Release(r) =>
              status'[r] = "released" /\ Others(r)
<1>1. Counted!Others(r) => Others(r)
  BY DEF Counted!Others, Others, Counted!Settled, Settled
<1> QED
  BY <1>1, NeedsAreNumbers, SameCalls, Counted!CallsSettle DEF Sound

LEMMA CloseSettles == Queued!Close => \A q \in Reservations : Settled(q)
BY NeedsAreNumbers, SameBudget, Counted!CloseSettles DEF Settled, Counted!Settled

(* A call made in its place is a step of the budget.                          *)
LEMMA CallsAreSteps ==
  ASSUME NEW r \in Reservations
  PROVE  /\ status[r] = "new" /\ (Queued!Reserve(r) \/ Queued!Refuse(r)) => Queued!Next
         /\ status[r] \in {"waiting", "granted", "refused"} /\ Queued!Cancel(r)
              => Queued!Next
         /\ status[r] \in {"new", "refused", "cancelled"} /\ Queued!Charge(r)
              => Queued!Next
         /\ status[r] \in {"granted", "charged"} /\ Queued!Release(r) => Queued!Next
         /\ Queued!Close => Queued!Next
BY DEF Queued!Next, Queued!Make, Queued!GiveUp, Queued!ForceCharge, Queued!GiveBack
-----------------------------------------------------------------------------
(***************************************************************************)
(* What the statuses of the budget say of the places where packets, calls and  *)
(* records are.                                                               *)
(***************************************************************************)
Undecided == {"waiting", "granted", "refused"}
Idle      == {"new", "refused", "cancelled", "released"}

(* An arrival the coordinator has not got to yet, and one kept for Read.       *)
Ahead(p)  == Position(p) > Taken \/ (at \in InHand /\ current = p)
Stored(p) == \/ InQueue(inboundPackets, p)
             \/ reading = "releasing" /\ Last(delivered) = p
             \/ at \in {"discard", "discardLast"} /\ current = p

ArrivalKept(p) ==
  /\ Ahead(p) => status[p] = "new"
  /\ pending = p =>
       status[p] \in IF at = "handOff" THEN {"refused", "cancelled"} ELSE Undecided
  /\ Stored(p) => status[p] \in {"granted", "charged"}
  /\ ~Stored(p) /\ pending # p => status[p] \in Idle

(* The coordinator works on this call.                                        *)
Served(w) == at \in OnWrite /\ current = w

WriteKept(w) ==
  /\ call[w] = "idle" => status[w] = "new"
  /\ call[w] = "acquiring" => status[w] \in {"new"} \cup Undecided
  /\ call[w] = "sending" \/ Served(w) => status[w] = "granted"
  /\ call[w] \in {"waiting", "returned"} /\ ~Served(w) => status[w] \in Idle

(* A record on its way to the sink, the record being made, and those that the  *)
(* coordinator has yet to make.                                               *)
Handed(r) == InQueue(observations, r) \/ (dispatcher = "observing" /\ record = r)
Due(r)    == Observing /\ TheRecord = r

ByeRecords == {"byeJob", "byeWriting", "rawBye", "packetBye"}

FreshArrival(s, p) ==
  \/ Position(p) > Taken
  \/ at = "rawIn" /\ current = p /\ s # "raw"
  \/ at = "decode" /\ current = p /\ s = "packet"

FreshWrite(s, w) ==
  \/ call[w] \in {"idle", "acquiring", "sending"}
  \/ at = "encode" /\ current = w
  \/ at \in {"handJob", "writing"} /\ current = w /\ s # "rejected"
  \/ at = "rawOut" /\ current = w /\ s = "packet"

FreshBye(s) ==
  \/ shutdown \in {"idle", "sending"}
  \/ at \in {"byeJob", "byeWriting"} /\ s # "rejected"
  \/ at = "rawBye" /\ s = "packet"

Fresh(s, p) ==
  \/ p \in Arrivals /\ FreshArrival(s, p)
  \/ p \in Writes /\ FreshWrite(s, p)
  \/ p = Bye /\ FreshBye(s)

RecordKept(r) ==
  /\ Due(r) => status[r] \in {"new"} \cup Undecided /\ ~Handed(r)
  /\ Handed(r) => status[r] = "granted"
  /\ ~Due(r) /\ ~Handed(r) => status[r] \in Idle
  /\ Fresh(r[1], r[2]) => status[r] = "new"

(* What is kept is kept once.                                                 *)
RecordsOnce ==
  /\ observations \in Seq(Records) /\ record \in Records \cup {None}
  /\ dispatcher = "observing" => record \in Records /\ ~InQueue(observations, record)
  /\ \A j, k \in 1..Len(observations) : observations[j] = observations[k] => j = k

ArrivalsOnce ==
  /\ reading = "releasing" => delivered # <<>>
  /\ at \in {"withdraw", "handOff"} => current = pending
  /\ at \in {"discard", "discardLast"} =>
       /\ pending = None /\ current \in Arrivals
       /\ Position(current) <= Taken /\ UpTo(ToRead, Position(current) - 1)

ByeOnce == at \in ByeRecords => current = Bye /\ shutdown \notin {"idle", "sending"}

KeptIInv ==
  /\ RecordsOnce /\ ArrivalsOnce /\ ByeOnce
  /\ \A p \in Arrivals : ArrivalKept(p)
  /\ \A w \in Writes : WriteKept(w)
  /\ \A r \in Records : RecordKept(r)

Kept == AllIInv /\ Sound /\ KeptIInv
-----------------------------------------------------------------------------
(* Whose reservation a step is about, and that its call is made in its place.  *)
Called(r) ==
  Queued!Make(r) \/ Queued!GiveUp(r) \/ Queued!ForceCharge(r) \/ Queued!GiveBack(r)

Still == \A q \in Reservations : Settled(q)

LEMMA Apart ==
  /\ Arrivals \subseteq Reservations /\ Writes \subseteq Reservations
  /\ Records \subseteq Reservations
  /\ Arrivals \cap Writes = {} /\ Arrivals \cap Records = {} /\ Writes \cap Records = {}
  /\ Bye \notin Arrivals /\ Bye \notin Writes
  /\ None \notin Arrivals /\ None \notin Writes
BY StreamAssumption DEF Reservations, Packets

LEMMA CallSettles ==
  ASSUME Sound, NEW r \in Reservations, Called(r)
  PROVE  Others(r)
BY CallsSettle DEF Called, Queued!Make, Queued!GiveUp, Queued!ForceCharge, Queued!GiveBack

LEMMA BudgetStill == UNCHANGED budget => Still
BY DEF budget, Still, Settled

LEMMA SettledKeeps ==
  ASSUME NEW q, Settled(q)
  PROVE  /\ status[q] # "waiting" => status'[q] = status[q]
         /\ status[q] \in Undecided => status'[q] \in Undecided
BY DEF Settled, Undecided

LEMMA RecordIsOne ==
  ASSUME Kept, Observing
  PROVE  TheRecord \in Records /\ Due(TheRecord)
<1>1. at \in {"rawIn", "packetIn"} => current \in Arrivals
  BY DEF Kept, AllIInv, OrderIInv, Placed, InHand
<1>2. at \in {"rawOut", "packetOut", "refused"} => current \in Writes
  BY DEF Kept, AllIInv, WriteIInv, PumpIInv, OnWrite
<1>3. at \in {"rawBye", "packetBye"} => current = Bye
  BY DEF Kept, KeptIInv, ByeOnce, ByeRecords
<1>4. at \in {"rawIn", "packetIn", "rawOut", "packetOut", "refused", "rawBye", "packetBye"}
  BY DEF Observing, Observed
<1>5. current \in Packets
  BY <1>1, <1>2, <1>3, <1>4 DEF Packets
<1>6. Observed[at].stage \in Stages
  BY DEF Observing, Observed, Stages
<1> QED
  BY <1>5, <1>6 DEF TheRecord, Records, Due

LEMMA ArrivalsCalled ==
  ASSUME Kept
  PROVE  /\ Enqueue => current \in Arrivals /\ status[current] = "new" /\ Called(current)
         /\ Discard => current \in Arrivals /\ Queued!GiveBack(current)
         /\ Withdraw => pending \in Arrivals /\ Queued!GiveUp(pending)
         /\ HandOff => pending \in Arrivals /\ Queued!ForceCharge(pending)
         /\ ReadReleases =>
              Last(delivered) \in Arrivals /\ Queued!GiveBack(Last(delivered))
<1>0. \A p \in Arrivals : ArrivalKept(p)
  BY DEF Kept, KeptIInv
<1>1. Enqueue => current \in Arrivals /\ status[current] = "new" /\ Called(current)
  <2> SUFFICES ASSUME Enqueue
               PROVE  current \in Arrivals /\ status[current] = "new" /\ Called(current)
    OBVIOUS
  <2>1. at = "enqueue" /\ current \in Arrivals
    BY DEF Enqueue, Kept, AllIInv, OrderIInv, Placed, InHand
  <2>2. status[current] = "new"
    BY <1>0, <2>1 DEF ArrivalKept, Ahead, InHand
  <2>3. Queued!Reserve(current) \/ Queued!Refuse(current) \/ Queued!Charge(current)
    BY DEF Enqueue, DeliverArrival
  <2> QED
    BY <2>1, <2>2, <2>3 DEF Called, Queued!Make, Queued!ForceCharge
<1>2. Discard => current \in Arrivals /\ Queued!GiveBack(current)
  BY <1>0 DEF Discard, Kept, KeptIInv, ArrivalsOnce, ArrivalKept, Stored, Queued!GiveBack
<1>3. at \in {"withdraw", "handOff"} => pending \in Arrivals
  BY DEF Kept, AllIInv, OrderIInv, OrderTyped, Placed
<1>4. Withdraw => pending \in Arrivals /\ Queued!GiveUp(pending)
  BY <1>0, <1>3 DEF Withdraw, ArrivalKept, Undecided, Queued!GiveUp
<1>5. HandOff => pending \in Arrivals /\ Queued!ForceCharge(pending)
  BY <1>0, <1>3 DEF HandOff, DeliverArrival, ArrivalKept, Queued!ForceCharge
<1>6. ReadReleases => Last(delivered) \in Arrivals /\ Queued!GiveBack(Last(delivered))
  <2> SUFFICES ASSUME ReadReleases
               PROVE  Last(delivered) \in Arrivals /\ Queued!GiveBack(Last(delivered))
    OBVIOUS
  <2>1. reading = "releasing" /\ delivered # <<>> /\ delivered \in Seq(Arrivals)
    BY DEF ReadReleases, Kept, KeptIInv, ArrivalsOnce, AllIInv, OrderIInv, OrderTyped
  <2>2. Len(delivered) \in Nat \ {0} /\ Last(delivered) = delivered[Len(delivered)]
    BY <2>1, EmptySeq DEF Last
  <2>3. Last(delivered) \in Arrivals
    BY <2>1, <2>2, ElementOfSeq
  <2>4. Stored(Last(delivered))
    BY <2>1 DEF Stored
  <2> QED
    BY <1>0, <2>3, <2>4 DEF ReadReleases, ArrivalKept, Queued!GiveBack
<1> QED
  BY <1>1, <1>2, <1>4, <1>5, <1>6

LEMMA WritesCalled ==
  ASSUME Kept
  PROVE  /\ ReleaseWrite => current \in Writes /\ Queued!GiveBack(current)
         /\ \A w \in Writes :
              /\ WriteReserves(w) => Queued!Make(w)
              /\ WriteRejected(w) => Queued!GiveBack(w)
              /\ WriteCancelled(w) =>
                   Queued!GiveUp(w) \/ Queued!GiveBack(w) \/ UNCHANGED budget
<1>0. \A w \in Writes : WriteKept(w)
  BY DEF Kept, KeptIInv
<1>1. ReleaseWrite => current \in Writes /\ Queued!GiveBack(current)
  <2>1. at \in OnWrite => current \in Writes
    BY DEF Kept, AllIInv, WriteIInv, PumpIInv
  <2> QED
    BY <1>0, <2>1 DEF ReleaseWrite, WriteKept, Served, OnWrite, Queued!GiveBack
<1>2. ASSUME NEW w \in Writes
      PROVE  /\ WriteReserves(w) => Queued!Make(w)
             /\ WriteRejected(w) => Queued!GiveBack(w)
             /\ WriteCancelled(w) =>
                  Queued!GiveUp(w) \/ Queued!GiveBack(w) \/ UNCHANGED budget
  BY <1>0 DEF WriteReserves, WriteRejected, WriteCancelled, WriteKept, Undecided,
              Queued!Make, Queued!GiveBack, Queued!GiveUp
<1> QED
  BY <1>1, <1>2

LEMMA RecordsCalled ==
  ASSUME Kept
  PROVE  /\ ObserveReserves => TheRecord \in Records /\ Queued!Make(TheRecord)
         /\ ObserveFails => /\ TheRecord \in Records
                            /\ Queued!Make(TheRecord) \/ Queued!GiveUp(TheRecord)
         /\ SinkReturns => record \in Records /\ Queued!GiveBack(record)
<1>1. ObserveReserves => TheRecord \in Records /\ Queued!Make(TheRecord)
  BY RecordIsOne DEF ObserveReserves, Queued!Make
<1>2. ObserveFails => /\ TheRecord \in Records
                      /\ Queued!Make(TheRecord) \/ Queued!GiveUp(TheRecord)
  BY RecordIsOne DEF ObserveFails, Queued!Make, Queued!GiveUp
<1>3. SinkReturns => record \in Records /\ Queued!GiveBack(record)
  BY DEF SinkReturns, Kept, KeptIInv, RecordsOnce, RecordKept, Handed, Queued!GiveBack
<1> QED
  BY <1>1, <1>2, <1>3

LEMMA OthersAreStill ==
  ASSUME Kept
  PROVE  /\ StopGoesOn \/ PeerSends \/ PeerHangsUp \/ ReadPump => Still
         /\ WriteReaches \/ WriteReturns \/ WriterExits => Still
         /\ \/ TakeFrame \/ Decode \/ Deliver \/ PendingRefused \/ NoticeStop
            \/ ObserveQueues
            => Still
         /\ (\E w \in Writes : TakeWrite(w)) => Still
         /\ Encode \/ Refuse \/ GiveJob \/ FinishWrite \/ Confirm => Still
         /\ \/ TakeShutdown \/ GiveBye \/ AwaitBye \/ FinishShutdown
            \/ CoordinatorReturns \/ Linger \/ LingerEnds \/ RunStops \/ Finish
            => Still
         /\ TakeRecord \/ SinkFailure \/ StartDrain \/ DispatcherExits => Still
         /\ ReadTakes \/ ReadEnds => Still
         /\ \/ ShutdownStarts \/ ShutdownReturns \/ AbortShutdown \/ CloseCalled
            \/ ContextEnds \/ WatchContext
            => Still
         /\ \A w \in Writes : WriteStarts(w) \/ WriteAcquires(w) \/ WriteAnswered(w) => Still
<1>1. StopGoesOn => Still
  BY CloseSettles, BudgetStill DEF StopGoesOn, Still
<1>2. PeerSends \/ PeerHangsUp \/ ReadPump => Still
  BY BudgetStill DEF PeerSends, PeerHangsUp, ReadPump, AcquireProcessing, ReadFrame,
                     ReadFails, ReaderGivesUp, ReaderRest
<1>3. WriteReaches \/ WriteReturns \/ WriterExits => Still
  BY BudgetStill DEF WriteReaches, WriteReturns, WriterExits, WriterRest
<1>4. TakeFrame \/ Decode \/ Deliver \/ PendingRefused \/ NoticeStop \/ ObserveQueues => Still
  BY BudgetStill DEF TakeFrame, Decode, Deliver, PendingRefused, NoticeStop, ObserveQueues
<1>5. (\E w \in Writes : TakeWrite(w)) => Still
  BY BudgetStill DEF TakeWrite
<1>6. Encode \/ Refuse \/ GiveJob \/ FinishWrite \/ Confirm => Still
  BY BudgetStill DEF Encode, Refuse, GiveJob, FinishWrite, Confirm
<1>7. \/ TakeShutdown \/ GiveBye \/ AwaitBye \/ FinishShutdown
      \/ CoordinatorReturns \/ Linger \/ LingerEnds \/ RunStops \/ Finish
      => Still
  BY BudgetStill DEF TakeShutdown, GiveBye, AwaitBye, FinishShutdown, CoordinatorReturns,
                     Linger, LingerEnds, RunStops, Finish, ByeRest, RunRest
<1>8. TakeRecord \/ SinkFailure \/ StartDrain \/ DispatcherExits => Still
  BY BudgetStill DEF TakeRecord, SinkFailure, StartDrain, DispatcherExits
<1>9. ReadTakes \/ ReadEnds => Still
  BY BudgetStill DEF ReadTakes, ReadEnds
<1>10. \/ ShutdownStarts \/ ShutdownReturns \/ AbortShutdown \/ CloseCalled
       \/ ContextEnds \/ WatchContext
       => Still
  BY BudgetStill DEF ShutdownStarts, ShutdownReturns, AbortShutdown, CloseCalled,
                     ContextEnds, WatchContext, EndRest
<1>11. \A w \in Writes : WriteStarts(w) \/ WriteAcquires(w) \/ WriteAnswered(w) => Still
  BY BudgetStill DEF WriteStarts, WriteAcquires, WriteAnswered
<1> QED
  BY <1>1, <1>2, <1>3, <1>4, <1>5, <1>6, <1>7, <1>8, <1>9, <1>10, <1>11

(* A call made for one kind leaves the reservations of the other kinds alone.    *)
ArrivalsStill == \A p \in Arrivals : Settled(p)
WritesStill   == \A w \in Writes : Settled(w)
RecordsStill  == \A r \in Records : Settled(r)

LEMMA KindsAreStill ==
  ASSUME Kept
  PROVE  /\ Still => ArrivalsStill /\ WritesStill /\ RecordsStill
         /\ Enqueue \/ Discard \/ Withdraw \/ HandOff \/ ReadReleases
              => WritesStill /\ RecordsStill
         /\ ReleaseWrite => ArrivalsStill /\ RecordsStill
         /\ \A w \in Writes : WriteProceeds(w) \/ WriteStarts(w) \/ WriteCancelled(w)
              => ArrivalsStill /\ RecordsStill
         /\ ObserveReserves \/ ObserveFails \/ SinkReturns => ArrivalsStill /\ WritesStill
<1> USE DEF ArrivalsStill, WritesStill, RecordsStill
<1>0. Still => ArrivalsStill /\ WritesStill /\ RecordsStill
  BY Apart DEF Still
<1>1. ASSUME NEW r \in Reservations, Called(r)
      PROVE  /\ r \in Arrivals => WritesStill /\ RecordsStill
             /\ r \in Writes => ArrivalsStill /\ RecordsStill
             /\ r \in Records => ArrivalsStill /\ WritesStill
  <2>1. Others(r)
    BY <1>1, CallSettles DEF Kept
  <2> QED
    BY <2>1, Apart DEF Others
<1> HIDE DEF ArrivalsStill, WritesStill, RecordsStill
<1>2. Enqueue \/ Discard \/ Withdraw \/ HandOff \/ ReadReleases
        => WritesStill /\ RecordsStill
  BY <1>1, Apart, ArrivalsCalled DEF Called
<1>3. ReleaseWrite => ArrivalsStill /\ RecordsStill
  BY <1>1, Apart, WritesCalled DEF Called
<1>4. ASSUME NEW w \in Writes, WriteProceeds(w) \/ WriteStarts(w) \/ WriteCancelled(w)
      PROVE  ArrivalsStill /\ RecordsStill
  BY <1>0, <1>1, <1>4, Apart, WritesCalled, OthersAreStill, BudgetStill
     DEF WriteProceeds, Called
<1>5. ObserveReserves \/ ObserveFails \/ SinkReturns => ArrivalsStill /\ WritesStill
  BY <1>1, Apart, RecordsCalled DEF Called
<1> QED
  BY <1>0, <1>2, <1>3, <1>4, <1>5
-----------------------------------------------------------------------------
(***************************************************************************)
(* The arrivals.  Most steps leave what is kept of an arrival as it is.        *)
(***************************************************************************)
ArrivalAlone(p) ==
  /\ Settled(p)
  /\ Ahead(p)' => Ahead(p)
  /\ Stored(p)' <=> Stored(p)
  /\ pending' = p <=> pending = p
  /\ pending = p => (at' = "handOff" <=> at = "handOff")

LEMMA ArrivalAloneKeeps ==
  ASSUME NEW p, ArrivalKept(p), ArrivalAlone(p)
  PROVE  ArrivalKept(p)'
<1>1. /\ status[p] # "waiting" => status'[p] = status[p]
      /\ status[p] \in Undecided => status'[p] \in Undecided
  BY SettledKeeps DEF ArrivalAlone
<1>2. Ahead(p)' => status'[p] = "new"
  BY <1>1 DEF ArrivalKept, ArrivalAlone
<1>3. pending' = p =>
        status'[p] \in IF at' = "handOff" THEN {"refused", "cancelled"} ELSE Undecided
  BY <1>1 DEF ArrivalKept, ArrivalAlone
<1>4. Stored(p)' => status'[p] \in {"granted", "charged"}
  BY <1>1 DEF ArrivalKept, ArrivalAlone
<1>5. ~Stored(p)' /\ pending' # p => status'[p] \in Idle
  BY <1>1 DEF ArrivalKept, ArrivalAlone, Idle
<1> QED
  BY <1>2, <1>3, <1>4, <1>5 DEF ArrivalKept

Dropping == {"discard", "discardLast", "handOff"}

LEMMA OrderAloneLeavesArrivals ==
  ASSUME OrderTyped, OrderAlone, ArrivalsStill,
         reading' = "releasing" <=> reading = "releasing",
         at \in Dropping \/ at' \in Dropping => at' = at /\ current' = current
  PROVE  \A p \in Arrivals : ArrivalAlone(p)
<1> SUFFICES ASSUME NEW p \in Arrivals PROVE ArrivalAlone(p)
  OBVIOUS
<1>1. Settled(p)
  BY DEF ArrivalsStill
<1>2. Taken' = Taken
  BY DEF OrderAlone, Taken
<1>3. Ahead(p)' => Ahead(p)
  BY <1>2 DEF OrderAlone, Ahead
<1>4. Stored(p)' <=> Stored(p)
  BY DEF OrderAlone, Stored, Dropping, InQueue
<1> QED
  BY <1>1, <1>3, <1>4 DEF OrderAlone, ArrivalAlone, Dropping

(* Where a packet that has left the queue's way is dealt with.                  *)
Parked == Dropping \cup {"withdraw"}

LEMMA OrderIsLeft ==
  ASSUME Kept,
         \/ StopGoesOn \/ PeerSends \/ PeerHangsUp \/ WriteReaches \/ WriteReturns
         \/ WriterExits \/ Dispatch \/ ReadEnds \/ PendingRefused
         \/ ObserveReserves \/ ObserveQueues \/ ObserveFails
         \/ (\E w \in Writes : TakeWrite(w))
         \/ Encode \/ Refuse \/ GiveJob \/ FinishWrite \/ Confirm \/ ReleaseWrite
         \/ TakeShutdown \/ GiveBye \/ AwaitBye \/ FinishShutdown
         \/ CoordinatorReturns \/ Linger \/ LingerEnds \/ RunStops \/ Finish
         \/ ShutdownStarts \/ ShutdownReturns \/ AbortShutdown \/ CloseCalled
         \/ ContextEnds \/ WatchContext
         \/ \E w \in Writes : WriteProceeds(w) \/ WriteStarts(w) \/ WriteCancelled(w)
  PROVE  /\ OrderTyped /\ OrderAlone /\ ArrivalsStill
         /\ reading' = "releasing" <=> reading = "releasing"
         /\ at \in Parked \/ at' \in Parked => at' = at /\ current' = current
<1>0. OrderTyped
  BY DEF Kept, AllIInv, OrderIInv
<1>1. OrderAlone
  BY <1>0, OutsideLeavesOrder, OutboundLeavesOrder, EndingLeavesOrder, OthersLeaveOrder,
     ObserveLeavesOrder, DropsLeaveOrder
<1>2. ArrivalsStill
  BY KindsAreStill, OthersAreStill DEF Dispatch
<1>3. reading' = "releasing" <=> reading = "releasing"
  <2>1. CASE ReadEnds
    BY <2>1 DEF ReadEnds
  <2>2. CASE StopGoesOn \/ PeerSends \/ PeerHangsUp \/ WriteReaches \/ WriteReturns \/ WriterExits
    BY <2>2 DEF StopGoesOn, PeerSends, PeerHangsUp, WriteReaches, WriteReturns, WriterExits,
                WriterRest, readCall
  <2>3. CASE Dispatch \/ PendingRefused \/ ObserveReserves \/ ObserveQueues \/ ObserveFails
    BY <2>3 DEF Dispatch, TakeRecord, SinkReturns, SinkFailure, StartDrain, DispatcherExits,
                DispatchRest, PendingRefused, InboundRest, ObserveReserves, ObserveQueues,
                ObserveFails, CoordinatorRest, readCall
  <2>4. CASE \/ (\E w \in Writes : TakeWrite(w))
             \/ Encode \/ Refuse \/ GiveJob \/ FinishWrite \/ Confirm \/ ReleaseWrite
    BY <2>4 DEF TakeWrite, Encode, Refuse, GiveJob, FinishWrite, Confirm, ReleaseWrite,
                OutboundRest, readCall
  <2>5. CASE \/ TakeShutdown \/ GiveBye \/ AwaitBye \/ FinishShutdown
             \/ CoordinatorReturns \/ Linger \/ LingerEnds \/ RunStops \/ Finish
    BY <2>5 DEF TakeShutdown, GiveBye, AwaitBye, FinishShutdown, CoordinatorReturns, Linger,
                LingerEnds, RunStops, Finish, ByeRest, RunRest, readCall
  <2>6. CASE \/ ShutdownStarts \/ ShutdownReturns \/ AbortShutdown \/ CloseCalled
             \/ ContextEnds \/ WatchContext
    BY <2>6 DEF ShutdownStarts, ShutdownReturns, AbortShutdown, CloseCalled, ContextEnds,
                WatchContext, EndRest, readCall
  <2>7. CASE \E w \in Writes : WriteProceeds(w) \/ WriteStarts(w) \/ WriteCancelled(w)
    BY <2>7 DEF WriteProceeds, WriteReserves, WriteAcquires, WriteRejected, WriteAnswered,
                WriteStarts, WriteCancelled, WriteRest, readCall
  <2> QED
    BY <2>1, <2>2, <2>3, <2>4, <2>5, <2>6, <2>7
<1>4. at \in Parked \/ at' \in Parked => at' = at /\ current' = current
  <2>1. CASE StopGoesOn \/ PeerSends \/ PeerHangsUp \/ WriteReaches \/ WriteReturns \/ WriterExits
    BY <2>1 DEF StopGoesOn, PeerSends, PeerHangsUp, WriteReaches, WriteReturns, WriterExits,
                WriterRest
  <2>2. CASE Dispatch \/ ReadEnds
    BY <2>2 DEF Dispatch, TakeRecord, SinkReturns, SinkFailure, StartDrain, DispatcherExits,
                DispatchRest, ReadEnds, ReadRest
  <2>3. CASE PendingRefused \/ ObserveReserves
    BY <2>3 DEF PendingRefused, ObserveReserves, Parked, Dropping
  <2>4. CASE ObserveQueues \/ ObserveFails
    <3>1. at \in DOMAIN Observed
      BY <2>4 DEF ObserveQueues, ObserveFails, Observing
    <3>2. at \notin Parked /\ Observed[at].then \notin Parked
      BY <3>1 DEF Observed, Parked, Dropping
    <3>3. at' \notin Parked
      BY <2>4, <3>2 DEF ObserveQueues, ObserveFails, ObserveError, Parked, Dropping
    <3> QED
      BY <3>2, <3>3
  <2>5. CASE \/ (\E w \in Writes : TakeWrite(w))
             \/ Encode \/ Refuse \/ GiveJob \/ FinishWrite \/ Confirm \/ ReleaseWrite
    BY <2>5 DEF TakeWrite, Encode, Refuse, GiveJob, FinishWrite, Confirm, ReleaseWrite,
                Observe, Parked, Dropping
  <2>6. CASE \/ TakeShutdown \/ GiveBye \/ AwaitBye \/ FinishShutdown
             \/ CoordinatorReturns \/ Linger \/ LingerEnds \/ RunStops \/ Finish
    BY <2>6 DEF TakeShutdown, GiveBye, AwaitBye, FinishShutdown, CoordinatorReturns, Linger,
                LingerEnds, RunStops, Finish, Observe, Parked, Dropping
  <2>7. CASE \/ ShutdownStarts \/ ShutdownReturns \/ AbortShutdown \/ CloseCalled
             \/ ContextEnds \/ WatchContext
    BY <2>7 DEF ShutdownStarts, ShutdownReturns, AbortShutdown, CloseCalled, ContextEnds,
                WatchContext, EndRest
  <2>8. CASE \E w \in Writes : WriteProceeds(w) \/ WriteStarts(w) \/ WriteCancelled(w)
    BY <2>8 DEF WriteProceeds, WriteReserves, WriteAcquires, WriteRejected, WriteAnswered,
                WriteStarts, WriteCancelled, WriteRest
  <2> QED
    BY <2>1, <2>2, <2>3, <2>4, <2>5, <2>6, <2>7, <2>8
<1> QED
  BY <1>0, <1>1, <1>2, <1>3, <1>4

LEMMA OrderLeavesArrivals ==
  ASSUME Kept,
         \/ StopGoesOn \/ PeerSends \/ PeerHangsUp \/ WriteReaches \/ WriteReturns
         \/ WriterExits \/ Dispatch \/ ReadEnds \/ PendingRefused
         \/ ObserveReserves \/ ObserveQueues \/ ObserveFails
         \/ (\E w \in Writes : TakeWrite(w))
         \/ Encode \/ Refuse \/ GiveJob \/ FinishWrite \/ Confirm \/ ReleaseWrite
         \/ TakeShutdown \/ GiveBye \/ AwaitBye \/ FinishShutdown
         \/ CoordinatorReturns \/ Linger \/ LingerEnds \/ RunStops \/ Finish
         \/ ShutdownStarts \/ ShutdownReturns \/ AbortShutdown \/ CloseCalled
         \/ ContextEnds \/ WatchContext
         \/ \E w \in Writes : WriteProceeds(w) \/ WriteStarts(w) \/ WriteCancelled(w)
  PROVE  \A p \in Arrivals : ArrivalAlone(p)
<1>1. /\ OrderTyped /\ OrderAlone /\ ArrivalsStill
      /\ reading' = "releasing" <=> reading = "releasing"
      /\ at \in Parked \/ at' \in Parked => at' = at /\ current' = current
  BY OrderIsLeft
<1> QED
  BY <1>1, OrderAloneLeavesArrivals DEF Parked

(* What there is to read is there once.                                       *)
LEMMA ReadOnce ==
  ASSUME OrderTyped, Ascending(ToRead)
  PROVE  /\ pending # None =>
              /\ ~InQueue(delivered, pending) /\ ~InQueue(inboundPackets, pending)
              /\ UpTo(Queue, Position(pending) - 1)
         /\ \A p : ~(InQueue(delivered, p) /\ InQueue(inboundPackets, p))
         /\ \A n \in Int : \A p : UpTo(ToRead, n) /\ Readable(p) => Position(p) <= n
         /\ \A j, k \in 1..Len(inboundPackets) :
              inboundPackets[j] = inboundPackets[k] => j = k
<1> DEFINE d == Len(delivered)
           q == Len(inboundPackets)
<1>1. /\ delivered \in Seq(Arrivals) /\ inboundPackets \in Seq(Arrivals)
      /\ d \in Nat /\ q \in Nat
  BY DEF OrderTyped
<1>2. /\ Queue \in Seq(Arrivals) /\ Len(Queue) = d + q
      /\ \A k \in 1..d : Queue[k] = delivered[k]
      /\ \A k \in 1..q : Queue[d + k] = inboundPackets[k]
  BY <1>1, ConcatProperties DEF Queue
<1>3. /\ ToRead \in Seq(Arrivals) /\ Len(ToRead) \in {d + q, d + q + 1}
      /\ \A k \in 1..(d + q) : ToRead[k] = Queue[k]
      /\ pending # None => Len(ToRead) = d + q + 1 /\ ToRead[d + q + 1] = pending
  <2>1. CASE pending = None
    BY <1>1, <1>2, <2>1, ToReadIs
  <2>2. CASE pending # None
    <3>1. pending \in Arrivals /\ ToRead = Append(Queue, pending)
      BY <2>2, ToReadIs
    <3> HIDE DEF d, q
    <3> QED
      BY <1>1, <1>2, <2>2, <3>1
  <2> QED
    BY <2>1, <2>2
<1>4. /\ \A k \in 1..Len(ToRead) : Position(ToRead[k]) \in Int
      /\ \A j, k \in 1..Len(ToRead) : ToRead[j] = ToRead[k] => j = k
  <2>1. \A k \in 1..Len(ToRead) : Position(ToRead[k]) \in Int
    BY <1>3, ElementOfSeq, Positions
  <2>2. Len(ToRead) \in Nat
    BY <1>3
  <2>3. ASSUME NEW j \in 1..Len(ToRead), NEW k \in 1..Len(ToRead), ToRead[j] = ToRead[k]
        PROVE  j = k
    BY <2>1, <2>2, <2>3 DEF Ascending
  <2> QED
    BY <2>1, <2>3
<1> HIDE DEF d, q
<1>5. /\ \A k \in 1..d : k \in 1..Len(ToRead) /\ ToRead[k] = delivered[k]
      /\ \A k \in 1..q : d + k \in 1..Len(ToRead) /\ ToRead[d + k] = inboundPackets[k]
  BY <1>1, <1>2, <1>3
<1>6. pending # None =>
        /\ d + q + 1 \in 1..Len(ToRead) /\ ToRead[d + q + 1] = pending
  BY <1>1, <1>3
<1>7. ASSUME pending # None
      PROVE  /\ ~InQueue(delivered, pending) /\ ~InQueue(inboundPackets, pending)
             /\ UpTo(Queue, Position(pending) - 1)
  <2>1. \A k \in 1..d : delivered[k] # pending
    BY <1>1, <1>4, <1>5, <1>6, <1>7
  <2>2. \A k \in 1..q : inboundPackets[k] # pending
    BY <1>1, <1>4, <1>5, <1>6, <1>7
  <2>3. ASSUME NEW k \in 1..Len(Queue) PROVE Position(Queue[k]) <= Position(pending) - 1
    <3>1. k \in 1..Len(ToRead) /\ k < d + q + 1 /\ ToRead[k] = Queue[k]
      BY <1>1, <1>2, <1>3
    <3> QED
      BY <1>4, <1>6, <1>7, <3>1 DEF Ascending
  <2> QED
    BY <2>1, <2>2, <2>3 DEF InQueue, UpTo, d, q
<1>8. ASSUME NEW p PROVE ~(InQueue(delivered, p) /\ InQueue(inboundPackets, p))
  <2>1. ASSUME NEW j \in 1..d, NEW k \in 1..q, delivered[j] = inboundPackets[k]
        PROVE  FALSE
    <3>1. j = d + k
      BY <1>4, <1>5, <2>1
    <3> QED
      BY <1>1, <3>1
  <2> QED
    BY <2>1 DEF InQueue, d, q
<1>9. ASSUME NEW n \in Int, NEW p, UpTo(ToRead, n), Readable(p)
      PROVE  Position(p) <= n
  BY <1>5, <1>6, <1>9 DEF UpTo, Readable, InQueue, d, q
<1>10. ASSUME NEW j \in 1..q, NEW k \in 1..q, inboundPackets[j] = inboundPackets[k]
       PROVE  j = k
  <2>1. d + j = d + k
    BY <1>4, <1>5, <1>10
  <2> QED
    BY <1>1, <2>1
<1> QED
  BY <1>7, <1>8, <1>9, <1>10 DEF q

LEMMA PumpTakes ==
  ASSUME OrderTyped, ReadPump
  PROVE  Taken' \in Int /\ Taken' >= Taken
<1>1. framed \in Int
  BY DEF OrderTyped
<1>2. \/ framed' = framed /\ reader' # "handing"
      \/ reader = "reading" /\ reader' = "handing" /\ framed' = framed + 1
  <2>1. AcquireProcessing => framed' = framed /\ reader' # "handing"
    BY DEF AcquireProcessing
  <2>2. ReadFails => framed' = framed /\ reader' # "handing"
    BY DEF ReadFails
  <2>3. ReaderGivesUp => framed' = framed /\ reader' # "handing"
    BY DEF ReaderGivesUp
  <2> QED
    BY <2>1, <2>2, <2>3 DEF ReadPump, ReadFrame
<1> QED
  BY <1>1, <1>2 DEF Taken

LEMMA TakingLeavesArrivals ==
  ASSUME Kept, ReadPump \/ TakeFrame \/ Decode \/ ReadTakes \/ UNCHANGED vars
  PROVE  \A p \in Arrivals : ArrivalAlone(p)
<1> SUFFICES ASSUME NEW p \in Arrivals PROVE ArrivalAlone(p)
  OBVIOUS
<1>0. OrderTyped /\ Position(p) \in Int /\ Taken \in Int /\ framed \in Int
  BY Positions, TakenIs DEF Kept, AllIInv, OrderIInv, OrderTyped
<1>1. Settled(p)
  <2>1. UNCHANGED vars => Still
    BY BudgetStill DEF vars
  <2> QED
    BY <2>1, OthersAreStill, Apart DEF Still
<1>2. CASE ReadPump
  <2>1. UNCHANGED <<reading, delivered, inboundPackets, pending, at, current>>
    BY <1>2 DEF ReadPump, AcquireProcessing, ReadFrame, ReadFails, ReaderGivesUp, ReaderRest,
                readCall
  <2>2. Taken' \in Int /\ Taken' >= Taken
    BY <1>0, <1>2, PumpTakes
  <2>3. Taken' \in Int
    BY <2>2
  <2>4. Ahead(p)' => Ahead(p)
    BY <1>0, <2>1, <2>2, <2>3 DEF Ahead
  <2>5. Stored(p)' <=> Stored(p)
    BY <2>1 DEF Stored, InQueue
  <2> QED
    BY <1>1, <2>1, <2>4, <2>5 DEF ArrivalAlone
<1>3. CASE TakeFrame
  <2>1. /\ UNCHANGED <<reading, delivered, inboundPackets, pending, framed>>
        /\ at = "select" /\ pending = None /\ reader = "handing" /\ reader' = "acquire"
        /\ current' = Inbound[framed] /\ at' \in {"rawIn", "decode"}
    BY <1>3 DEF TakeFrame, Observe, InboundRest, readCall
  <2>2. framed \in 1..Len(Inbound) /\ Taken = framed - 1 /\ Taken' = framed
    BY <1>0, <2>1, Positions DEF OrderTyped, Taken
  <2>3. Position(Inbound[framed]) = framed
    BY <2>2, Positions
  <2>4. Ahead(p)' => Ahead(p)
    BY <1>0, <2>1, <2>2, <2>3 DEF Ahead
  <2>5. Stored(p)' <=> Stored(p)
    BY <2>1 DEF Stored, InQueue
  <2> QED
    BY <1>1, <2>1, <2>4, <2>5 DEF ArrivalAlone
<1>4. CASE Decode
  <2>1. /\ UNCHANGED <<reading, delivered, inboundPackets, pending, framed, reader, current>>
        /\ at = "decode" /\ at' \in {"stopping", "packetIn", "enqueue"}
    BY <1>4 DEF Decode, Observe, InboundRest, readCall
  <2>2. Ahead(p)' => Ahead(p)
    BY <2>1 DEF Ahead, Taken, InHand
  <2>3. Stored(p)' <=> Stored(p)
    BY <2>1 DEF Stored, InQueue
  <2> QED
    BY <1>1, <2>1, <2>2, <2>3 DEF ArrivalAlone
<1>5. CASE ReadTakes
  <2>1. /\ UNCHANGED <<framed, reader, pending, at, current>>
        /\ reading = "idle" /\ reading' = "releasing" /\ inboundPackets # <<>>
        /\ delivered' = Append(delivered, Head(inboundPackets))
        /\ inboundPackets' = Tail(inboundPackets)
        /\ inboundPackets \in Seq(Arrivals) /\ delivered \in Seq(Arrivals)
    BY <1>0, <1>5 DEF ReadTakes, ReadRest, readPump, OrderTyped
  <2>2. Head(inboundPackets) \in Arrivals
    BY <2>1, HeadTailProperties
  <2>3. Last(delivered') = Head(inboundPackets)
    BY <2>1, <2>2 DEF Last
  <2>4. InQueue(inboundPackets, p) <=> InQueue(inboundPackets', p) \/ p = Head(inboundPackets)
    BY <2>1, InQueueTail, InQueueHead
  <2>5. Stored(p)' <=> \/ InQueue(inboundPackets', p) \/ Last(delivered') = p
                       \/ (at \in {"discard", "discardLast"} /\ current = p)
    BY <2>1 DEF Stored, InQueue
  <2>6. Stored(p)' <=> Stored(p)
    BY <2>1, <2>3, <2>4, <2>5 DEF Stored
  <2>7. Ahead(p)' => Ahead(p)
    BY <2>1 DEF Ahead, Taken
  <2> QED
    BY <1>1, <2>1, <2>6, <2>7 DEF ArrivalAlone
<1>6. CASE UNCHANGED vars
  BY <1>1, <1>6 DEF vars, ArrivalAlone, Ahead, Taken, Stored, InQueue, readPump, readCall
<1> QED
  BY <1>2, <1>3, <1>4, <1>5, <1>6

(* The steps that are about one arrival leave the others alone.                *)
OtherArrivalsAlone(q) == \A p \in Arrivals : p # q => ArrivalAlone(p)

LEMMA OneArrivalMoves ==
  ASSUME Kept, NEW q \in Arrivals, OtherArrivalsAlone(q), ArrivalKept(q)'
  PROVE  \A p \in Arrivals : ArrivalKept(p)'
BY ArrivalAloneKeeps DEF Kept, KeptIInv, OtherArrivalsAlone

LEMMA OthersOf ==
  ASSUME Sound, NEW q \in Arrivals, Called(q)
  PROVE  \A p \in Arrivals : p # q => Settled(p)
BY CallSettles, Apart DEF Others

LEMMA EnqueueKeepsArrivals ==
  ASSUME Kept, Enqueue
  PROVE  \A p \in Arrivals : ArrivalKept(p)'
<1>0. PICK q \in Arrivals : q = current
  BY ArrivalsCalled
<1>1. /\ current = q /\ status[q] = "new" /\ Called(q) /\ at = "enqueue"
      /\ pending = None /\ Position(q) <= Taken /\ UpTo(ToRead, Position(q) - 1)
      /\ OrderTyped /\ Ascending(ToRead) /\ inboundPackets \in Seq(Arrivals)
      /\ ArrivalKept(q) /\ q # None
  BY <1>0, ArrivalsCalled, Apart
     DEF Enqueue, Kept, KeptIInv, AllIInv, OrderIInv, OrderTyped, Placed, InHand
<1>2. UNCHANGED <<reading, delivered, reader, framed, current>>
  BY DEF Enqueue, InboundRest, readCall
<1>3. ~Stored(q)
  BY <1>1 DEF ArrivalKept
<1>4. at' \in {"select", "discard", "stopping"} /\ Taken' = Taken
  BY <1>2 DEF Enqueue, DeliverArrival, Taken
<1>5. \A p \in Arrivals : Ahead(p)' => Ahead(p) /\ p # q
  <2>1. Position(q) \in Int /\ Taken \in Int
    BY <1>1, Positions, TakenIs
  <2> QED
    BY <1>1, <1>2, <1>4, <2>1 DEF Ahead, InHand
<1>6. \A p \in Arrivals : p # q => Settled(p)
  BY <1>1, OthersOf DEF Kept
<1>7. CASE /\ Queued!Reserve(q) /\ pending' = q /\ at' = "select"
           /\ UNCHANGED inboundPackets
  <2>1. \A p \in Arrivals : Stored(p)' <=> Stored(p)
    BY <1>1, <1>2, <1>7 DEF Stored, InQueue
  <2>2. OtherArrivalsAlone(q)
    BY <1>1, <1>5, <1>6, <1>7, <2>1, Apart DEF OtherArrivalsAlone, ArrivalAlone
  <2>3. status'[q] \in {"waiting", "granted"}
    BY <1>1, <1>7, Apart, CallsSettle DEF Kept
  <2>4. ArrivalKept(q)'
    BY <1>1, <1>3, <1>5, <1>7, <2>1, <2>3 DEF ArrivalKept, Undecided
  <2> QED
    BY <1>1, <2>2, <2>4, OneArrivalMoves
<1>8. CASE /\ DeliverArrival(q, "select", "discard") /\ pending' = pending
  <2>1. \/ inboundPackets' = Append(inboundPackets, q) /\ at' = "select"
        \/ inboundPackets' = inboundPackets /\ at' = "discard"
    BY <1>8 DEF DeliverArrival
  <2>2. \A p \in Arrivals : InQueue(Append(inboundPackets, q), p)
                              <=> InQueue(inboundPackets, p) \/ p = q
    BY <1>1, InQueueAppend
  <2>3. \A p \in Arrivals : Stored(p)' <=> \/ InQueue(inboundPackets', p)
                                           \/ reading = "releasing" /\ Last(delivered) = p
                                           \/ at' = "discard" /\ p = q
    BY <1>1, <1>2, <2>1 DEF Stored, InQueue
  <2>4. \A p \in Arrivals : Stored(p)' <=> Stored(p) \/ p = q
    BY <1>1, <2>1, <2>2, <2>3 DEF Stored
  <2>5. OtherArrivalsAlone(q)
    BY <1>1, <1>5, <1>6, <1>8, <2>4, Apart DEF OtherArrivalsAlone, ArrivalAlone
  <2>6. status'[q] = "charged"
    BY <1>1, <1>8, Apart, CallsSettle DEF Kept, DeliverArrival
  <2>7. ArrivalKept(q)'
    BY <1>1, <1>5, <1>8, <2>4, <2>6 DEF ArrivalKept
  <2> QED
    BY <1>1, <2>5, <2>7, OneArrivalMoves
<1>9. CASE /\ Queued!Refuse(q) /\ at' = "stopping" /\ UNCHANGED <<pending, inboundPackets>>
  <2>1. \A p \in Arrivals : Stored(p)' <=> Stored(p)
    BY <1>1, <1>2, <1>9 DEF Stored, InQueue
  <2>2. OtherArrivalsAlone(q)
    BY <1>1, <1>5, <1>6, <1>9, <2>1, Apart DEF OtherArrivalsAlone, ArrivalAlone
  <2>3. status'[q] = "refused"
    BY <1>1, <1>9, Apart, CallsSettle DEF Kept
  <2>4. ArrivalKept(q)'
    BY <1>1, <1>3, <1>5, <1>9, <2>1, <2>3 DEF ArrivalKept, Idle
  <2> QED
    BY <1>1, <2>2, <2>4, OneArrivalMoves
<1> QED
  BY <1>1, <1>7, <1>8, <1>9 DEF Enqueue

LEMMA DiscardKeepsArrivals ==
  ASSUME Kept, Discard
  PROVE  \A p \in Arrivals : ArrivalKept(p)'
<1>0. PICK q \in Arrivals : q = current
  BY ArrivalsCalled
<1>1. /\ current = q /\ Called(q) /\ Queued!Release(q) /\ at \in {"discard", "discardLast"}
      /\ pending = None /\ Position(q) <= Taken /\ UpTo(ToRead, Position(q) - 1)
      /\ OrderTyped /\ Ascending(ToRead) /\ q # None
      /\ reading = "releasing" => delivered # <<>>
      /\ status[q] \in {"granted", "charged"}
  BY <1>0, ArrivalsCalled, Apart
     DEF Discard, Kept, KeptIInv, ArrivalsOnce, AllIInv, OrderIInv, Placed, Called,
         Queued!GiveBack
<1>2. /\ UNCHANGED <<reading, delivered, inboundPackets, pending, reader, framed, current>>
      /\ at' \in {"select", "ended"} /\ Taken' = Taken
  BY DEF Discard, InboundRest, readCall, Taken
<1>3. Position(q) \in Int /\ Taken \in Int
  BY <1>1, Positions, TakenIs
<1>4. ~Readable(q)
  BY <1>1, <1>3, ReadOnce
<1>5. ~InQueue(inboundPackets, q) /\ ~(reading = "releasing" /\ Last(delivered) = q)
  <2>1. reading = "releasing" => InQueue(delivered, Last(delivered))
    <3>1. delivered \in Seq(Arrivals)
      BY <1>1 DEF OrderTyped
    <3>2. delivered # <<>> => Len(delivered) \in 1..Len(delivered)
      BY <3>1, EmptySeq
    <3> QED
      BY <1>1, <3>2 DEF InQueue, Last
  <2> QED
    BY <1>4, <2>1 DEF Readable
<1>6. \A p \in Arrivals : Stored(p)' <=> Stored(p) /\ p # q
  BY <1>1, <1>2, <1>5 DEF Stored, InQueue
<1>7. \A p \in Arrivals : Ahead(p)' => Ahead(p)
  BY <1>2 DEF Ahead, InHand
<1>8. OtherArrivalsAlone(q)
  <2>1. \A p \in Arrivals : p # q => Settled(p)
    BY <1>1, OthersOf DEF Kept
  <2> QED
    BY <1>1, <1>2, <1>6, <1>7, <2>1, Apart DEF OtherArrivalsAlone, ArrivalAlone
<1>9. status'[q] = "released"
  BY <1>1, Apart, CallsSettle DEF Kept
<1>10. ~Ahead(q)'
  BY <1>1, <1>2, <1>3 DEF Ahead, InHand
<1>11. ArrivalKept(q)'
  BY <1>1, <1>2, <1>6, <1>9, <1>10 DEF ArrivalKept, Idle
<1> QED
  BY <1>8, <1>11, OneArrivalMoves

(* The pending packet is put in the queue.                                    *)
LEMMA PendingIsStored ==
  ASSUME Kept, NEW q \in Arrivals, pending = q, pending' = None, at' \notin InHand,
         UNCHANGED <<reading, delivered, reader, framed, current>>,
         at \notin {"discard", "discardLast"},
         \/ inboundPackets' = Append(inboundPackets, q) /\ at' \notin Dropping
         \/ inboundPackets' = inboundPackets /\ at' = "discardLast" /\ current = q,
         \A p \in Arrivals : p # q => Settled(p),
         status'[q] \in {"granted", "charged"}
  PROVE  \A p \in Arrivals : ArrivalKept(p)'
<1>1. inboundPackets \in Seq(Arrivals) /\ q # None /\ OrderTyped /\ UpTo(ToRead, Taken)
      /\ Ascending(ToRead)
  BY Apart DEF Kept, AllIInv, OrderIInv, OrderTyped, Placed
<1>2. \A p \in Arrivals : InQueue(Append(inboundPackets, q), p)
                            <=> InQueue(inboundPackets, p) \/ p = q
  BY <1>1, InQueueAppend
<1>3. \A p \in Arrivals : Stored(p)' <=> \/ InQueue(inboundPackets', p)
                                         \/ reading = "releasing" /\ Last(delivered) = p
                                         \/ at' \in {"discard", "discardLast"} /\ current = p
  BY DEF Stored, InQueue
<1>4. \A p \in Arrivals : Stored(p)' <=> Stored(p) \/ p = q
  BY <1>2, <1>3 DEF Stored, Dropping
<1>5. \A p \in Arrivals : Ahead(p)' => Ahead(p) /\ p # q
  <2>1. Position(q) <= Taken
    BY <1>1, ReadOnce, TakenIs DEF Readable
  <2>2. Position(q) \in Int /\ Taken \in Int /\ Taken' = Taken
    BY <1>1, Positions, TakenIs DEF Taken
  <2> QED
    BY <2>1, <2>2 DEF Ahead
<1>6. OtherArrivalsAlone(q)
  BY <1>1, <1>4, <1>5, Apart DEF OtherArrivalsAlone, ArrivalAlone
<1>7. ArrivalKept(q)'
  BY <1>1, <1>4, <1>5 DEF ArrivalKept
<1> QED
  BY <1>6, <1>7, OneArrivalMoves

LEMMA DeliverKeepsArrivals ==
  ASSUME Kept, Deliver \/ (NoticeStop /\ pending # None /\ pending' = None)
  PROVE  \A p \in Arrivals : ArrivalKept(p)'
<1>1. /\ at = "select" /\ pending # None /\ status[pending] = "granted" /\ pending' = None
      /\ inboundPackets' = Append(inboundPackets, pending) /\ at' \in {"select", "ended"}
      /\ UNCHANGED <<reading, delivered, reader, framed, current>>
  BY DEF Deliver, NoticeStop, InboundRest, readCall
<1>2. PICK q \in Arrivals : pending = q
  BY <1>1 DEF Kept, AllIInv, OrderIInv, OrderTyped
<1>3. \A p \in Arrivals : Settled(p)
  BY OthersAreStill, Apart DEF Still
<1>4. status'[q] = "granted"
  BY <1>1, <1>2, <1>3, SettledKeeps
<1>5. /\ pending = q /\ at' \notin InHand /\ at \notin {"discard", "discardLast"}
      /\ inboundPackets' = Append(inboundPackets, q) /\ at' \notin Dropping
      /\ status'[q] \in {"granted", "charged"}
      /\ \A p \in Arrivals : p # q => Settled(p)
  BY <1>1, <1>2, <1>3, <1>4 DEF InHand, Dropping
<1> QED
  BY <1>1, <1>5, PendingIsStored

LEMMA HandOffKeepsArrivals ==
  ASSUME Kept, HandOff
  PROVE  \A p \in Arrivals : ArrivalKept(p)'
<1>1. PICK q \in Arrivals : q = pending
  BY ArrivalsCalled
<1>2. /\ at = "handOff" /\ pending = q /\ pending' = None /\ Called(q) /\ current = q
      /\ Queued!Charge(q)
      /\ \/ inboundPackets' = Append(inboundPackets, q) /\ at' = "ended"
         \/ inboundPackets' = inboundPackets /\ at' = "discardLast"
      /\ UNCHANGED <<reading, delivered, reader, framed, current>>
  BY <1>1, ArrivalsCalled
     DEF HandOff, DeliverArrival, Kept, KeptIInv, ArrivalsOnce, Called, InboundRest, readCall
<1>3. \A p \in Arrivals : p # q => Settled(p)
  BY <1>2, OthersOf DEF Kept
<1>4. status'[q] = "charged"
  BY <1>2, Apart, CallsSettle DEF Kept
<1>5. /\ at' \notin InHand /\ at \notin {"discard", "discardLast"}
      /\ status'[q] \in {"granted", "charged"}
  BY <1>2, <1>4 DEF InHand
<1>6. \/ inboundPackets' = Append(inboundPackets, q) /\ at' \notin Dropping
      \/ inboundPackets' = inboundPackets /\ at' = "discardLast" /\ current = q
  BY <1>2 DEF Dropping
<1> QED
  BY <1>2, <1>3, <1>5, <1>6, PendingIsStored

LEMMA WithdrawKeepsArrivals ==
  ASSUME Kept, Withdraw
  PROVE  \A p \in Arrivals : ArrivalKept(p)'
<1>1. PICK q \in Arrivals : q = pending
  BY ArrivalsCalled
<1>2. /\ at = "withdraw" /\ pending = q /\ pending' = q /\ Called(q) /\ at' = "handOff"
      /\ Queued!GiveUp(q) /\ ArrivalKept(q) /\ q # None /\ OrderTyped
      /\ Ascending(ToRead) /\ UpTo(ToRead, Taken)
      /\ reading = "releasing" => delivered # <<>>
      /\ UNCHANGED <<reading, delivered, reader, framed, current, inboundPackets>>
  BY <1>1, ArrivalsCalled, Apart
     DEF Withdraw, Kept, KeptIInv, ArrivalsOnce, Called, InboundRest, readCall, AllIInv,
         OrderIInv, Placed
<1>3. \A p \in Arrivals : p # q => Settled(p)
  BY <1>2, OthersOf DEF Kept
<1>4. status'[q] \in {"cancelled", "refused"}
  BY <1>2, Apart, CallsSettle DEF Kept, Queued!GiveUp
<1>5. \A p \in Arrivals : (Stored(p)' <=> Stored(p)) /\ (Ahead(p)' => Ahead(p))
  BY <1>2 DEF Stored, Ahead, Taken, InQueue, InHand
<1>6. OtherArrivalsAlone(q)
  BY <1>2, <1>3, <1>5 DEF OtherArrivalsAlone, ArrivalAlone
<1>7. ~Stored(q) /\ ~Ahead(q)
  <2>1. reading = "releasing" => InQueue(delivered, Last(delivered))
    <3>1. delivered \in Seq(Arrivals)
      BY <1>2 DEF OrderTyped
    <3>2. delivered # <<>> => Len(delivered) \in 1..Len(delivered)
      BY <3>1, EmptySeq
    <3> QED
      BY <1>2, <3>2 DEF InQueue, Last
  <2>2. ~InQueue(delivered, q) /\ ~InQueue(inboundPackets, q)
    BY <1>2, ReadOnce
  <2>3. Position(q) <= Taken
    BY <1>2, ReadOnce, TakenIs DEF Readable
  <2>4. Position(q) \in Int /\ Taken \in Int
    BY <1>2, Positions, TakenIs
  <2> QED
    BY <1>2, <2>1, <2>2, <2>3, <2>4 DEF Stored, Ahead, InHand
<1>8. ArrivalKept(q)'
  BY <1>2, <1>4, <1>5, <1>7 DEF ArrivalKept
<1> QED
  BY <1>6, <1>8, OneArrivalMoves

LEMMA NoticeStopKeepsArrivals ==
  ASSUME Kept, NoticeStop, pending = None \/ pending' # None
  PROVE  \A p \in Arrivals : ArrivalKept(p)'
<1>1. /\ UNCHANGED <<reading, delivered, reader, framed, pending, inboundPackets>>
      /\ at = "select"
  BY DEF NoticeStop, InboundRest, readCall
<1>2. \A p \in Arrivals : Settled(p)
  BY OthersAreStill, Apart DEF Still
<1>3. at' \in {"ended", "withdraw", "handOff"}
  BY DEF NoticeStop
<1>4. \A p \in Arrivals : (Stored(p)' <=> Stored(p)) /\ (Ahead(p)' => Ahead(p))
  BY <1>1, <1>3 DEF Stored, Ahead, Taken, InQueue, InHand
<1>5. CASE pending = None
  <2>1. \A p \in Arrivals : ArrivalAlone(p)
    BY <1>1, <1>2, <1>4, <1>5, Apart DEF ArrivalAlone
  <2> QED
    BY <2>1, ArrivalAloneKeeps DEF Kept, KeptIInv
<1>6. CASE pending # None
  <2>1. PICK q \in Arrivals : pending = q
    BY <1>6 DEF Kept, AllIInv, OrderIInv, OrderTyped
  <2>2. /\ status[q] \in {"waiting", "refused"} /\ ArrivalKept(q)
        /\ at' = IF status[q] = "waiting" THEN "withdraw" ELSE "handOff"
    BY <1>6, <2>1 DEF NoticeStop, Kept, KeptIInv
  <2>3. OtherArrivalsAlone(q)
    BY <1>1, <1>2, <1>4, <2>1 DEF OtherArrivalsAlone, ArrivalAlone
  <2>4. ArrivalKept(q)'
    <3>1. /\ status[q] # "waiting" => status'[q] = status[q]
          /\ status'[q] \in Undecided
      BY <1>2, <2>2, SettledKeeps DEF Undecided
    <3>2. ~Ahead(q)
      BY <2>2 DEF ArrivalKept
    <3> QED
      BY <1>1, <1>4, <2>1, <2>2, <3>1, <3>2 DEF ArrivalKept
  <2> QED
    BY <2>3, <2>4, OneArrivalMoves
<1> QED
  BY <1>5, <1>6

LEMMA ReadReleasesKeepsArrivals ==
  ASSUME Kept, ReadReleases
  PROVE  \A p \in Arrivals : ArrivalKept(p)'
<1>1. PICK q \in Arrivals : q = Last(delivered)
  BY ArrivalsCalled
<1>2. /\ Last(delivered) = q /\ reading = "releasing" /\ reading' = "idle" /\ Called(q)
      /\ Queued!GiveBack(q) /\ OrderTyped /\ Ascending(ToRead) /\ ArrivalKept(q)
      /\ delivered # <<>> /\ ArrivalsOnce
      /\ UNCHANGED <<delivered, inboundPackets, pending, at, current, reader, framed>>
  BY <1>1, ArrivalsCalled
     DEF ReadReleases, Kept, KeptIInv, ArrivalsOnce, Called, ReadRest, readPump, AllIInv,
         OrderIInv, Placed
<1>3. \A p \in Arrivals : p # q => Settled(p)
  BY <1>2, OthersOf DEF Kept
<1>4. status'[q] = "released"
  BY <1>2, Apart, CallsSettle DEF Kept, Queued!GiveBack
<1>5. InQueue(delivered, q)
  <2>1. delivered \in Seq(Arrivals)
    BY <1>2 DEF OrderTyped
  <2>2. Len(delivered) \in 1..Len(delivered)
    BY <1>2, <2>1, EmptySeq
  <2> QED
    BY <1>2, <2>2 DEF InQueue, Last
<1>6. ~InQueue(inboundPackets, q) /\ pending # q
  BY <1>2, <1>5, ReadOnce, Apart
<1>7. ~(at \in {"discard", "discardLast"} /\ current = q)
  <2> SUFFICES ASSUME at \in {"discard", "discardLast"}, current = q PROVE FALSE
    OBVIOUS
  <2>1. UpTo(ToRead, Position(q) - 1) /\ Position(q) \in Int
    BY <1>2, Positions DEF ArrivalsOnce
  <2>2. Position(q) <= Position(q) - 1
    BY <1>2, <1>5, <2>1, ReadOnce DEF Readable
  <2> QED
    BY <2>1, <2>2
<1>8. \A p \in Arrivals : Stored(p)' <=> Stored(p) /\ p # q
  BY <1>2, <1>6, <1>7 DEF Stored, InQueue
<1>9. \A p \in Arrivals : Ahead(p)' => Ahead(p)
  BY <1>2 DEF Ahead, Taken
<1>10. OtherArrivalsAlone(q)
  BY <1>2, <1>3, <1>8, <1>9 DEF OtherArrivalsAlone, ArrivalAlone
<1>11. ~Ahead(q)
  BY <1>2 DEF ArrivalKept, Stored
<1>12. ArrivalKept(q)'
  BY <1>2, <1>4, <1>6, <1>8, <1>9, <1>11 DEF ArrivalKept, Idle
<1> QED
  BY <1>10, <1>12, OneArrivalMoves

LEMMA NextKeepsArrivals ==
  ASSUME Kept, [Next]_vars
  PROVE  \A p \in Arrivals : ArrivalKept(p)'
<1>1. (\A p \in Arrivals : ArrivalAlone(p)) => \A p \in Arrivals : ArrivalKept(p)'
  BY ArrivalAloneKeeps DEF Kept, KeptIInv
<1> QED
  BY <1>1, OrderLeavesArrivals, TakingLeavesArrivals, EnqueueKeepsArrivals,
     DiscardKeepsArrivals, DeliverKeepsArrivals, HandOffKeepsArrivals,
     WithdrawKeepsArrivals, NoticeStopKeepsArrivals, ReadReleasesKeepsArrivals
     DEF Next, System, User, Coordinate
-----------------------------------------------------------------------------
(* The calls of Write.                                                        *)
Reached == {"waiting", "returned"}

WriteAlone(w) ==
  /\ Settled(w)
  /\ call'[w] = call[w] \/ (call[w] \in Reached /\ call'[w] \in Reached)
  /\ Served(w)' <=> Served(w)

LEMMA WriteAloneKeeps ==
  ASSUME NEW w, WriteKept(w), WriteAlone(w)
  PROVE  WriteKept(w)'
<1>1. /\ status[w] # "waiting" => status'[w] = status[w]
      /\ status[w] \in Undecided => status'[w] \in Undecided
  BY SettledKeeps DEF WriteAlone
<1>2. call'[w] = "idle" => status'[w] = "new"
  BY <1>1 DEF WriteKept, WriteAlone, Reached
<1>3. call'[w] = "acquiring" => status'[w] \in {"new"} \cup Undecided
  BY <1>1 DEF WriteKept, WriteAlone, Reached
<1>4. call'[w] = "sending" \/ Served(w)' => status'[w] = "granted"
  BY <1>1 DEF WriteKept, WriteAlone, Reached
<1>5. call'[w] \in {"waiting", "returned"} /\ ~Served(w)' => status'[w] \in Idle
  BY <1>1 DEF WriteKept, WriteAlone, Reached, Idle
<1> QED
  BY <1>2, <1>3, <1>4, <1>5 DEF WriteKept

LEMMA OthersLeaveTheCalls ==
  ASSUME Kept,
         \/ StopGoesOn \/ PeerSends \/ PeerHangsUp \/ ReadPump
         \/ WriteReaches \/ WriteReturns \/ WriterExits
         \/ ObserveReserves \/ ObserveQueues \/ ObserveFails
         \/ TakeFrame \/ Decode \/ Enqueue \/ Discard
         \/ Deliver \/ PendingRefused \/ NoticeStop \/ Withdraw \/ HandOff
         \/ Encode \/ Refuse \/ GiveJob \/ FinishWrite \/ Confirm
         \/ TakeShutdown \/ GiveBye \/ AwaitBye \/ FinishShutdown
         \/ CoordinatorReturns \/ Linger \/ LingerEnds \/ RunStops \/ Finish
         \/ Dispatch \/ ReadTakes \/ ReadReleases \/ ReadEnds
         \/ ShutdownStarts \/ ShutdownReturns \/ AbortShutdown \/ CloseCalled
         \/ ContextEnds \/ WatchContext \/ UNCHANGED vars
  PROVE  \A w \in Writes : WriteAlone(w)
<1>1. WritesStill
  <2>1. UNCHANGED vars => Still
    BY BudgetStill DEF vars
  <2> QED
    BY <2>1, KindsAreStill, OthersAreStill DEF Dispatch
<1>2. call' = call /\ \A w \in Writes : Served(w)' <=> Served(w)
  <2>1. WritesAlone => call' = call /\ \A w \in Writes : Served(w)' <=> Served(w)
    BY DEF WritesAlone, answers, Served
  <2>2. CASE WriteReaches \/ WriteReturns \/ WriterExits
    BY <2>2 DEF WriteReaches, WriteReturns, WriterExits, WriterRest, writeCalls, Served
  <2>3. CASE ObserveQueues \/ ObserveFails
    <3>1. at \in DOMAIN Observed /\ call' = call /\ current' = current
      BY <2>3 DEF ObserveQueues, ObserveFails, Observing, CoordinatorRest
    <3>2. at \in OnWrite <=> Observed[at].then \in OnWrite
      BY <3>1 DEF Observed, OnWrite
    <3>3. at \in OnWrite <=> at' \in OnWrite
      <4>1. CASE ObserveQueues
        BY <3>2, <4>1 DEF ObserveQueues
      <4>2. CASE ObserveFails
        BY <3>1, <3>2, <4>2 DEF ObserveFails, ObserveError, OnWrite
      <4> QED
        BY <2>3, <4>1, <4>2
    <3> QED
      BY <3>1, <3>3 DEF Served
  <2>4. CASE Encode \/ Refuse \/ GiveJob \/ FinishWrite \/ Confirm
    <3>1. call' = call /\ current' = current /\ at \in OnWrite /\ at' \in OnWrite
      BY <2>4 DEF Encode, Refuse, GiveJob, FinishWrite, Confirm, Observe, OnWrite
    <3> QED
      BY <3>1 DEF Served
  <2>5. CASE GiveBye \/ UNCHANGED vars
    BY <2>5 DEF GiveBye, vars, ByeRest, writeCalls, Served, OnWrite
  <2> QED
    BY <2>1, <2>2, <2>3, <2>4, <2>5, OutsideLeavesWrites, InboundLeavesWrites,
       EndingLeavesWrites, OthersLeaveWrites
<1> QED
  BY <1>1, <1>2 DEF WritesStill, WriteAlone

OtherCallsAlone(w) == \A x \in Writes : x # w => WriteAlone(x)

LEMMA OneCallMoves ==
  ASSUME Kept, NEW w \in Writes, OtherCallsAlone(w), WriteKept(w)'
  PROVE  \A x \in Writes : WriteKept(x)'
BY WriteAloneKeeps DEF Kept, KeptIInv, OtherCallsAlone

LEMMA OtherCallsStill ==
  ASSUME Kept, NEW w \in Writes, Called(w) \/ UNCHANGED budget
  PROVE  \A x \in Writes : x # w => Settled(x)
BY CallSettles, BudgetStill, Apart DEF Kept, Others, Still

LEMMA CoordinatorKeepsCalls ==
  ASSUME Kept, (\E w \in Writes : TakeWrite(w)) \/ ReleaseWrite
  PROVE  \A w \in Writes : WriteKept(w)'
<1>0. call \in [Writes -> {"idle", "acquiring", "sending", "waiting", "returned"}]
  BY DEF Kept, AllIInv, WriteIInv, CallTyped
<1>1. ASSUME NEW w \in Writes, TakeWrite(w) PROVE \A x \in Writes : WriteKept(x)'
  <2>1. /\ at = "select" /\ call[w] = "sending" /\ call' = [call EXCEPT ![w] = "waiting"]
        /\ current' = w /\ at' = "encode" /\ status' = status /\ UNCHANGED budget
    BY <1>1 DEF TakeWrite, budget
  <2>2. OtherCallsAlone(w)
    BY <1>0, <2>1, OtherCallsStill DEF OtherCallsAlone, WriteAlone, Served, OnWrite
  <2>3. status[w] = "granted"
    BY <2>1 DEF Kept, KeptIInv, WriteKept
  <2>4. WriteKept(w)'
    BY <1>0, <2>1, <2>3 DEF WriteKept, Served, OnWrite
  <2> QED
    BY <2>2, <2>4, OneCallMoves
<1>2. ASSUME ReleaseWrite PROVE \A x \in Writes : WriteKept(x)'
  <2>1. PICK w \in Writes : w = current
    BY <1>2, WritesCalled
  <2>2. /\ at \in OnWrite /\ at' \in {"select", "ended"} /\ current = w
        /\ UNCHANGED <<call, current>> /\ Queued!GiveBack(w)
    BY <1>2, <2>1, WritesCalled DEF ReleaseWrite, OnWrite
  <2>3. call[w] \in Reached
    BY <1>0, <2>2 DEF Kept, AllIInv, WriteIInv, CallIInv, Reached
  <2>4. status'[w] = "released"
    BY <2>2, Apart, CallsSettle DEF Kept, Queued!GiveBack
  <2>5. OtherCallsAlone(w)
    BY <2>2, OtherCallsStill DEF Called, OtherCallsAlone, WriteAlone, Served, OnWrite
  <2>6. WriteKept(w)'
    BY <2>2, <2>3, <2>4 DEF WriteKept, Served, OnWrite, Idle, Reached
  <2> QED
    BY <2>5, <2>6, OneCallMoves
<1> QED
  BY <1>1, <1>2

LEMMA CallersKeepCalls ==
  ASSUME Kept, NEW w \in Writes, WriteProceeds(w) \/ WriteStarts(w) \/ WriteCancelled(w)
  PROVE  \A x \in Writes : WriteKept(x)'
<1>0. /\ call \in [Writes -> {"idle", "acquiring", "sending", "waiting", "returned"}]
      /\ WriteKept(w)
  BY DEF Kept, KeptIInv, AllIInv, WriteIInv, CallTyped
<1>1. /\ UNCHANGED <<at, current>>
      /\ \E c : call' = [call EXCEPT ![w] = c]
  <2>1. UNCHANGED <<at, current>>
    BY DEF WriteProceeds, WriteReserves, WriteAcquires, WriteRejected, WriteAnswered,
           WriteStarts, WriteCancelled, WriteRest
  <2>2. call' = call => call' = [call EXCEPT ![w] = call[w]]
    BY <1>0
  <2>3. call' = call \/ \E c : call' = [call EXCEPT ![w] = c]
    BY DEF WriteProceeds, WriteReserves, WriteAcquires, WriteRejected, WriteAnswered,
           WriteStarts, WriteCancelled, Returns
  <2> QED
    BY <2>1, <2>2, <2>3
<1>2. Called(w) \/ UNCHANGED budget
  BY WritesCalled DEF WriteProceeds, WriteStarts, WriteAcquires, WriteAnswered, Called
<1>3. OtherCallsAlone(w)
  <2>1. \A x \in Writes : x # w => call'[x] = call[x]
    BY <1>0, <1>1
  <2> QED
    BY <1>1, <1>2, <2>1, OtherCallsStill DEF OtherCallsAlone, WriteAlone, Served
<1>4. /\ Served(w)' <=> Served(w)
      /\ call[w] \notin Reached => ~Served(w)
  BY <1>0, <1>1 DEF Served, Kept, AllIInv, WriteIInv, CallIInv, Reached
<1>5. WriteKept(w)'
  <2>1. CASE WriteStarts(w) \/ WriteAcquires(w) \/ WriteAnswered(w)
    <3>1. status' = status
      BY <2>1 DEF WriteStarts, WriteAcquires, WriteAnswered, budget
    <3>2. \/ call[w] = "idle" /\ call'[w] \in {"acquiring", "returned"}
          \/ call[w] = "acquiring" /\ status[w] = "granted" /\ call'[w] = "sending"
          \/ call[w] = "acquiring" /\ status[w] = "refused" /\ call'[w] = "returned"
          \/ call[w] = "waiting" /\ call'[w] = "returned"
      BY <1>0, <2>1 DEF WriteStarts, WriteAcquires, WriteAnswered, Returns
    <3> QED
      BY <1>0, <1>4, <3>1, <3>2 DEF WriteKept, Idle, Undecided, Reached
  <2>2. CASE WriteReserves(w)
    <3>1. /\ call[w] = "acquiring" /\ status[w] = "new"
          /\ \/ Queued!Reserve(w) /\ call' = call
             \/ Queued!Refuse(w) /\ call'[w] = "returned"
      BY <1>0, <2>2 DEF WriteReserves, Returns
    <3>2. \/ status'[w] \in {"waiting", "granted"} /\ call'[w] = "acquiring"
          \/ status'[w] = "refused" /\ call'[w] = "returned"
      BY <3>1, Apart, CallsSettle DEF Kept
    <3> QED
      BY <1>4, <3>1, <3>2 DEF WriteKept, Idle, Undecided, Reached
  <2>3. CASE WriteRejected(w)
    <3>1. call[w] = "sending" /\ call'[w] = "returned" /\ Queued!GiveBack(w)
      BY <1>0, <2>3, WritesCalled DEF WriteRejected, Returns
    <3>2. status'[w] = "released"
      BY <3>1, Apart, CallsSettle DEF Kept, Queued!GiveBack
    <3> QED
      BY <1>4, <3>1, <3>2 DEF WriteKept, Idle, Reached
  <2>4. CASE WriteCancelled(w)
    <3>1. /\ call'[w] = "returned"
          /\ \/ call[w] = "acquiring" /\ status[w] \in Undecided /\ Queued!Cancel(w)
             \/ call[w] = "sending" /\ status[w] = "granted" /\ Queued!Release(w)
             \/ call[w] = "waiting" /\ status' = status
      BY <1>0, <2>4 DEF WriteCancelled, WriteKept, Returns, budget
    <3>2. \/ call[w] # "waiting" /\ status'[w] \in {"cancelled", "refused", "released"}
          \/ call[w] = "waiting" /\ status' = status
      BY <3>1, Apart, CallsSettle DEF Kept, Undecided
    <3> QED
      BY <1>0, <1>4, <3>1, <3>2 DEF WriteKept, Idle, Undecided, Reached
  <2> QED
    BY <2>1, <2>2, <2>3, <2>4 DEF WriteProceeds
<1> QED
  BY <1>3, <1>5, OneCallMoves

LEMMA NextKeepsCalls ==
  ASSUME Kept, [Next]_vars
  PROVE  \A w \in Writes : WriteKept(w)'
<1>1. (\A w \in Writes : WriteAlone(w)) => \A w \in Writes : WriteKept(w)'
  BY WriteAloneKeeps DEF Kept, KeptIInv
<1>2. (\E w \in Writes : WriteProceeds(w) \/ WriteStarts(w) \/ WriteCancelled(w))
        => \A w \in Writes : WriteKept(w)'
  BY CallersKeepCalls
<1> QED
  BY <1>1, <1>2, OthersLeaveTheCalls, CoordinatorKeepsCalls DEF Next, System, User, Coordinate
-----------------------------------------------------------------------------
(* The records.                                                               *)
LEMMA ObservedTable ==
  /\ DOMAIN Observed = {"rawIn", "packetIn", "rawOut", "packetOut", "refused", "rawBye",
                        "packetBye"}
  /\ Observed["rawIn"].stage = "raw" /\ Observed["packetIn"].stage = "packet"
  /\ Observed["rawOut"].stage = "raw" /\ Observed["packetOut"].stage = "packet"
  /\ Observed["refused"].stage = "rejected"
  /\ Observed["rawBye"].stage = "raw" /\ Observed["packetBye"].stage = "packet"
  /\ Observed["rawIn"].then = "decode" /\ Observed["packetIn"].then = "enqueue"
  /\ Observed["rawOut"].then = "packetOut" /\ Observed["packetOut"].then = "confirm"
  /\ Observed["refused"].then = "refuse"
  /\ Observed["rawBye"].then = "packetBye" /\ Observed["packetBye"].then = "bye"
BY DEF Observed

(* The control points from which the coordinator goes on to a record.           *)
RecordPoints == {"rawIn", "packetIn", "decode", "encode", "refused", "handJob", "writing",
                 "rawOut", "packetOut", "byeJob", "byeWriting", "rawBye", "packetBye"}

Unsent == {"idle", "acquiring", "sending"}

RecordAlone(r) ==
  /\ Settled(r)
  /\ Handed(r)' <=> Handed(r)
  /\ Fresh(r[1], r[2])' => Fresh(r[1], r[2])
  /\ Due(r) => Due(r)'
  /\ Due(r)' => Due(r) \/ Fresh(r[1], r[2])

LEMMA RecordAloneKeeps ==
  ASSUME NEW r, RecordKept(r), RecordAlone(r)
  PROVE  RecordKept(r)'
<1>1. /\ status[r] # "waiting" => status'[r] = status[r]
      /\ status[r] \in Undecided => status'[r] \in Undecided
  BY SettledKeeps DEF RecordAlone
<1>2. Fresh(r[1], r[2])' => status'[r] = "new"
  BY <1>1 DEF RecordKept, RecordAlone
<1>3. Fresh(r[1], r[2]) => status'[r] = "new" /\ ~Handed(r)
  BY <1>1 DEF RecordKept, RecordAlone
<1>4. Due(r)' => status'[r] \in {"new"} \cup Undecided /\ ~Handed(r)'
  BY <1>1, <1>3 DEF RecordKept, RecordAlone
<1>5. Handed(r)' => status'[r] = "granted"
  BY <1>1 DEF RecordKept, RecordAlone
<1>6. ~Due(r)' /\ ~Handed(r)' => status'[r] \in Idle
  BY <1>1 DEF RecordKept, RecordAlone, Idle
<1> QED
  BY <1>2, <1>4, <1>5, <1>6 DEF RecordKept

(* Steps that make no record and hand none over.                              *)
RecordsAlone ==
  /\ RecordsStill
  /\ observations' = observations /\ record' = record
  /\ dispatcher' = "observing" <=> dispatcher = "observing"
  /\ at' \in RecordPoints \/ Observing => at' = at /\ current' = current
  /\ Taken' \in Int /\ Taken' >= Taken
  /\ \A w \in Writes : call'[w] \in Unsent => call[w] \in Unsent
  /\ shutdown' \in {"idle", "sending"} => shutdown \in {"idle", "sending"}

LEMMA RecordsAreAlone ==
  ASSUME Kept, RecordsAlone
  PROVE  /\ \A r \in Records : RecordKept(r)'
         /\ RecordsOnce' /\ ByeOnce'
<1>1. ASSUME NEW r \in Records PROVE RecordKept(r)'
  <2>1. PICK s \in Stages, p \in Packets : r = <<s, p>>
    BY DEF Records
  <2>2. Handed(r)' <=> Handed(r)
    BY DEF RecordsAlone, Handed, InQueue
  <2>3. Fresh(s, p)' => Fresh(s, p)
    <3>1. p \in Arrivals /\ FreshArrival(s, p)' => FreshArrival(s, p)
      <4>1. p \in Arrivals => Position(p) \in Int
        BY Positions
      <4>2. Taken \in Int
        BY TakenIs DEF Kept, AllIInv, OrderIInv
      <4> QED
        BY <4>1, <4>2 DEF FreshArrival, RecordsAlone, RecordPoints
    <3>2. p \in Writes /\ FreshWrite(s, p)' => FreshWrite(s, p)
      BY DEF FreshWrite, RecordsAlone, RecordPoints, Unsent
    <3>3. FreshBye(s)' => FreshBye(s)
      BY DEF FreshBye, RecordsAlone, RecordPoints
    <3> QED
      BY <3>1, <3>2, <3>3 DEF Fresh
  <2>4. Due(r)' <=> Due(r)
    BY ObservedTable DEF RecordsAlone, Due, Observing, TheRecord, RecordPoints
  <2>5. RecordAlone(r)
    BY <2>1, <2>2, <2>3, <2>4 DEF RecordAlone, RecordsAlone, RecordsStill
  <2> QED
    BY <2>5, RecordAloneKeeps DEF Kept, KeptIInv
<1>2. RecordsOnce'
  BY DEF Kept, KeptIInv, RecordsOnce, RecordsAlone, InQueue
<1>3. ByeOnce'
  BY DEF Kept, KeptIInv, ByeOnce, RecordsAlone, RecordPoints, ByeRecords
<1> QED
  BY <1>1, <1>2, <1>3

LEMMA TakenStays ==
  ASSUME Kept, framed' = framed, reader' = "handing" <=> reader = "handing"
  PROVE  Taken' \in Int /\ Taken' >= Taken
BY TakenIs DEF Taken, Kept, AllIInv, OrderIInv, OrderTyped

LEMMA PumpsLeaveRecords ==
  ASSUME Kept,
         \/ StopGoesOn \/ PeerSends \/ PeerHangsUp \/ ReadPump
         \/ WriteReaches \/ WriteReturns \/ WriterExits
         \/ SinkFailure \/ StartDrain \/ DispatcherExits
         \/ ReadTakes \/ ReadReleases \/ ReadEnds
  PROVE  RecordsAlone
<1>1. RecordsStill
  BY OthersAreStill, KindsAreStill
<1>2. CASE StopGoesOn \/ PeerSends \/ PeerHangsUp
  BY <1>1, <1>2, TakenStays DEF StopGoesOn, PeerSends, PeerHangsUp, RecordsAlone, dispatch,
     writeCalls, endCall, readPump
<1>3. CASE ReadPump
  <2>1. Taken' \in Int /\ Taken' >= Taken
    BY <1>3, PumpTakes DEF Kept, AllIInv, OrderIInv
  <2> QED
    BY <1>1, <1>3, <2>1 DEF ReadPump, AcquireProcessing, ReadFrame, ReadFails, ReaderGivesUp,
       ReaderRest, RecordsAlone, dispatch, writeCalls, endCall
<1>4. CASE WriteReaches \/ WriteReturns \/ WriterExits
  BY <1>1, <1>4, TakenStays DEF WriteReaches, WriteReturns, WriterExits, WriterRest,
     RecordsAlone, dispatch, writeCalls, endCall, readPump
<1>5. CASE SinkFailure \/ StartDrain \/ DispatcherExits
  BY <1>1, <1>5, TakenStays DEF SinkFailure, StartDrain, DispatcherExits, DispatchRest,
     RecordsAlone, dispatch, writeCalls, endCall, readPump
<1>6. CASE ReadTakes \/ ReadReleases \/ ReadEnds
  BY <1>1, <1>6, TakenStays DEF ReadTakes, ReadReleases, ReadEnds, ReadRest,
     RecordsAlone, dispatch, writeCalls, endCall, readPump
<1> QED
  BY <1>2, <1>3, <1>4, <1>5, <1>6

LEMMA CoordinatorLeavesRecords ==
  ASSUME Kept,
         \/ Enqueue \/ Discard \/ Deliver \/ PendingRefused \/ NoticeStop \/ Withdraw
         \/ HandOff \/ Refuse \/ Confirm \/ ReleaseWrite \/ FinishShutdown
         \/ CoordinatorReturns \/ Linger \/ LingerEnds \/ RunStops \/ Finish
  PROVE  RecordsAlone
<1>1. RecordsStill
  BY OthersAreStill, KindsAreStill
<1>2. CASE \/ Enqueue \/ Discard \/ Deliver \/ PendingRefused \/ NoticeStop \/ Withdraw
           \/ HandOff
  <2>1. UNCHANGED <<reader, framed, observations, dispatcher, record, call, shutdown>>
    BY <1>2 DEF Enqueue, Discard, Deliver, PendingRefused, NoticeStop, Withdraw, HandOff,
                InboundRest, dispatch, writeCalls, endCall
  <2>2. at' \notin RecordPoints /\ ~Observing
    BY <1>2, ObservedTable DEF Enqueue, Discard, Deliver, PendingRefused, NoticeStop,
       Withdraw, HandOff, DeliverArrival, RecordPoints, Observing
  <2> QED
    BY <1>1, <2>1, <2>2, TakenStays DEF RecordsAlone
<1>3. CASE Refuse \/ Confirm \/ ReleaseWrite
  <2>1. UNCHANGED <<reader, framed, observations, dispatcher, record, call, shutdown>>
    BY <1>3 DEF Refuse, Confirm, ReleaseWrite, OutboundRest, readPump, dispatch, endCall
  <2>2. at' \notin RecordPoints /\ ~Observing
    BY <1>3, ObservedTable DEF Refuse, Confirm, ReleaseWrite, RecordPoints, Observing
  <2> QED
    BY <1>1, <2>1, <2>2, TakenStays DEF RecordsAlone
<1>4. CASE \/ FinishShutdown
           \/ CoordinatorReturns \/ Linger \/ LingerEnds \/ RunStops \/ Finish
  <2>1. UNCHANGED <<reader, framed, observations, dispatcher, record, call, shutdown>>
    BY <1>4 DEF FinishShutdown, CoordinatorReturns, Linger, LingerEnds, RunStops, Finish,
                ByeRest, RunRest, readPump, dispatch, writeCalls, endCall
  <2>2. at' \notin RecordPoints /\ ~Observing
    BY <1>4, ObservedTable DEF FinishShutdown, CoordinatorReturns, Linger, LingerEnds,
       RunStops, Finish, RecordPoints, Observing
  <2> QED
    BY <1>1, <2>1, <2>2, TakenStays DEF RecordsAlone
<1> QED
  BY <1>2, <1>3, <1>4

LEMMA CallersLeaveRecords ==
  ASSUME Kept,
         \/ ShutdownStarts \/ ShutdownReturns \/ AbortShutdown \/ CloseCalled
         \/ ContextEnds \/ WatchContext
         \/ (\E w \in Writes : WriteProceeds(w) \/ WriteStarts(w) \/ WriteCancelled(w))
         \/ UNCHANGED vars
  PROVE  RecordsAlone
<1>1. RecordsStill
  BY OthersAreStill, KindsAreStill, BudgetStill DEF vars
<1>2. CASE \/ ShutdownStarts \/ ShutdownReturns \/ AbortShutdown \/ CloseCalled
           \/ ContextEnds \/ WatchContext
  <2>1. /\ UNCHANGED <<reader, framed, observations, dispatcher, record, call, at, current>>
        /\ shutdown' \in {"idle", "sending"} => shutdown \in {"idle", "sending"}
    BY <1>2 DEF ShutdownStarts, ShutdownReturns, AbortShutdown, CloseCalled, ContextEnds,
                WatchContext, EndRest, readPump, dispatch, writeCalls
  <2> QED
    BY <1>1, <2>1, TakenStays DEF RecordsAlone
<1>3. ASSUME NEW w \in Writes, WriteProceeds(w) \/ WriteStarts(w) \/ WriteCancelled(w)
      PROVE  RecordsAlone
  <2>1. UNCHANGED <<reader, framed, observations, dispatcher, record, shutdown, at, current>>
    BY <1>3 DEF WriteProceeds, WriteReserves, WriteAcquires, WriteRejected, WriteAnswered,
                WriteStarts, WriteCancelled, WriteRest, readPump, dispatch, endCall
  <2>2. call \in [Writes -> {"idle", "acquiring", "sending", "waiting", "returned"}]
    BY DEF Kept, AllIInv, WriteIInv, CallTyped
  <2>3. \A x \in Writes : call'[x] \in Unsent => call[x] \in Unsent
    BY <1>3, <2>2 DEF WriteProceeds, WriteReserves, WriteAcquires, WriteRejected,
       WriteAnswered, WriteStarts, WriteCancelled, Returns, Unsent
  <2> QED
    BY <1>1, <2>1, <2>3, TakenStays DEF RecordsAlone
<1>4. CASE UNCHANGED vars
  BY <1>1, <1>4, TakenStays DEF vars, RecordsAlone, readPump, dispatch, writeCalls, endCall
<1> QED
  BY <1>2, <1>3, <1>4

(* Steps that bring the coordinator nearer to a record, or away from one.       *)
RecordsNear ==
  /\ RecordsStill
  /\ UNCHANGED <<observations, record, dispatcher>>
  /\ \A s \in Stages, p \in Packets :
       /\ Fresh(s, p)' => Fresh(s, p)
       /\ Due(<<s, p>>)' => Fresh(s, p)
  /\ ~Observing

LEMMA RecordsNearKeeps ==
  ASSUME Kept, RecordsNear
  PROVE  (\A r \in Records : RecordKept(r)') /\ RecordsOnce'
<1>1. ASSUME NEW r \in Records PROVE RecordKept(r)'
  <2>1. PICK s \in Stages, p \in Packets : r = <<s, p>>
    BY DEF Records
  <2>2. Handed(r)' <=> Handed(r)
    BY DEF RecordsNear, Handed, InQueue
  <2>3. RecordAlone(r)
    BY <2>1, <2>2 DEF RecordAlone, RecordsNear, RecordsStill, Due
  <2> QED
    BY <2>3, RecordAloneKeeps DEF Kept, KeptIInv
<1>2. RecordsOnce'
  BY DEF Kept, KeptIInv, RecordsOnce, RecordsNear, InQueue
<1> QED
  BY <1>1, <1>2

LEMMA DueAfter ==
  \A s, p : Due(<<s, p>>)' <=>
    /\ current' = p
    /\ \/ at' \in {"rawIn", "rawOut", "rawBye"} /\ s = "raw"
       \/ at' \in {"packetIn", "packetOut", "packetBye"} /\ s = "packet"
       \/ at' = "refused" /\ s = "rejected"
BY ObservedTable DEF Due, Observing, TheRecord

LEMMA ArrivalsNearRecords ==
  ASSUME Kept, TakeFrame \/ Decode
  PROVE  RecordsNear /\ ByeOnce'
<1>0. OrderTyped /\ Taken \in Int
  BY TakenIs DEF Kept, AllIInv, OrderIInv
<1>1. RecordsStill
  BY OthersAreStill, KindsAreStill
<1>2. CASE TakeFrame
  <2>1. /\ UNCHANGED <<framed, observations, record, dispatcher, call, shutdown>>
        /\ at = "select" /\ reader = "handing" /\ reader' = "acquire"
        /\ current' = Inbound[framed] /\ at' \in {"rawIn", "decode"}
    BY <1>2 DEF TakeFrame, Observe, InboundRest, dispatch, writeCalls, endCall
  <2>2. framed \in 1..Len(Inbound) /\ Taken = framed - 1 /\ Taken' = framed
    BY <1>0, <2>1, Positions DEF OrderTyped, Taken
  <2>3. PICK c \in Arrivals : c = Inbound[framed] /\ Position(c) = framed
    BY <2>2, Positions
  <2>4. ASSUME NEW s \in Stages, NEW p \in Packets
        PROVE  /\ Fresh(s, p)' => Fresh(s, p)
               /\ Due(<<s, p>>)' => Fresh(s, p)
    <3>1. p \in Arrivals => Position(p) \in Int
      BY Positions
    <3>2. p = c => Fresh(s, p)
      BY <2>2, <2>3 DEF Fresh, FreshArrival
    <3>3. p \in Arrivals /\ FreshArrival(s, p)' => Position(p) > Taken \/ p = c
      BY <2>1, <2>2, <2>3, <3>1 DEF FreshArrival
    <3>4. (FreshWrite(s, p)' => FreshWrite(s, p)) /\ (FreshBye(s)' => FreshBye(s))
      BY <2>1 DEF FreshWrite, FreshBye
    <3>5. Due(<<s, p>>)' => p = c
      BY <2>1, <2>3, DueAfter
    <3>6. p \in Arrivals /\ Position(p) > Taken => Fresh(s, p)
      BY DEF Fresh, FreshArrival
    <3>7. Fresh(s, p)' <=> \/ p \in Arrivals /\ FreshArrival(s, p)'
                           \/ p \in Writes /\ FreshWrite(s, p)'
                           \/ p = Bye /\ FreshBye(s)'
      BY DEF Fresh
    <3>8. (p \in Writes /\ FreshWrite(s, p)) \/ (p = Bye /\ FreshBye(s)) => Fresh(s, p)
      BY DEF Fresh
    <3> QED
      BY <3>2, <3>3, <3>4, <3>5, <3>6, <3>7, <3>8
  <2>5. ~Observing /\ ByeOnce'
    BY <2>1, ObservedTable DEF Observing, ByeOnce, ByeRecords
  <2> QED
    BY <1>1, <2>1, <2>4, <2>5 DEF RecordsNear
<1>3. CASE Decode
  <2>1. /\ UNCHANGED <<framed, reader, current, observations, record, dispatcher, call, shutdown>>
        /\ at = "decode" /\ at' \in {"stopping", "packetIn", "enqueue"}
    BY <1>3 DEF Decode, Observe, InboundRest, dispatch, writeCalls, endCall
  <2>2. current \in Arrivals
    BY <2>1 DEF Kept, AllIInv, OrderIInv, Placed, InHand
  <2>3. Taken' = Taken
    BY <2>1 DEF Taken
  <2>4. ASSUME NEW s \in Stages, NEW p \in Packets
        PROVE  /\ Fresh(s, p)' => Fresh(s, p)
               /\ Due(<<s, p>>)' => Fresh(s, p)
    <3>1. Fresh(s, p)' => Fresh(s, p)
      BY <2>1, <2>3 DEF Fresh, FreshArrival, FreshWrite, FreshBye
    <3>2. Due(<<s, p>>)' => p = current /\ s = "packet"
      BY <2>1, DueAfter
    <3>3. p = current /\ s = "packet" => Fresh(s, p)
      BY <2>1, <2>2 DEF Fresh, FreshArrival
    <3> QED
      BY <3>1, <3>2, <3>3
  <2>5. ~Observing /\ ByeOnce'
    BY <2>1, ObservedTable DEF Observing, ByeOnce, ByeRecords
  <2> QED
    BY <1>1, <2>1, <2>4, <2>5 DEF RecordsNear
<1> QED
  BY <1>2, <1>3

LEMMA WritesNearRecords ==
  ASSUME Kept, (\E w \in Writes : TakeWrite(w)) \/ Encode \/ GiveJob \/ FinishWrite
  PROVE  RecordsNear /\ ByeOnce'
<1>1. RecordsStill
  BY OthersAreStill, KindsAreStill
<1>2. /\ UNCHANGED <<framed, reader, observations, record, dispatcher, shutdown>>
      /\ Taken' = Taken
  BY DEF TakeWrite, Encode, GiveJob, FinishWrite, OutboundRest, readPump, dispatch, endCall,
         Taken
<1>3. call \in [Writes -> {"idle", "acquiring", "sending", "waiting", "returned"}]
  BY DEF Kept, AllIInv, WriteIInv, CallTyped
<1>4. at' \in {"encode", "refused", "refuse", "handJob", "writing", "releaseLast", "rawOut",
               "confirm", "stopWrite"}
  BY DEF TakeWrite, Encode, GiveJob, FinishWrite, Observe
<1>5. ASSUME NEW s \in Stages, NEW p \in Packets
      PROVE  (FreshArrival(s, p)' => FreshArrival(s, p)) /\ (FreshBye(s)' => FreshBye(s))
  BY <1>2, <1>4 DEF FreshArrival, FreshBye
<1>6. ASSUME NEW w \in Writes, TakeWrite(w), NEW s \in Stages, NEW p \in Writes
      PROVE  /\ FreshWrite(s, p)' => FreshWrite(s, p)
             /\ ~Due(<<s, p>>)'
  <2>1. /\ at = "select" /\ call[w] = "sending" /\ call' = [call EXCEPT ![w] = "waiting"]
        /\ current' = w /\ at' = "encode"
    BY <1>6 DEF TakeWrite
  <2>2. call'[p] \in Unsent => call[p] \in Unsent
    BY <1>3, <2>1 DEF Unsent
  <2>3. FreshWrite(s, p)' => FreshWrite(s, p)
    BY <2>1, <2>2 DEF FreshWrite, Unsent
  <2> QED
    BY <2>1, <2>3, DueAfter
<1>7. ASSUME Encode \/ GiveJob \/ FinishWrite, NEW s \in Stages, NEW p \in Writes
      PROVE  /\ FreshWrite(s, p)' => FreshWrite(s, p)
             /\ Due(<<s, p>>)' => FreshWrite(s, p)
  <2>1. /\ UNCHANGED <<current, call>>
        /\ \/ at = "encode" /\ at' \in {"refused", "refuse", "handJob"}
           \/ at = "handJob" /\ at' \in {"writing", "releaseLast"}
           \/ at = "writing" /\ at' \in {"rawOut", "confirm", "stopWrite"}
    BY <1>7 DEF Encode, GiveJob, FinishWrite, Observe
  <2>2. FreshWrite(s, p)' => FreshWrite(s, p)
    BY <2>1 DEF FreshWrite
  <2>3. Due(<<s, p>>)' => /\ current = p
                          /\ at = "encode" \/ (at = "writing" /\ s # "rejected")
    BY <2>1, DueAfter
  <2> QED
    BY <2>2, <2>3 DEF FreshWrite
<1>8. ASSUME NEW s \in Stages, NEW p \in Packets
      PROVE  /\ Fresh(s, p)' => Fresh(s, p)
             /\ Due(<<s, p>>)' => Fresh(s, p)
  <2>1. Due(<<s, p>>)' => p \in Writes
    <3>1. (\E w \in Writes : TakeWrite(w)) => current' \in Writes
      BY DEF TakeWrite
    <3>2. Encode \/ GiveJob \/ FinishWrite => current' = current /\ at \in OnWrite
      BY DEF Encode, GiveJob, FinishWrite, OnWrite
    <3>3. current' \in Writes
      BY <3>1, <3>2 DEF Kept, AllIInv, WriteIInv, PumpIInv
    <3> QED
      BY <3>3, DueAfter
  <2>2. p \in Writes =>
          /\ FreshWrite(s, p)' => FreshWrite(s, p)
          /\ Due(<<s, p>>)' => FreshWrite(s, p)
    BY <1>6, <1>7
  <2>3. Fresh(s, p)' <=> \/ p \in Arrivals /\ FreshArrival(s, p)'
                         \/ p \in Writes /\ FreshWrite(s, p)'
                         \/ p = Bye /\ FreshBye(s)'
    BY DEF Fresh
  <2>4. Fresh(s, p) <=> \/ p \in Arrivals /\ FreshArrival(s, p)
                        \/ p \in Writes /\ FreshWrite(s, p)
                        \/ p = Bye /\ FreshBye(s)
    BY DEF Fresh
  <2> QED
    BY <1>5, <2>1, <2>2, <2>3, <2>4
<1>9. ~Observing
  BY ObservedTable DEF TakeWrite, Encode, GiveJob, FinishWrite, Observing
<1>10. ByeOnce'
  BY <1>4 DEF ByeOnce, ByeRecords
<1> QED
  BY <1>1, <1>2, <1>8, <1>9, <1>10 DEF RecordsNear

LEMMA ByeNearRecords ==
  ASSUME Kept, TakeShutdown \/ GiveBye \/ AwaitBye
  PROVE  RecordsNear /\ ByeOnce'
<1>1. RecordsStill
  BY OthersAreStill, KindsAreStill
<1>2. /\ UNCHANGED <<framed, reader, observations, record, dispatcher, call>>
      /\ Taken' = Taken
  BY DEF TakeShutdown, GiveBye, AwaitBye, ByeRest, readPump, dispatch, writeCalls, Taken
<1>3. /\ current' = Bye /\ shutdown' \notin {"idle", "sending"}
      /\ \/ shutdown = "sending" /\ at = "select" /\ at' \in {"byeFailed", "byeJob", "bye"}
         \/ at = "byeJob" /\ at' \in {"byeWriting", "byeFailed"} /\ shutdown' = shutdown
         \/ at = "byeWriting" /\ at' \in {"rawBye", "bye", "byeFailed"} /\ shutdown' = shutdown
  BY DEF TakeShutdown, GiveBye, AwaitBye, Observe, Kept, KeptIInv, ByeOnce, ByeRecords
<1>4. ASSUME NEW s \in Stages, NEW p \in Packets
      PROVE  /\ Fresh(s, p)' => Fresh(s, p)
             /\ Due(<<s, p>>)' => Fresh(s, p)
  <2>1. (FreshArrival(s, p)' => FreshArrival(s, p)) /\ (FreshWrite(s, p)' => FreshWrite(s, p))
    BY <1>2, <1>3 DEF FreshArrival, FreshWrite
  <2>2. FreshBye(s)' => FreshBye(s)
    BY <1>3 DEF FreshBye
  <2>3. Fresh(s, p)' => Fresh(s, p)
    <3>1. Fresh(s, p)' <=> \/ p \in Arrivals /\ FreshArrival(s, p)'
                           \/ p \in Writes /\ FreshWrite(s, p)'
                           \/ p = Bye /\ FreshBye(s)'
      BY DEF Fresh
    <3> QED
      BY <2>1, <2>2, <3>1 DEF Fresh
  <2>4. Due(<<s, p>>)' => p = Bye /\ s = "raw" /\ at = "byeWriting"
    BY <1>3, DueAfter
  <2>5. Due(<<s, p>>)' => Fresh(s, p)
    BY <2>4 DEF Fresh, FreshBye
  <2> QED
    BY <2>3, <2>5
<1>5. ~Observing /\ ByeOnce'
  BY <1>3, ObservedTable DEF Observing, ByeOnce, ByeRecords
<1> QED
  BY <1>1, <1>2, <1>4, <1>5 DEF RecordsNear

LEMMA DueIsNotFresh ==
  ASSUME Kept, NEW s \in Stages, NEW p \in Packets, Due(<<s, p>>)
  PROVE  ~Fresh(s, p)
<1>1. /\ current = p
      /\ \/ at \in {"rawIn", "rawOut", "rawBye"} /\ s = "raw"
         \/ at \in {"packetIn", "packetOut", "packetBye"} /\ s = "packet"
         \/ at = "refused" /\ s = "rejected"
  BY ObservedTable DEF Due, Observing, TheRecord
<1>2. CASE at \in {"rawIn", "packetIn"}
  <2>1. p \in Arrivals /\ Position(p) <= Taken
    BY <1>1, <1>2 DEF Kept, AllIInv, OrderIInv, Placed, InHand
  <2>2. Position(p) \in Int /\ Taken \in Int
    BY <2>1, Positions, TakenIs DEF Kept, AllIInv, OrderIInv
  <2>3. ~FreshArrival(s, p)
    BY <1>1, <1>2, <2>1, <2>2 DEF FreshArrival
  <2> QED
    BY <2>1, <2>3, Apart DEF Fresh
<1>3. CASE at \in {"rawOut", "packetOut", "refused"}
  <2>1. p \in Writes /\ at \in OnWrite
    BY <1>1, <1>3 DEF Kept, AllIInv, WriteIInv, PumpIInv, OnWrite
  <2>2. call[p] \in {"waiting", "returned"}
    BY <1>1, <2>1 DEF Kept, AllIInv, WriteIInv, CallIInv
  <2>3. ~FreshWrite(s, p)
    BY <1>1, <1>3, <2>2 DEF FreshWrite
  <2> QED
    BY <2>1, <2>3, Apart DEF Fresh
<1>4. CASE at \in {"rawBye", "packetBye"}
  <2>1. p = Bye /\ shutdown \notin {"idle", "sending"}
    BY <1>1, <1>4 DEF Kept, KeptIInv, ByeOnce, ByeRecords
  <2>2. ~FreshBye(s)
    BY <1>1, <1>4, <2>1 DEF FreshBye
  <2> QED
    BY <2>1, <2>2, Apart DEF Fresh
<1> QED
  BY <1>1, <1>2, <1>3, <1>4

(* The coordinator leaves an observation point, for the next one or for none.  *)
LEMMA ObservedMovesOn ==
  ASSUME Kept, Observing, UNCHANGED <<current, call, shutdown, Taken>>,
         at' = Observed[at].then \/ at' \notin RecordPoints
  PROVE  /\ \A s \in Stages, p \in Packets :
              /\ Fresh(s, p)' => Fresh(s, p)
              /\ Due(<<s, p>>)' => Fresh(s, p)
         /\ ByeOnce'
<1>1. \/ at = "rawIn" /\ current \in Arrivals
      \/ at = "packetIn"
      \/ at = "rawOut" /\ current \in Writes
      \/ at \in {"packetOut", "refused"}
      \/ at = "rawBye" /\ current = Bye /\ shutdown \notin {"idle", "sending"}
      \/ at = "packetBye"
  BY DEF Observing, Observed, Kept, KeptIInv, ByeOnce, ByeRecords, AllIInv, OrderIInv, Placed,
         InHand, WriteIInv, PumpIInv, OnWrite
<1>2. \/ at' \notin RecordPoints \/ at' = "enqueue"
      \/ at = "rawIn" /\ at' = "decode"
      \/ at = "rawOut" /\ at' = "packetOut"
      \/ at = "rawBye" /\ at' = "packetBye"
      \/ at' \in {"confirm", "refuse", "bye"}
  BY <1>1, ObservedTable
<1>3. ASSUME NEW s \in Stages, NEW p \in Packets
      PROVE  /\ Fresh(s, p)' => Fresh(s, p)
             /\ Due(<<s, p>>)' => Fresh(s, p)
  <2>1. FreshArrival(s, p)' => FreshArrival(s, p)
    BY <1>2 DEF FreshArrival, RecordPoints
  <2>2. FreshWrite(s, p)' => FreshWrite(s, p)
    BY <1>2 DEF FreshWrite, RecordPoints
  <2>3. FreshBye(s)' => FreshBye(s)
    BY <1>2 DEF FreshBye, RecordPoints
  <2>4. Fresh(s, p)' <=> \/ p \in Arrivals /\ FreshArrival(s, p)'
                         \/ p \in Writes /\ FreshWrite(s, p)'
                         \/ p = Bye /\ FreshBye(s)'
    BY DEF Fresh
  <2>5. Fresh(s, p)' => Fresh(s, p)
    BY <2>1, <2>2, <2>3, <2>4 DEF Fresh
  <2>6. Due(<<s, p>>)' => \/ at = "rawOut" /\ s = "packet" /\ current = p
                          \/ at = "rawBye" /\ s = "packet" /\ current = p
    BY <1>2, DueAfter DEF RecordPoints
  <2>7. Due(<<s, p>>)' => Fresh(s, p)
    BY <1>1, <2>6 DEF Fresh, FreshWrite, FreshBye
  <2> QED
    BY <2>5, <2>7
<1>4. ByeOnce'
  BY <1>1, <1>2 DEF ByeOnce, ByeRecords, RecordPoints
<1> QED
  BY <1>3, <1>4

(* The steps that are about one record leave the others alone.                 *)
OtherRecordsAlone(q) == \A r \in Records : r # q => RecordAlone(r)

LEMMA OneRecordMoves ==
  ASSUME Kept, NEW q \in Records, OtherRecordsAlone(q), RecordKept(q)'
  PROVE  \A r \in Records : RecordKept(r)'
BY RecordAloneKeeps DEF Kept, KeptIInv, OtherRecordsAlone

LEMMA OtherRecordsOf ==
  ASSUME Sound, NEW q \in Records, Called(q)
  PROVE  \A r \in Records : r # q => Settled(r)
BY CallSettles, Apart DEF Others

LEMMA ObserveReservesKeepsRecords ==
  ASSUME Kept, ObserveReserves
  PROVE  (\A r \in Records : RecordKept(r)') /\ RecordsOnce' /\ ByeOnce'
<1>0. PICK q \in Records : q = TheRecord /\ Due(q)
  BY RecordIsOne DEF ObserveReserves
<1>1. /\ status[q] = "new" /\ Queued!Reserve(q) /\ Called(q)
      /\ UNCHANGED <<at, current, observations, dispatcher, record, reader, framed, call,
                     shutdown>>
  BY <1>0, RecordsCalled
     DEF ObserveReserves, CoordinatorRest, dispatch, readPump, Called, endCall
<1>2. status'[q] \in {"waiting", "granted"}
  BY <1>1, Apart, CallsSettle DEF Kept
<1>3. \A r \in Records : r # q => Settled(r)
  BY <1>1, OtherRecordsOf DEF Kept
<1>4. \A r \in Records : (Handed(r)' <=> Handed(r)) /\ (Due(r)' <=> Due(r))
  BY <1>1 DEF Handed, InQueue, Due, Observing, TheRecord
<1>5. \A r \in Records : Fresh(r[1], r[2])' <=> Fresh(r[1], r[2])
  BY <1>1 DEF Fresh, FreshArrival, FreshWrite, FreshBye, Taken
<1>6. OtherRecordsAlone(q)
  BY <1>3, <1>4, <1>5 DEF OtherRecordsAlone, RecordAlone
<1>7. ~Fresh(q[1], q[2]) /\ ~Handed(q)
  <2>1. PICK s \in Stages, p \in Packets : q = <<s, p>>
    BY DEF Records
  <2>2. ~Fresh(s, p)
    BY <1>0, <2>1, DueIsNotFresh
  <2>3. RecordKept(q)
    BY DEF Kept, KeptIInv
  <2> QED
    BY <1>0, <2>1, <2>2, <2>3 DEF RecordKept
<1>8. RecordKept(q)'
  BY <1>0, <1>2, <1>4, <1>5, <1>7 DEF RecordKept, Undecided
<1>9. RecordsOnce' /\ ByeOnce'
  BY <1>1 DEF RecordsOnce, ByeOnce, Kept, KeptIInv, InQueue
<1> QED
  BY <1>6, <1>8, <1>9, OneRecordMoves

LEMMA ObserveQueuesKeepsRecords ==
  ASSUME Kept, ObserveQueues
  PROVE  (\A r \in Records : RecordKept(r)') /\ RecordsOnce' /\ ByeOnce'
<1>0. PICK q \in Records : q = TheRecord /\ Due(q)
  BY RecordIsOne DEF ObserveQueues
<1>1. /\ status[q] = "granted" /\ Observing /\ at' = Observed[at].then
      /\ observations' = Append(observations, q)
      /\ UNCHANGED <<current, dispatcher, record, reader, framed, call, shutdown, status>>
  BY <1>0 DEF ObserveQueues, CoordinatorRest, dispatch, readPump, endCall, budget
<1>2. UNCHANGED <<current, call, shutdown, Taken>>
  BY <1>1 DEF Taken
<1>3. /\ observations \in Seq(Records)
      /\ \A r : InQueue(Append(observations, q), r) <=> InQueue(observations, r) \/ r = q
  BY InQueueAppend DEF Kept, KeptIInv, RecordsOnce
<1>4. \A r \in Records : Handed(r)' <=> Handed(r) \/ r = q
  BY <1>1, <1>3 DEF Handed, InQueue
<1>5. RecordKept(q) /\ ~Handed(q)
  BY <1>0 DEF Kept, KeptIInv, RecordKept
<1>6. /\ \A s \in Stages, p \in Packets :
           (Fresh(s, p)' => Fresh(s, p)) /\ (Due(<<s, p>>)' => Fresh(s, p))
      /\ ByeOnce'
  BY <1>1, <1>2, ObservedMovesOn
<1>7. \A r \in Records : (Fresh(r[1], r[2])' => Fresh(r[1], r[2])) /\ (Due(r)' => Fresh(r[1], r[2]))
  BY <1>6 DEF Records
<1>8. ~Fresh(q[1], q[2])
  BY <1>0, DueIsNotFresh DEF Records
<1>9. \A r \in Records : Due(r) => r = q
  BY <1>0 DEF Due
<1>10. OtherRecordsAlone(q)
  BY <1>1, <1>4, <1>7, <1>9 DEF OtherRecordsAlone, RecordAlone, Settled
<1>11. RecordKept(q)'
  BY <1>1, <1>4, <1>7, <1>8 DEF RecordKept
<1>12. RecordsOnce'
  <2>1. observations' \in Seq(Records) /\ record' \in Records \cup {None}
    BY <1>1, <1>3 DEF Kept, KeptIInv, RecordsOnce
  <2>2. dispatcher' = "observing" => record' \in Records /\ ~InQueue(observations', record')
    BY <1>1, <1>3, <1>5 DEF Kept, KeptIInv, RecordsOnce, Handed
  <2>3. /\ Len(observations) \in Nat /\ Len(observations') = Len(observations) + 1
        /\ observations'[Len(observations) + 1] = q
        /\ \A k \in 1..Len(observations) : observations'[k] = observations[k]
    BY <1>1, <1>3
  <2>4. \A k \in 1..Len(observations) : observations[k] # q
    BY <1>5 DEF Handed, InQueue
  <2>5. \A k \in 1..Len(observations') : k \in 1..Len(observations) \/ k = Len(observations) + 1
    BY <2>3
  <2>6. \A j, k \in 1..Len(observations') : observations'[j] = observations'[k] => j = k
    BY <2>3, <2>4, <2>5 DEF Kept, KeptIInv, RecordsOnce
  <2>7. (dispatcher' = "observing") <=> (dispatcher = "observing")
    BY <1>1
  <2>8. InQueue(observations', record') <=> InQueue(observations, record)'
    BY DEF InQueue
  <2> QED
    BY <2>1, <2>2, <2>6, <2>8 DEF RecordsOnce
<1> QED
  BY <1>6, <1>10, <1>11, <1>12, OneRecordMoves

LEMMA ObserveFailsKeepsRecords ==
  ASSUME Kept, ObserveFails
  PROVE  (\A r \in Records : RecordKept(r)') /\ RecordsOnce' /\ ByeOnce'
<1>0. PICK q \in Records : q = TheRecord /\ Due(q)
  BY RecordIsOne DEF ObserveFails
<1>1. /\ Observing /\ Called(q)
      /\ Queued!Refuse(q) \/ (status[q] \in {"waiting", "granted", "refused"} /\ Queued!Cancel(q))
      /\ UNCHANGED <<current, observations, dispatcher, record, reader, framed, call, shutdown>>
  BY <1>0, RecordsCalled
     DEF ObserveFails, CoordinatorRest, dispatch, readPump, endCall, Called
<1>2. at' = Observed[at].then \/ at' \notin RecordPoints
  BY <1>1, ObservedTable DEF ObserveFails, ObserveError, RecordPoints
<1>3. UNCHANGED <<current, call, shutdown, Taken>>
  BY <1>1 DEF Taken
<1>4. status'[q] \in {"cancelled", "refused"}
  BY <1>1, Apart, CallsSettle DEF Kept
<1>5. \A r \in Records : r # q => Settled(r)
  BY <1>1, OtherRecordsOf DEF Kept
<1>6. /\ \A s \in Stages, p \in Packets :
           (Fresh(s, p)' => Fresh(s, p)) /\ (Due(<<s, p>>)' => Fresh(s, p))
      /\ ByeOnce'
  BY <1>1, <1>2, <1>3, ObservedMovesOn
<1>7. \A r \in Records : (Fresh(r[1], r[2])' => Fresh(r[1], r[2])) /\ (Due(r)' => Fresh(r[1], r[2]))
  BY <1>6 DEF Records
<1>8. ~Fresh(q[1], q[2])
  BY <1>0, DueIsNotFresh DEF Records
<1>9. \A r \in Records : Due(r) => r = q
  BY <1>0 DEF Due
<1>10. \A r \in Records : Handed(r)' <=> Handed(r)
  BY <1>1 DEF Handed, InQueue
<1>11. ~Handed(q)
  BY <1>0 DEF Kept, KeptIInv, RecordKept
<1>12. OtherRecordsAlone(q)
  BY <1>5, <1>7, <1>9, <1>10 DEF OtherRecordsAlone, RecordAlone
<1>13. RecordKept(q)'
  BY <1>4, <1>7, <1>8, <1>10, <1>11 DEF RecordKept, Idle
<1>14. RecordsOnce'
  BY <1>1 DEF RecordsOnce, Kept, KeptIInv, InQueue
<1> QED
  BY <1>6, <1>12, <1>13, <1>14, OneRecordMoves

LEMMA SinkReturnsKeepsRecords ==
  ASSUME Kept, SinkReturns
  PROVE  (\A r \in Records : RecordKept(r)') /\ RecordsOnce' /\ ByeOnce'
<1>0. PICK q \in Records : q = record /\ Queued!GiveBack(q)
  BY RecordsCalled
<1>1. /\ dispatcher = "observing" /\ dispatcher' \in {"idle", "failing"} /\ Called(q)
      /\ UNCHANGED <<at, current, observations, record, reader, framed, call, shutdown>>
  BY <1>0 DEF SinkReturns, DispatchRest, readPump, endCall, Called, writeCalls
<1>2. status'[q] = "released"
  BY <1>0, Apart, CallsSettle DEF Kept, Queued!GiveBack
<1>3. \A r \in Records : r # q => Settled(r)
  BY <1>1, OtherRecordsOf DEF Kept
<1>4. \A r \in Records : Fresh(r[1], r[2])' <=> Fresh(r[1], r[2])
  BY <1>1 DEF Fresh, FreshArrival, FreshWrite, FreshBye, Taken
<1>5. \A r \in Records : Due(r)' <=> Due(r)
  BY <1>1 DEF Due, Observing, TheRecord
<1>6. Handed(q) /\ ~InQueue(observations, q)
  BY <1>0, <1>1 DEF Handed, Kept, KeptIInv, RecordsOnce
<1>7. \A r \in Records : Handed(r)' <=> Handed(r) /\ r # q
  BY <1>0, <1>1, <1>6 DEF Handed, InQueue
<1>8. ~Due(q) /\ ~Fresh(q[1], q[2])
  BY <1>6 DEF Kept, KeptIInv, RecordKept
<1>9. OtherRecordsAlone(q)
  BY <1>3, <1>4, <1>5, <1>7 DEF OtherRecordsAlone, RecordAlone
<1>10. RecordKept(q)'
  BY <1>2, <1>4, <1>5, <1>7, <1>8 DEF RecordKept, Idle
<1>11. RecordsOnce' /\ ByeOnce'
  BY <1>1 DEF RecordsOnce, ByeOnce, Kept, KeptIInv, InQueue
<1> QED
  BY <1>9, <1>10, <1>11, OneRecordMoves

LEMMA TakeRecordKeepsRecords ==
  ASSUME Kept, TakeRecord
  PROVE  (\A r \in Records : RecordKept(r)') /\ RecordsOnce' /\ ByeOnce'
<1>1. /\ dispatcher = "idle" /\ dispatcher' = "observing" /\ observations # <<>>
      /\ record' = Head(observations) /\ observations' = Tail(observations)
      /\ observations \in Seq(Records)
      /\ UNCHANGED <<at, current, reader, framed, call, shutdown>> /\ UNCHANGED budget
  BY DEF TakeRecord, DispatchRest, readPump, endCall, writeCalls, Kept, KeptIInv, RecordsOnce
<1>2. /\ Len(observations) \in Nat \ {0} /\ record' = observations[1]
      /\ Len(observations') = Len(observations) - 1
      /\ \A k \in 1..(Len(observations) - 1) : observations'[k] = observations[k + 1]
      /\ record' \in Records /\ observations' \in Seq(Records)
  BY <1>1, EmptySeq, HeadTailProperties
<1>3. /\ 1 \in 1..Len(observations)
      /\ \A k \in 1..Len(observations) :
           k = 1 \/ (k - 1 \in 1..(Len(observations) - 1) /\ (k - 1) + 1 = k)
      /\ \A k \in 1..(Len(observations) - 1) : k + 1 \in 1..Len(observations) /\ k + 1 # 1
  BY <1>2
<1>4. ASSUME NEW r
      PROVE  InQueue(observations, r)
               <=> r = record' \/ \E k \in 1..(Len(observations) - 1) : observations'[k] = r
  <2>1. r = record' \/ (\E k \in 1..(Len(observations) - 1) : observations'[k] = r)
          => InQueue(observations, r)
    BY <1>2, <1>3 DEF InQueue
  <2>2. ASSUME NEW k \in 1..Len(observations), observations[k] = r, k # 1
        PROVE  \E j \in 1..(Len(observations) - 1) : observations'[j] = r
    BY <1>2, <1>3, <2>2
  <2> QED
    BY <1>2, <2>1, <2>2 DEF InQueue
<1>5. \A r \in Records : Handed(r)' <=> Handed(r)
  BY <1>1, <1>2, <1>4 DEF Handed, InQueue
<1>6. \A r \in Records : (Fresh(r[1], r[2])' <=> Fresh(r[1], r[2])) /\ (Due(r)' <=> Due(r))
  BY <1>1 DEF Fresh, FreshArrival, FreshWrite, FreshBye, Taken, Due, Observing, TheRecord
<1>7. \A r \in Records : Settled(r)
  BY <1>1, BudgetStill, Apart DEF Still
<1>8. \A r \in Records : RecordAlone(r)
  BY <1>5, <1>6, <1>7 DEF RecordAlone
<1>9. \A j, k \in 1..Len(observations) : observations[j] = observations[k] => j = k
  BY DEF Kept, KeptIInv, RecordsOnce
<1>10. \A k \in 1..(Len(observations) - 1) : observations'[k] # record'
  BY <1>2, <1>3, <1>9
<1>11. \A j, k \in 1..(Len(observations) - 1) : observations'[j] = observations'[k] => j = k
  <2> SUFFICES ASSUME NEW j \in 1..(Len(observations) - 1), NEW k \in 1..(Len(observations) - 1),
                      observations'[j] = observations'[k]
               PROVE  j = k
    OBVIOUS
  <2>1. j + 1 = k + 1
    BY <1>2, <1>3, <1>9
  <2> QED
    BY <1>2, <2>1
<1>12. RecordsOnce' /\ ByeOnce'
  BY <1>1, <1>2, <1>10, <1>11 DEF RecordsOnce, ByeOnce, Kept, KeptIInv, InQueue
<1> QED
  BY <1>8, <1>12, RecordAloneKeeps DEF Kept, KeptIInv

LEMMA NextKeepsRecords ==
  ASSUME Kept, [Next]_vars
  PROVE  (\A r \in Records : RecordKept(r)') /\ RecordsOnce' /\ ByeOnce'
BY RecordsAreAlone, RecordsNearKeeps, PumpsLeaveRecords, CoordinatorLeavesRecords,
   CallersLeaveRecords, ArrivalsNearRecords, WritesNearRecords, ByeNearRecords,
   ObserveReservesKeepsRecords, ObserveQueuesKeepsRecords, ObserveFailsKeepsRecords,
   SinkReturnsKeepsRecords, TakeRecordKeepsRecords
   DEF Next, System, User, Coordinate, Dispatch

-----------------------------------------------------------------------------
(* The arrivals that are dropped: what is left to read stops before them.       *)
LEMMA DropStays ==
  ASSUME Kept,
         reading' = "releasing" => \/ delivered' # <<>>
                                   \/ reading = "releasing" /\ delivered' = delivered,
         \/ at' \notin Parked
         \/ /\ at' = at /\ current' = current /\ pending' = pending
            /\ ToRead' = ToRead /\ Taken' \in Int /\ Taken' >= Taken
  PROVE  ArrivalsOnce'
<1>1. ArrivalsOnce /\ Taken \in Int /\ \A p \in Arrivals : Position(p) \in Int
  BY Positions, TakenIs DEF Kept, KeptIInv, AllIInv, OrderIInv
<1>2. reading' = "releasing" => delivered' # <<>>
  BY <1>1 DEF ArrivalsOnce
<1>3. CASE at' \notin Parked
  BY <1>2, <1>3 DEF ArrivalsOnce, Parked, Dropping
<1>4. CASE /\ at' = at /\ current' = current /\ pending' = pending
           /\ ToRead' = ToRead /\ Taken' \in Int /\ Taken' >= Taken
  <2>1. at' \in {"withdraw", "handOff"} => current' = pending'
    BY <1>1, <1>4 DEF ArrivalsOnce
  <2>2. ASSUME at' \in {"discard", "discardLast"}
        PROVE  /\ pending' = None /\ current' \in Arrivals
               /\ (Position(current) <= Taken)' /\ UpTo(ToRead, Position(current) - 1)'
    <3>1. PICK q \in Arrivals : q = current
      BY <1>1, <1>4, <2>2 DEF ArrivalsOnce
    <3>2. pending = None /\ Position(q) <= Taken /\ UpTo(ToRead, Position(q) - 1)
      BY <1>1, <1>4, <2>2, <3>1 DEF ArrivalsOnce
    <3>3. Position(q) <= Taken'
      BY <1>1, <1>4, <3>2
    <3>4. current' = q
      BY <1>4, <3>1
    <3> QED
      BY <1>4, <3>2, <3>3, <3>4 DEF UpTo
  <2> QED
    BY <1>2, <2>1, <2>2 DEF ArrivalsOnce
<1> QED
  BY <1>3, <1>4

LEMMA OrderLeavesDrops ==
  ASSUME Kept,
         \/ StopGoesOn \/ PeerSends \/ PeerHangsUp \/ WriteReaches \/ WriteReturns
         \/ WriterExits \/ Dispatch \/ ReadEnds \/ PendingRefused
         \/ ObserveReserves \/ ObserveQueues \/ ObserveFails
         \/ (\E w \in Writes : TakeWrite(w))
         \/ Encode \/ Refuse \/ GiveJob \/ FinishWrite \/ Confirm \/ ReleaseWrite
         \/ TakeShutdown \/ GiveBye \/ AwaitBye \/ FinishShutdown
         \/ CoordinatorReturns \/ Linger \/ LingerEnds \/ RunStops \/ Finish
         \/ ShutdownStarts \/ ShutdownReturns \/ AbortShutdown \/ CloseCalled
         \/ ContextEnds \/ WatchContext
         \/ \E w \in Writes : WriteProceeds(w) \/ WriteStarts(w) \/ WriteCancelled(w)
  PROVE  ArrivalsOnce'
<1>1. /\ OrderTyped /\ OrderAlone
      /\ reading' = "releasing" <=> reading = "releasing"
      /\ at \in Parked \/ at' \in Parked => at' = at /\ current' = current
  BY OrderIsLeft
<1>2. ToRead' = ToRead /\ Taken' = Taken /\ delivered' = delivered /\ pending' = pending
  BY <1>1 DEF OrderAlone, ToRead, Taken
<1>3. Taken \in Int
  BY <1>1, TakenIs
<1> QED
  BY <1>1, <1>2, <1>3, DropStays

LEMMA ReadersLeaveDrops ==
  ASSUME Kept, ReadPump \/ ReadTakes \/ ReadReleases \/ UNCHANGED vars
  PROVE  ArrivalsOnce'
<1>0. OrderTyped /\ Taken \in Int
  BY TakenIs DEF Kept, AllIInv, OrderIInv
<1>1. CASE ReadPump
  <2>1. UNCHANGED <<reading, delivered, inboundPackets, pending, at, current>>
    BY <1>1 DEF ReadPump, AcquireProcessing, ReadFrame, ReadFails, ReaderGivesUp, ReaderRest,
                readCall
  <2>2. Taken' \in Int /\ Taken' >= Taken
    BY <1>0, <1>1, PumpTakes
  <2>3. ToRead' = ToRead
    BY <2>1 DEF ToRead
  <2> QED
    BY <2>1, <2>2, <2>3, DropStays
<1>2. CASE ReadTakes
  <2>1. /\ UNCHANGED <<framed, reader, sent, decoded, stopPhase, pending, at, current>>
        /\ inboundPackets # <<>>
        /\ delivered' = Append(delivered, Head(inboundPackets))
        /\ inboundPackets' = Tail(inboundPackets)
    BY <1>2 DEF ReadTakes, ReadRest, readPump, peer, session, ending
  <2>2. /\ delivered \in Seq(Arrivals) /\ inboundPackets \in Seq(Arrivals)
        /\ Head(inboundPackets) \in Arrivals /\ Tail(inboundPackets) \in Seq(Arrivals)
    BY <1>0, <2>1, HeadTailProperties DEF OrderTyped
  <2>3. ToRead' = ToRead
    BY <2>1, <2>2, TakeHead DEF ToRead
  <2>4. delivered' # <<>>
    BY <2>1, <2>2
  <2>5. Taken' = Taken
    BY <2>1 DEF Taken
  <2> QED
    BY <1>0, <2>1, <2>3, <2>4, <2>5, DropStays
<1>3. CASE ReadReleases
  <2>1. /\ UNCHANGED <<delivered, inboundPackets, framed, reader, pending, at, current>>
        /\ reading' = "idle"
    BY <1>3 DEF ReadReleases, ReadRest, readPump
  <2>2. ToRead' = ToRead /\ Taken' = Taken
    BY <2>1 DEF ToRead, Taken
  <2> QED
    BY <1>0, <2>1, <2>2, DropStays
<1>4. CASE UNCHANGED vars
  <2>1. UNCHANGED <<reading, delivered, inboundPackets, framed, reader, pending, at, current>>
    BY <1>4 DEF vars, readPump, readCall
  <2>2. ToRead' = ToRead /\ Taken' = Taken
    BY <2>1 DEF ToRead, Taken
  <2> QED
    BY <1>0, <2>1, <2>2, DropStays
<1> QED
  BY <1>1, <1>2, <1>3, <1>4

LEMMA InboundKeepsDrops ==
  ASSUME Kept,
         \/ TakeFrame \/ Decode \/ Enqueue \/ Discard
         \/ Deliver \/ NoticeStop \/ Withdraw \/ HandOff
  PROVE  ArrivalsOnce'
<1>0. OrderTyped /\ Taken \in Int /\ Ascending(ToRead) /\ UpTo(ToRead, Taken)
  BY TakenIs DEF Kept, AllIInv, OrderIInv, Placed
<1>1. UNCHANGED <<reading, delivered>>
  BY DEF TakeFrame, Decode, Enqueue, Discard, Deliver, NoticeStop, Withdraw, HandOff,
         InboundRest, readCall
<1>2. reading' = "releasing" => delivered' # <<>>
  BY <1>1 DEF Kept, KeptIInv, ArrivalsOnce
<1>3. CASE at' \notin Parked
  BY <1>1, <1>3, DropStays
<1>4. CASE at' \in Parked /\ Enqueue
  <2>1. /\ at = "enqueue" /\ at' = "discard"
        /\ UNCHANGED <<pending, inboundPackets, current, reader, framed>>
    BY <1>4 DEF Enqueue, DeliverArrival, InboundRest, Parked, Dropping
  <2>2. PICK q \in Arrivals : q = current
    BY <2>1 DEF Kept, AllIInv, OrderIInv, Placed, InHand
  <2>3. pending = None /\ Position(q) <= Taken /\ UpTo(ToRead, Position(q) - 1)
    BY <2>1, <2>2 DEF Kept, AllIInv, OrderIInv, Placed, InHand
  <2>4. ToRead' = ToRead /\ Taken' = Taken /\ current' = q /\ pending' = None
    BY <1>1, <2>1, <2>2, <2>3 DEF ToRead, Taken
  <2>5. (Position(current) <= Taken)' /\ UpTo(ToRead, Position(current) - 1)'
    BY <2>3, <2>4 DEF UpTo
  <2> QED
    BY <1>2, <2>1, <2>4, <2>5 DEF ArrivalsOnce
<1>5. CASE at' \in Parked /\ NoticeStop
  <2>1. at' \in {"withdraw", "handOff"} /\ current' = pending'
    BY <1>5 DEF NoticeStop, Parked, Dropping
  <2> QED
    BY <1>2, <2>1 DEF ArrivalsOnce
<1>6. CASE at' \in Parked /\ Withdraw
  <2>1. at' = "handOff" /\ current' = pending'
    BY <1>6 DEF Withdraw, Kept, KeptIInv, ArrivalsOnce
  <2> QED
    BY <1>2, <2>1 DEF ArrivalsOnce
<1>7. CASE at' \in Parked /\ HandOff
  <2>1. /\ at = "handOff" /\ at' = "discardLast" /\ pending' = None
        /\ UNCHANGED <<inboundPackets, current, reader, framed>>
    BY <1>7 DEF HandOff, DeliverArrival, InboundRest, Parked, Dropping
  <2>2. PICK q \in Arrivals : q = pending
    BY <1>7, ArrivalsCalled
  <2>3. current = q /\ pending # None
    BY <2>1, <2>2, Apart DEF Kept, KeptIInv, ArrivalsOnce
  <2>4. Position(q) <= Taken /\ UpTo(Queue, Position(q) - 1)
    BY <1>0, <2>2, <2>3, ReadOnce DEF Readable
  <2>5. OrderTyped'
    BY <1>7, HandOffKeepsOrder DEF Kept, AllIInv, OrderIInv
  <2>6. Queue' = Queue /\ Taken' = Taken
    BY <1>1, <2>1 DEF Queue, Taken
  <2>7. ToRead' = Queue
    BY <2>1, <2>5, <2>6, ToReadKeepsShape DEF ToReadShape
  <2>8. current' = q
    BY <2>1, <2>3
  <2>9. (Position(current) <= Taken)' /\ UpTo(ToRead, Position(current) - 1)'
    BY <2>4, <2>6, <2>7, <2>8 DEF UpTo
  <2> QED
    BY <1>2, <2>1, <2>8, <2>9 DEF ArrivalsOnce
<1>8. TakeFrame \/ Decode \/ Discard \/ Deliver => at' \notin Parked
  BY DEF TakeFrame, Decode, Discard, Deliver, Observe, Parked, Dropping
<1> QED
  BY <1>3, <1>4, <1>5, <1>6, <1>7, <1>8

LEMMA NextKeepsDrops ==
  ASSUME Kept, [Next]_vars
  PROVE  ArrivalsOnce'
BY OrderLeavesDrops, ReadersLeaveDrops, InboundKeepsDrops
   DEF Next, System, User, Coordinate

-----------------------------------------------------------------------------
(* Every step of the stream is a step of the budget, or none.                  *)
LEMMA CalledIsStep ==
  ASSUME NEW r \in Reservations, Called(r)
  PROVE  Queued!Next
BY DEF Called, Queued!Next

LEMMA OutsideStepsBudget ==
  \/ StopGoesOn \/ PeerSends \/ PeerHangsUp \/ ReadPump
  \/ WriteReaches \/ WriteReturns \/ WriterExits
  \/ TakeRecord \/ SinkFailure \/ StartDrain \/ DispatcherExits
  \/ ReadTakes \/ ReadEnds
  \/ ShutdownStarts \/ ShutdownReturns \/ AbortShutdown \/ CloseCalled
  \/ ContextEnds \/ WatchContext
  => Queued!Next \/ UNCHANGED budget
<1>1. StopGoesOn => Queued!Next \/ UNCHANGED budget
  BY DEF StopGoesOn, Queued!Next
<1>2. PeerSends \/ PeerHangsUp \/ ReadPump => UNCHANGED budget
  BY DEF PeerSends, PeerHangsUp, ReadPump, AcquireProcessing, ReadFrame, ReadFails,
         ReaderGivesUp, ReaderRest
<1>3. WriteReaches \/ WriteReturns \/ WriterExits => UNCHANGED budget
  BY DEF WriteReaches, WriteReturns, WriterExits, WriterRest
<1>4. TakeRecord \/ SinkFailure \/ StartDrain \/ DispatcherExits \/ ReadTakes \/ ReadEnds
        => UNCHANGED budget
  BY DEF TakeRecord, SinkFailure, StartDrain, DispatcherExits, ReadTakes, ReadEnds
<1>5. \/ ShutdownStarts \/ ShutdownReturns \/ AbortShutdown \/ CloseCalled
      \/ ContextEnds \/ WatchContext
      => UNCHANGED budget
  BY DEF ShutdownStarts, ShutdownReturns, AbortShutdown, CloseCalled, ContextEnds,
         WatchContext, EndRest
<1> QED
  BY <1>1, <1>2, <1>3, <1>4, <1>5

LEMMA CoordinatorStepsBudget ==
  \/ TakeFrame \/ Decode \/ Deliver \/ PendingRefused \/ NoticeStop \/ ObserveQueues
  \/ (\E w \in Writes : TakeWrite(w))
  \/ Encode \/ Refuse \/ GiveJob \/ FinishWrite \/ Confirm
  \/ TakeShutdown \/ GiveBye \/ AwaitBye \/ FinishShutdown
  \/ CoordinatorReturns \/ Linger \/ LingerEnds \/ RunStops \/ Finish
  => UNCHANGED budget
<1>1. TakeFrame \/ Decode \/ Deliver \/ PendingRefused \/ NoticeStop \/ ObserveQueues
        => UNCHANGED budget
  BY DEF TakeFrame, Decode, Deliver, PendingRefused, NoticeStop, ObserveQueues
<1>2. \/ (\E w \in Writes : TakeWrite(w))
      \/ Encode \/ Refuse \/ GiveJob \/ FinishWrite \/ Confirm
      => UNCHANGED budget
  BY DEF TakeWrite, Encode, Refuse, GiveJob, FinishWrite, Confirm
<1>3. \/ TakeShutdown \/ GiveBye \/ AwaitBye \/ FinishShutdown
      \/ CoordinatorReturns \/ Linger \/ LingerEnds \/ RunStops \/ Finish
      => UNCHANGED budget
  BY DEF TakeShutdown, GiveBye, AwaitBye, FinishShutdown, CoordinatorReturns, Linger,
         LingerEnds, RunStops, Finish, ByeRest, RunRest
<1> QED
  BY <1>1, <1>2, <1>3

LEMMA CallsStepBudget ==
  ASSUME Kept,
         \/ Enqueue \/ Discard \/ Withdraw \/ HandOff \/ ReadReleases \/ ReleaseWrite
         \/ ObserveReserves \/ ObserveFails \/ SinkReturns
         \/ \E w \in Writes : WriteProceeds(w) \/ WriteStarts(w) \/ WriteCancelled(w)
  PROVE  Queued!Next \/ UNCHANGED budget
<1>1. Enqueue \/ Discard \/ Withdraw \/ HandOff \/ ReadReleases => Queued!Next
  BY ArrivalsCalled, CalledIsStep, Apart DEF Called
<1>2. ReleaseWrite => Queued!Next
  BY WritesCalled, CalledIsStep, Apart DEF Called
<1>3. ObserveReserves \/ ObserveFails \/ SinkReturns => Queued!Next
  BY RecordsCalled, CalledIsStep, Apart DEF Called
<1>4. ASSUME NEW w \in Writes, WriteProceeds(w) \/ WriteStarts(w) \/ WriteCancelled(w)
      PROVE  Queued!Next \/ UNCHANGED budget
  <2>1. w \in Reservations
    BY Apart
  <2>2. WriteReserves(w) \/ WriteRejected(w) => Called(w)
    BY WritesCalled DEF Called
  <2>3. WriteCancelled(w) => Called(w) \/ UNCHANGED budget
    BY WritesCalled DEF Called
  <2>4. WriteStarts(w) \/ WriteAcquires(w) \/ WriteAnswered(w) => UNCHANGED budget
    BY DEF WriteStarts, WriteAcquires, WriteAnswered
  <2> QED
    BY <1>4, <2>1, <2>2, <2>3, <2>4, CalledIsStep DEF WriteProceeds
<1> QED
  BY <1>1, <1>2, <1>3, <1>4

LEMMA NextStepsBudget ==
  ASSUME Kept, [Next]_vars
  PROVE  [Queued!Next]_(Queued!vars)
<1>1. UNCHANGED budget => UNCHANGED Queued!vars
  BY DEF budget, Queued!vars
<1>2. UNCHANGED vars => UNCHANGED budget
  BY DEF vars
<1>3. Queued!Next \/ UNCHANGED budget
  BY <1>2, OutsideStepsBudget, CoordinatorStepsBudget, CallsStepBudget
     DEF Next, System, User, Coordinate, Dispatch
<1> QED
  BY <1>1, <1>3

LEMMA NextKeepsKept == Kept /\ [Next]_vars => Kept'
<1> SUFFICES ASSUME Kept, [Next]_vars PROVE Kept'
  OBVIOUS
<1>1. Sound'
  BY NextStepsBudget, NextKeepsSound DEF Kept
<1>2. AllIInv'
  BY OrderNext, NextKeepsWrites, SessionNext DEF Kept, AllIInv
<1>3. KeptIInv'
  BY NextKeepsArrivals, NextKeepsCalls, NextKeepsRecords, NextKeepsDrops DEF KeptIInv
<1> QED
  BY <1>1, <1>2, <1>3 DEF Kept

LEMMA InitKept == Init => Kept
<1> SUFFICES ASSUME Init PROVE Kept
  OBVIOUS
<1>1. Sound
  BY InitSound DEF Init
<1>2. AllIInv
  BY OrderInit, InitWrites, SessionInit DEF AllIInv
<1>3. /\ status = [r \in Reservations |-> "new"] /\ at = "select" /\ framed = 0
      /\ reader = "acquire" /\ call = [w \in Writes |-> "idle"] /\ shutdown = "idle"
      /\ observations = <<>> /\ record = None /\ dispatcher \in {"idle", "exited"}
      /\ inboundPackets = <<>> /\ reading = "idle" /\ pending = None
  BY DEF Init, Queued!Init
<1>4. \A p : ~InQueue(<<>>, p)
  BY DEF InQueue
<1>5. RecordsOnce /\ ArrivalsOnce /\ ByeOnce
  BY <1>3, <1>4 DEF RecordsOnce, ArrivalsOnce, ByeOnce, ByeRecords
<1>6. ASSUME NEW p \in Arrivals PROVE ArrivalKept(p)
  BY <1>3, <1>4, Apart DEF ArrivalKept, Stored, Idle
<1>7. ASSUME NEW w \in Writes PROVE WriteKept(w)
  BY <1>3, Apart DEF WriteKept, Served, OnWrite
<1>8. ASSUME NEW r \in Records PROVE RecordKept(r)
  BY <1>3, <1>4, Apart, ObservedTable DEF RecordKept, Due, Handed, Observing, Idle
<1> QED
  BY <1>1, <1>2, <1>5, <1>6, <1>7, <1>8 DEF Kept, KeptIInv

(* The goroutines of a stream keep the protocol of its budget: nothing is        *)
(* reserved twice, cancelled by another than its owner, charged while it is held *)
(* or returned twice (stream_budget.go:94-95), whatever stops the stream.       *)
THEOREM SpecKeepsBudgetProtocol == Spec => KeepsBudgetProtocol
<1>1. Init => Queued!Init
  BY DEF Init
<1> QED
  BY <1>1, InitKept, NextKeepsKept, NextStepsBudget, PTL
     DEF Spec, KeepsBudgetProtocol, Queued!Spec

-----------------------------------------------------------------------------
(* What is kept is what is charged for.                                       *)
LEMMA NoneIsMisplaced ==
  ASSUME Kept, NEW r \in Reservations
  PROVE  /\ InQueue(inboundPackets, r) => r \in Arrivals
         /\ reading = "releasing" /\ Last(delivered) = r => r \in Arrivals
         /\ at \in {"discard", "discardLast"} /\ current = r => r \in Arrivals
         /\ at \in OnWrite /\ current = r => r \in Writes
         /\ InQueue(observations, r) => r \in Records
         /\ dispatcher = "observing" /\ record = r => r \in Records
         /\ Observing /\ TheRecord = r => r \in Records
<1>0. OrderTyped /\ RecordsOnce /\ ArrivalsOnce /\ PumpIInv
  BY DEF Kept, KeptIInv, AllIInv, OrderIInv, WriteIInv
<1>1. InQueue(inboundPackets, r) => r \in Arrivals
  BY <1>0, ElementOfSeq DEF OrderTyped, InQueue
<1>2. reading = "releasing" /\ Last(delivered) = r => r \in Arrivals
  <2> SUFFICES ASSUME reading = "releasing", Last(delivered) = r PROVE r \in Arrivals
    OBVIOUS
  <2>1. delivered # <<>> /\ delivered \in Seq(Arrivals)
    BY <1>0 DEF ArrivalsOnce, OrderTyped
  <2>2. Len(delivered) \in 1..Len(delivered) /\ Last(delivered) = delivered[Len(delivered)]
    BY <2>1, EmptySeq DEF Last
  <2> QED
    BY <2>1, <2>2, ElementOfSeq
<1>3. InQueue(observations, r) => r \in Records
  BY <1>0, ElementOfSeq DEF RecordsOnce, InQueue
<1> QED
  BY <1>0, <1>1, <1>2, <1>3, RecordIsOne DEF ArrivalsOnce, RecordsOnce, PumpIInv

LEMMA KeptIsCharged == Kept => ChargedForRetained
<1> SUFFICES ASSUME Kept, NEW r \in Reservations
             PROVE  r \in Queued!Held <=> Retained(r)
  BY DEF ChargedForRetained
<1>1. r \in Queued!Held <=> status[r] \in {"granted", "charged"}
  BY DEF Queued!Held
<1>2. CASE r \in Arrivals
  <2>1. r \notin Writes /\ r \notin Records /\ ArrivalKept(r)
    BY <1>2, Apart DEF Kept, KeptIInv
  <2>2. Retained(r) <=> Stored(r) \/ (pending = r /\ status[r] = "granted")
    BY <2>1, NoneIsMisplaced DEF Retained, Stored
  <2>3. status[r] \in {"granted", "charged"}
          <=> Stored(r) \/ (pending = r /\ status[r] = "granted")
    BY <2>1 DEF ArrivalKept, Undecided, Idle
  <2> QED
    BY <1>1, <2>2, <2>3
<1>3. CASE r \in Writes
  <2>1. r \notin Arrivals /\ r \notin Records /\ WriteKept(r)
    BY <1>3, Apart DEF Kept, KeptIInv
  <2>2. /\ call[r] \in {"idle", "acquiring", "sending", "waiting", "returned"}
        /\ call[r] \in {"idle", "acquiring", "sending"} => ~Served(r)
    BY <1>3 DEF Kept, AllIInv, WriteIInv, CallTyped, CallIInv, Served
  <2>3. Retained(r) <=> \/ pending = r /\ status[r] = "granted"
                        \/ call[r] = "acquiring" /\ status[r] = "granted"
                        \/ call[r] = "sending"
                        \/ Served(r)
    BY <1>3, <2>1, NoneIsMisplaced DEF Retained, Served
  <2>4. status[r] \in {"granted", "charged"}
          <=> \/ call[r] = "acquiring" /\ status[r] = "granted"
              \/ call[r] = "sending"
              \/ Served(r)
    BY <2>1, <2>2 DEF WriteKept, Undecided, Idle
  <2> QED
    BY <1>1, <2>3, <2>4
<1>4. CASE r \in Records
  <2>1. r \notin Arrivals /\ r \notin Writes /\ RecordKept(r)
    BY <1>4, Apart DEF Kept, KeptIInv
  <2>2. Retained(r) <=> \/ pending = r /\ status[r] = "granted"
                        \/ Handed(r)
                        \/ Due(r) /\ status[r] = "granted"
    BY <2>1, NoneIsMisplaced DEF Retained, Handed, Due
  <2>3. status[r] \in {"granted", "charged"}
          <=> Handed(r) \/ (Due(r) /\ status[r] = "granted")
    BY <2>1 DEF RecordKept, Undecided, Idle
  <2> QED
    BY <1>1, <2>2, <2>3
<1> QED
  BY <1>2, <1>3, <1>4 DEF Reservations

(* Capacity for one more means room for one more: what is queued is held.        *)
LEMMA HeldHasRoom ==
  ASSUME Sound, NEW s \in Seq(Reservations), NEW q \in Reservations,
         status[q] \in {"granted", "charged"},
         \A k \in 1..Len(s) : status[s[k]] \in {"granted", "charged"} /\ s[k] # q,
         \A j, k \in 1..Len(s) : s[j] = s[k] => j = k,
         items <= QueueItems
  PROVE  Len(s) < QueueItems
<1>1. \A r \in Reservations : Need[r].items >= 1
  BY DEF Need
<1>2. \A k \in 1..Len(s) : s[k] \in Reservations
  BY ElementOfSeq
<1>3. q \in Counted!Held /\ \A k \in 1..Len(s) : s[k] \in Counted!Held /\ s[k] # q
  BY <1>2 DEF Counted!Held
<1>4. items \in Int /\ Len(s) < items
  BY <1>1, <1>3, NeedsAreNumbers, Counted!HeldOutnumber DEF Sound
<1>5. Len(s) \in Nat
  OBVIOUS
<1>6. QueueItems \in Nat
  BY StreamAssumption
<1> QED
  BY <1>4, <1>5, <1>6

PendingHasRoom ==
  pending # None /\ status[pending] = "granted" => Len(inboundPackets) < QueueItems

RecordHasRoom ==
  Observing /\ status[TheRecord] = "granted" => Len(observations) < QueueItems

LEMMA CoveredHasRoom ==
  ASSUME Kept, items <= QueueItems
  PROVE  PendingHasRoom /\ RecordHasRoom
<1>1. ASSUME pending # None, status[pending] = "granted"
      PROVE  Len(inboundPackets) < QueueItems
  <2>0. OrderTyped /\ Ascending(ToRead)
    BY DEF Kept, AllIInv, OrderIInv, Placed
  <2>1. PICK q \in Arrivals : q = pending
    BY <1>1, <2>0 DEF OrderTyped
  <2>2. inboundPackets \in Seq(Arrivals) /\ inboundPackets \in Seq(Reservations)
    BY <2>0, Apart, SeqMonotonic DEF OrderTyped
  <2>3. ~InQueue(inboundPackets, q)
    BY <1>1, <2>0, <2>1, ReadOnce
  <2>4. \A j, k \in 1..Len(inboundPackets) : inboundPackets[j] = inboundPackets[k] => j = k
    BY <2>0, ReadOnce
  <2>5. ASSUME NEW k \in 1..Len(inboundPackets)
        PROVE  status[inboundPackets[k]] \in {"granted", "charged"} /\ inboundPackets[k] # q
    <3>1. inboundPackets[k] \in Arrivals
      BY <2>2, ElementOfSeq
    <3>2. Stored(inboundPackets[k])
      BY DEF Stored, InQueue
    <3> QED
      BY <2>3, <3>1, <3>2 DEF Kept, KeptIInv, ArrivalKept, InQueue
  <2>6. q \in Reservations /\ status[q] \in {"granted", "charged"} /\ Sound
    BY <1>1, <2>1, Apart DEF Kept
  <2> QED
    BY <2>2, <2>4, <2>5, <2>6, HeldHasRoom
<1>2. ASSUME Observing, status[TheRecord] = "granted"
      PROVE  Len(observations) < QueueItems
  <2>1. PICK q \in Records : q = TheRecord /\ Due(q)
    BY <1>2, RecordIsOne
  <2>2. RecordsOnce /\ ~Handed(q)
    BY <2>1 DEF Kept, KeptIInv, RecordKept
  <2>3. observations \in Seq(Records) /\ observations \in Seq(Reservations)
    BY <2>2, Apart, SeqMonotonic DEF RecordsOnce
  <2>4. ASSUME NEW k \in 1..Len(observations)
        PROVE  status[observations[k]] \in {"granted", "charged"} /\ observations[k] # q
    <3>1. observations[k] \in Records
      BY <2>3, ElementOfSeq
    <3>2. Handed(observations[k])
      BY DEF Handed, InQueue
    <3> QED
      BY <2>2, <3>1, <3>2 DEF Kept, KeptIInv, RecordKept
  <2>5. q \in Reservations /\ status[q] \in {"granted", "charged"} /\ Sound
    BY <1>2, <2>1, Apart DEF Kept
  <2>6. \A j, k \in 1..Len(observations) : observations[j] = observations[k] => j = k
    BY <2>2 DEF RecordsOnce
  <2> QED
    BY <2>3, <2>4, <2>5, <2>6, HeldHasRoom
<1> QED
  BY <1>1, <1>2 DEF PendingHasRoom, RecordHasRoom

LEMMA CoveredHasRoomAfter ==
  Kept' /\ (items <= QueueItems)' => (PendingHasRoom /\ RecordHasRoom)'
<1>1. Kept /\ items <= QueueItems => PendingHasRoom /\ RecordHasRoom
  BY CoveredHasRoom
<1> QED
  BY <1>1, PTL

(* What moves a packet into the Read queue, and a record towards the sink.       *)
LEMMA InboundGrows ==
  ASSUME Kept, [Next]_vars, pending' # None
  PROVE  \/ Enqueue /\ pending' = current
         \/ pending' = pending /\ UNCHANGED inboundPackets
         \/ /\ pending' = pending /\ inboundPackets # <<>>
            /\ inboundPackets' = Tail(inboundPackets)
<1>0. at = "enqueue" => pending = None
  BY DEF Kept, AllIInv, OrderIInv, Placed, InHand
<1>1. StopGoesOn \/ PeerSends \/ PeerHangsUp \/ ReadPump \/ UNCHANGED vars
      \/ WriteReaches \/ WriteReturns \/ WriterExits \/ Dispatch
      => pending' = pending /\ UNCHANGED inboundPackets
  BY DEF StopGoesOn, PeerSends, PeerHangsUp, ReadPump, AcquireProcessing, ReadFrame,
         ReadFails, ReaderGivesUp, ReaderRest, WriteReaches, WriteReturns, WriterExits,
         WriterRest, Dispatch, TakeRecord, SinkReturns, SinkFailure, StartDrain,
         DispatcherExits, DispatchRest, vars
<1>2. ObserveReserves \/ ObserveQueues \/ ObserveFails \/ TakeFrame \/ Decode \/ Discard
      \/ PendingRefused \/ Withdraw
      => pending' = pending /\ UNCHANGED inboundPackets
  BY DEF ObserveReserves, ObserveQueues, ObserveFails, TakeFrame, Decode, Discard,
         PendingRefused, Withdraw
<1>3. ASSUME Enqueue
      PROVE  Enqueue /\ pending' = current
  BY <1>0, <1>3 DEF Enqueue
<1>4. ~Deliver /\ ~HandOff
  BY DEF Deliver, HandOff
<1>5. NoticeStop => pending' = pending /\ UNCHANGED inboundPackets
  BY DEF NoticeStop
<1>6. (\E w \in Writes : TakeWrite(w))
      \/ Encode \/ Refuse \/ GiveJob \/ FinishWrite \/ Confirm \/ ReleaseWrite
      => pending' = pending /\ UNCHANGED inboundPackets
  BY DEF TakeWrite, Encode, Refuse, GiveJob, FinishWrite, Confirm, ReleaseWrite, OutboundRest
<1>7. TakeShutdown \/ GiveBye \/ AwaitBye \/ FinishShutdown
      \/ CoordinatorReturns \/ Linger \/ LingerEnds \/ RunStops \/ Finish
      => pending' = pending /\ UNCHANGED inboundPackets
  BY DEF TakeShutdown, GiveBye, AwaitBye, FinishShutdown, ByeRest, CoordinatorReturns, Linger,
         LingerEnds, RunStops, Finish, RunRest
<1>8. \/ ReadReleases \/ ReadEnds \/ ShutdownStarts \/ ShutdownReturns \/ AbortShutdown
      \/ CloseCalled \/ ContextEnds \/ WatchContext
      => pending' = pending /\ UNCHANGED inboundPackets
  BY DEF ReadReleases, ReadEnds, ReadRest, ShutdownStarts, ShutdownReturns, AbortShutdown,
         CloseCalled, ContextEnds, WatchContext, EndRest
<1>9. (\E w \in Writes : WriteProceeds(w) \/ WriteStarts(w) \/ WriteCancelled(w))
      => pending' = pending /\ UNCHANGED inboundPackets
  BY DEF WriteProceeds, WriteReserves, WriteAcquires, WriteRejected, WriteAnswered,
         WriteStarts, WriteCancelled, WriteRest
<1>10. ReadTakes => /\ pending' = pending /\ inboundPackets # <<>>
                    /\ inboundPackets' = Tail(inboundPackets)
  BY DEF ReadTakes, ReadRest
<1> QED
  BY <1>1, <1>2, <1>3, <1>4, <1>5, <1>6, <1>7, <1>8, <1>9, <1>10
     DEF Next, System, User, Coordinate

LEMMA ObservationsStay ==
  [Next]_vars =>
    \/ ObserveQueues \/ TakeRecord \/ SinkReturns
    \/ /\ UNCHANGED <<observations, record>>
       /\ dispatcher' = "observing" <=> dispatcher = "observing"
<1> DEFINE Stays == /\ UNCHANGED <<observations, record>>
                    /\ dispatcher' = "observing" <=> dispatcher = "observing"
<1>1. StopGoesOn \/ PeerSends \/ PeerHangsUp \/ ReadPump \/ UNCHANGED vars
      \/ WriteReaches \/ WriteReturns \/ WriterExits
      => Stays
  BY DEF StopGoesOn, PeerSends, PeerHangsUp, ReadPump, AcquireProcessing, ReadFrame,
         ReadFails, ReaderGivesUp, ReaderRest, WriteReaches, WriteReturns, WriterExits,
         WriterRest, dispatch, vars
<1>2. SinkFailure \/ StartDrain \/ DispatcherExits => Stays
  BY DEF SinkFailure, StartDrain, DispatcherExits
<1>3. ObserveReserves \/ ObserveFails \/ TakeFrame \/ Decode \/ Enqueue \/ Discard
      \/ Deliver \/ PendingRefused \/ NoticeStop \/ Withdraw \/ HandOff
      => Stays
  BY DEF ObserveReserves, ObserveFails, CoordinatorRest, TakeFrame, Decode, Enqueue, Discard,
         Deliver, PendingRefused, NoticeStop, Withdraw, HandOff, InboundRest, dispatch
<1>4. (\E w \in Writes : TakeWrite(w))
      \/ Encode \/ Refuse \/ GiveJob \/ FinishWrite \/ Confirm \/ ReleaseWrite
      => Stays
  BY DEF TakeWrite, Encode, Refuse, GiveJob, FinishWrite, Confirm, ReleaseWrite, OutboundRest,
         dispatch
<1>5. TakeShutdown \/ GiveBye \/ AwaitBye \/ FinishShutdown
      \/ CoordinatorReturns \/ Linger \/ LingerEnds \/ RunStops \/ Finish
      => Stays
  BY DEF TakeShutdown, GiveBye, AwaitBye, FinishShutdown, ByeRest, CoordinatorReturns, Linger,
         LingerEnds, RunStops, Finish, RunRest, dispatch
<1>6. \/ ReadTakes \/ ReadReleases \/ ReadEnds \/ ShutdownStarts \/ ShutdownReturns
      \/ AbortShutdown \/ CloseCalled \/ ContextEnds \/ WatchContext
      => Stays
  BY DEF ReadTakes, ReadReleases, ReadEnds, ReadRest, ShutdownStarts, ShutdownReturns,
         AbortShutdown, CloseCalled, ContextEnds, WatchContext, EndRest, dispatch
<1>7. (\E w \in Writes : WriteProceeds(w) \/ WriteStarts(w) \/ WriteCancelled(w))
      => Stays
  BY DEF WriteProceeds, WriteReserves, WriteAcquires, WriteRejected, WriteAnswered,
         WriteStarts, WriteCancelled, WriteRest, dispatch
<1> QED
  BY <1>1, <1>2, <1>3, <1>4, <1>5, <1>6, <1>7
     DEF Next, System, User, Coordinate, Dispatch

(* A grant of this step fits the budget, so what it is for has room; what was     *)
(* granted before keeps the room it had.                                      *)
LEMMA GrantsHaveRoom ==
  ASSUME Kept, [Next]_vars, Kept',
         NEW q \in Reservations, status'[q] = "granted", status[q] # "granted"
  PROVE  (PendingHasRoom /\ RecordHasRoom)'
<1>1. [Counted!Next]_(Counted!vars)
  BY NextStepsBudget, SameBudget
<1>2. Counted!GrantFits
  BY <1>1, NeedsAreNumbers, Counted!NextGrantFits DEF Kept, Sound
<1>3. items' <= QueueItems
  BY <1>2 DEF Counted!GrantFits
<1> QED
  BY <1>3, CoveredHasRoomAfter

LEMMA NextKeepsPendingRoom ==
  ASSUME Kept, PendingHasRoom, [Next]_vars, Kept'
  PROVE  PendingHasRoom'
<1> SUFFICES ASSUME pending' # None, status'[pending'] = "granted"
             PROVE  Len(inboundPackets') < QueueItems
  BY DEF PendingHasRoom
<1>1. PICK q \in Arrivals : q = pending'
  BY DEF Kept, AllIInv, OrderIInv, OrderTyped
<1>2. q \in Reservations
  BY Apart
<1>3. CASE status[q] # "granted"
  BY <1>1, <1>2, <1>3, GrantsHaveRoom DEF PendingHasRoom
<1>4. CASE status[q] = "granted"
  <2>1. ~(Enqueue /\ pending' = current)
    BY <1>1, <1>4, ArrivalsCalled
  <2>2. pending = q /\ Len(inboundPackets) < QueueItems
    BY <1>1, <1>4, <2>1, InboundGrows DEF PendingHasRoom
  <2>3. inboundPackets \in Seq(Arrivals) /\ QueueItems \in Nat
    BY StreamAssumption DEF Kept, AllIInv, OrderIInv, OrderTyped
  <2>4. Len(inboundPackets') <= Len(inboundPackets)
    <3>1. CASE inboundPackets' = inboundPackets
      BY <2>3, <3>1
    <3>2. CASE inboundPackets # <<>> /\ inboundPackets' = Tail(inboundPackets)
      <4>1. Len(inboundPackets') = Len(inboundPackets) - 1
        BY <2>3, <3>2, EmptySeq, HeadTailProperties
      <4> QED
        BY <2>3, <4>1
    <3> QED
      BY <2>1, <3>1, <3>2, InboundGrows
  <2>5. inboundPackets' \in Seq(Arrivals)
    BY DEF Kept, AllIInv, OrderIInv, OrderTyped
  <2>6. Len(inboundPackets) \in Nat /\ Len(inboundPackets') \in Nat
    BY <2>3, <2>5
  <2> QED
    BY <2>2, <2>3, <2>4, <2>6
<1> QED
  BY <1>3, <1>4

LEMMA RecordIsOneAfter == (Kept /\ Observing)' => (TheRecord \in Records)'
<1>1. Kept /\ Observing => TheRecord \in Records
  BY RecordIsOne
<1> QED
  BY <1>1, PTL

LEMMA NextKeepsRecordRoom ==
  ASSUME Kept, RecordHasRoom, [Next]_vars, Kept'
  PROVE  RecordHasRoom'
<1> SUFFICES ASSUME Observing', status'[TheRecord'] = "granted"
             PROVE  Len(observations') < QueueItems
  BY DEF RecordHasRoom
<1>1. PICK q \in Records : q = TheRecord' /\ Due(q)'
  BY RecordIsOneAfter DEF Due
<1>2. q \in Reservations /\ status'[q] = "granted"
  BY <1>1, Apart
<1>3. RecordKept(q) /\ RecordsOnce
  BY DEF Kept, KeptIInv
<1>4. ~Handed(q)'
  BY <1>1 DEF Kept, KeptIInv, RecordKept
<1>5. observations \in Seq(Records) /\ observations' \in Seq(Records) /\ QueueItems \in Nat
  BY StreamAssumption DEF Kept, KeptIInv, RecordsOnce
<1>6. Len(observations) \in Nat /\ Len(observations') \in Nat
  BY <1>5
<1>7. CASE status[q] # "granted"
  BY <1>1, <1>2, <1>7, GrantsHaveRoom DEF RecordHasRoom
<1>8. CASE status[q] = "granted"
  <2>1. ~ObserveQueues
    <3> SUFFICES ASSUME ObserveQueues PROVE FALSE
      OBVIOUS
    <3>1. PICK r \in Records : r = TheRecord
      BY RecordIsOne DEF ObserveQueues
    <3>2. observations' = Append(observations, r) /\ UNCHANGED <<record, dispatcher>>
      BY <3>1 DEF ObserveQueues, CoordinatorRest, dispatch
    <3>3. \A s : InQueue(Append(observations, r), s) <=> InQueue(observations, s) \/ s = r
      BY <1>5, InQueueAppend
    <3>4. r # q /\ ~Handed(q)
      BY <1>4, <3>2, <3>3 DEF Handed
    <3>5. Due(q)
      BY <1>3, <1>8, <3>4 DEF RecordKept, Idle
    <3> QED
      BY <3>1, <3>4, <3>5 DEF Due
  <2>2. CASE TakeRecord
    <3>1. /\ observations # <<>> /\ record' = Head(observations)
          /\ observations' = Tail(observations) /\ dispatcher' = "observing"
          /\ dispatcher = "idle"
      BY <2>2 DEF TakeRecord
    <3>2. /\ observations[1] = record' /\ Len(observations') = Len(observations) - 1
          /\ \A k \in 1..(Len(observations) - 1) : observations'[k] = observations[k + 1]
      BY <1>5, <3>1, EmptySeq, HeadTailProperties
    <3>3. ~InQueue(observations, q)
      <4> SUFFICES ASSUME NEW k \in 1..Len(observations), observations[k] = q PROVE FALSE
        BY DEF InQueue
      <4>1. CASE k = 1
        BY <1>4, <3>1, <3>2, <4>1 DEF Handed
      <4>2. CASE k # 1
        <5>1. k - 1 \in 1..(Len(observations) - 1) /\ k - 1 \in 1..Len(observations')
          BY <1>6, <3>2, <4>2
        <5>2. observations'[k - 1] = q
          BY <3>2, <5>1
        <5> QED
          BY <1>4, <5>1, <5>2 DEF Handed, InQueue
      <4> QED
        BY <4>1, <4>2
    <3>4. Due(q)
      BY <1>3, <1>8, <3>1, <3>3 DEF RecordKept, Handed, Idle
    <3>5. Len(observations) < QueueItems
      BY <1>8, <3>4 DEF Due, RecordHasRoom
    <3> QED
      BY <1>5, <1>6, <3>2, <3>5
  <2>3. CASE SinkReturns
    <3>1. /\ record \in Records /\ Queued!GiveBack(record)
          /\ UNCHANGED <<observations, record>> /\ dispatcher = "observing"
      BY <2>3, RecordsCalled DEF SinkReturns
    <3>2. status'[record] = "released"
      BY <3>1, CallsSettle, Apart DEF Kept, Queued!GiveBack
    <3>3. record # q
      BY <1>2, <3>2
    <3>4. ~Handed(q)
      BY <1>4, <3>1, <3>3 DEF Handed
    <3>5. Len(observations) < QueueItems
      BY <1>3, <1>8, <3>4 DEF RecordKept, Idle, Due, RecordHasRoom
    <3> QED
      BY <3>1, <3>5
  <2>4. CASE UNCHANGED <<observations, record>> /\ (dispatcher' = "observing" <=> dispatcher = "observing")
    <3>1. ~Handed(q)
      BY <1>4, <2>4 DEF Handed
    <3>2. Len(observations) < QueueItems
      BY <1>3, <1>8, <3>1 DEF RecordKept, Idle, Due, RecordHasRoom
    <3> QED
      BY <2>4, <3>2
  <2> QED
    BY <2>1, <2>2, <2>3, <2>4, ObservationsStay
<1> QED
  BY <1>7, <1>8

RoomKept == Kept /\ PendingHasRoom /\ RecordHasRoom

(* What the budget is charged for is what the stream keeps, whichever goroutine  *)
(* moves, and a granted packet or record finds room in its queue, so no send of   *)
(* the coordinator waits while it holds capacity (stream.go:37-39, 71-74).      *)
THEOREM SpecCapacityIsKept == Spec => []CapacityIsKept
<1>1. Init => RoomKept
  <2> SUFFICES ASSUME Init PROVE RoomKept
    OBVIOUS
  <2>1. Kept /\ pending = None /\ ~Observing
    BY InitKept, ObservedTable DEF Init, Observing
  <2> QED
    BY <2>1 DEF RoomKept, PendingHasRoom, RecordHasRoom
<1>2. RoomKept /\ [Next]_vars => RoomKept'
  <2> SUFFICES ASSUME Kept, PendingHasRoom, RecordHasRoom, [Next]_vars
               PROVE  RoomKept'
    BY DEF RoomKept
  <2>1. Kept'
    BY NextKeepsKept
  <2> QED
    BY <2>1, NextKeepsPendingRoom, NextKeepsRecordRoom DEF RoomKept
<1>3. RoomKept => CapacityIsKept
  BY KeptIsCharged
     DEF RoomKept, PendingHasRoom, RecordHasRoom, CapacityIsKept, GrantedHasRoom
<1> QED
  BY <1>1, <1>2, <1>3, PTL DEF Spec

-----------------------------------------------------------------------------
(* The control points and flags of the goroutines.                             *)
Points ==
  DOMAIN Observed \cup Over \cup
    {"select", "decode", "enqueue", "discard", "discardLast", "withdraw",
     "handOff", "encode", "refuse", "handJob", "writing", "confirm",
     "release", "releaseLast", "stopWrite", "byeJob", "byeWriting", "bye",
     "byeFailed", "stopping"}

Causes == {"none", "clean", "peer closed", "observe", "malformed", "queue", "write",
           "disconnect", "context", "sink", "ambiguous", "shutdown expired", "closed"}

PumpsTyped ==
  /\ {hungUp, processing} \subseteq BOOLEAN
  /\ reader \in {"acquire", "reading", "handing", "stopping", "exited"}
  /\ writer \in {"idle", "writing", "sent", "exited"}
  /\ outcome \in {"none", "ok", "error"} /\ wire \in Seq(Packets)

RunTyped ==
  /\ at \in Points /\ current \in Packets \cup {None}
  /\ applied \in SUBSET Transitions /\ cause \in Causes

EndsTyped ==
  /\ {draining, cancelled, closing, graceful, lingering} \subseteq BOOLEAN
  /\ dispatcher \in {"idle", "observing", "failing", "stopping", "exited"}
  /\ reading \in {"idle", "releasing", "ended"}
  /\ shutdown \in {"idle", "sending", "waiting", "returned"}
  /\ farewell \in {"none", "ok", "error"}

(* No more frames are decoded than were taken from the pump.                    *)
DecodedTaken == decoded + (IF at \in Undecoded THEN 1 ELSE 0) <= Taken

OutsideActs ==
  \/ StopGoesOn \/ PeerSends \/ PeerHangsUp \/ ReadPump \/ UNCHANGED vars
  \/ WriteReaches \/ WriteReturns \/ WriterExits \/ Dispatch
  \/ ReadTakes \/ ReadReleases \/ ReadEnds \/ ShutdownStarts \/ ShutdownReturns
  \/ AbortShutdown \/ CloseCalled \/ ContextEnds \/ WatchContext
  \/ \E w \in Writes : WriteProceeds(w) \/ WriteStarts(w) \/ WriteCancelled(w)

LEMMA NextIsOutside == [Next]_vars => OutsideActs \/ Coordinate
BY DEF Next, System, User, OutsideActs

LEMMA OutsideLeavesRun == OutsideActs => UNCHANGED <<at, current, applied, decoded>>
<1>1. StopGoesOn \/ PeerSends \/ PeerHangsUp \/ ReadPump \/ UNCHANGED vars
      \/ WriteReaches \/ WriteReturns \/ WriterExits \/ Dispatch
      => UNCHANGED <<at, current, applied, decoded>>
  BY DEF StopGoesOn, PeerSends, PeerHangsUp, ReadPump, AcquireProcessing, ReadFrame,
         ReadFails, ReaderGivesUp, ReaderRest, WriteReaches, WriteReturns, WriterExits,
         WriterRest, Dispatch, TakeRecord, SinkReturns, SinkFailure, StartDrain,
         DispatcherExits, DispatchRest, session, vars
<1>2. \/ ReadTakes \/ ReadReleases \/ ReadEnds \/ ShutdownStarts \/ ShutdownReturns
      \/ AbortShutdown \/ CloseCalled \/ ContextEnds \/ WatchContext
      => UNCHANGED <<at, current, applied, decoded>>
  BY DEF ReadTakes, ReadReleases, ReadEnds, ReadRest, ShutdownStarts, ShutdownReturns,
         AbortShutdown, CloseCalled, ContextEnds, WatchContext, EndRest, session
<1>3. (\E w \in Writes : WriteProceeds(w) \/ WriteStarts(w) \/ WriteCancelled(w))
      => UNCHANGED <<at, current, applied, decoded>>
  BY DEF WriteProceeds, WriteReserves, WriteAcquires, WriteRejected, WriteAnswered,
         WriteStarts, WriteCancelled, WriteRest, session
<1> QED
  BY <1>1, <1>2, <1>3 DEF OutsideActs

LEMMA CauseIsTyped ==
  ASSUME cause \in Causes
  PROVE  OutsideActs \/ Coordinate => cause' \in Causes
<1>1. \A c \in Causes : FirstCause(c) \/ FailAndStop(c) => cause' \in Causes
  BY DEF FirstCause, FailAndStop
<1>2. StopGoesOn \/ PeerSends \/ PeerHangsUp \/ ReadPump \/ UNCHANGED vars
      \/ WriteReaches \/ WriteReturns \/ WriterExits \/ Dispatch
      => cause' \in Causes
  BY <1>1 DEF StopGoesOn, PeerSends, PeerHangsUp, ReadPump, AcquireProcessing, ReadFrame,
         ReadFails, ReaderGivesUp, ReaderRest, WriteReaches, WriteReturns, WriterExits,
         WriterRest, Dispatch, TakeRecord, SinkReturns, SinkFailure, StartDrain,
         DispatcherExits, DispatchRest, ending, vars, Causes
<1>3. \/ ReadTakes \/ ReadReleases \/ ReadEnds \/ ShutdownStarts \/ ShutdownReturns
      \/ AbortShutdown \/ CloseCalled \/ ContextEnds \/ WatchContext
      => cause' \in Causes
  BY <1>1 DEF ReadTakes, ReadReleases, ReadEnds, ReadRest, ShutdownStarts, ShutdownReturns,
         AbortShutdown, CloseCalled, ContextEnds, WatchContext, EndRest, ending, Causes
<1>4. (\E w \in Writes : WriteProceeds(w) \/ WriteStarts(w) \/ WriteCancelled(w))
      => cause' \in Causes
  BY <1>1 DEF WriteProceeds, WriteReserves, WriteAcquires, WriteRejected, WriteAnswered,
         WriteStarts, WriteCancelled, WriteRest, ending, Causes
<1>5. ObserveReserves \/ ObserveQueues \/ ObserveFails \/ TakeFrame \/ Decode \/ Enqueue
      \/ Discard \/ Deliver \/ PendingRefused \/ NoticeStop \/ Withdraw \/ HandOff
      => cause' \in Causes
  BY <1>1 DEF ObserveReserves, ObserveQueues, ObserveFails, ObserveError, TakeFrame, Decode,
         Enqueue, Discard, Deliver, PendingRefused, NoticeStop, Withdraw, HandOff, ending, Causes
<1>6. (\E w \in Writes : TakeWrite(w))
      \/ Encode \/ Refuse \/ GiveJob \/ FinishWrite \/ Confirm \/ ReleaseWrite
      => cause' \in Causes
  BY <1>1 DEF TakeWrite, Encode, Refuse, GiveJob, FinishWrite, Confirm, ReleaseWrite, ending, Causes
<1>7. TakeShutdown \/ GiveBye \/ AwaitBye \/ FinishShutdown
      \/ CoordinatorReturns \/ Linger \/ LingerEnds \/ RunStops \/ Finish
      => cause' \in Causes
  BY <1>1 DEF TakeShutdown, GiveBye, AwaitBye, FinishShutdown, CoordinatorReturns, Linger,
         LingerEnds, RunStops, Finish, ending, Causes
<1> QED
  BY <1>2, <1>3, <1>4, <1>5, <1>6, <1>7 DEF OutsideActs, Coordinate

LEMMA CoordinatorMoves ==
  ASSUME Kept, at \in Points, Coordinate
  PROVE  at' \in Points
<1>1. ObserveReserves \/ ObserveQueues \/ TakeFrame \/ Decode \/ Enqueue
      \/ Discard \/ Deliver \/ PendingRefused \/ NoticeStop \/ Withdraw \/ HandOff
      => at' \in Points
  BY ObservedTable DEF ObserveReserves, ObserveQueues, TakeFrame, Decode, Observe, Observing,
         Enqueue, DeliverArrival, Discard, Deliver, PendingRefused, NoticeStop, Withdraw,
         HandOff, InboundRest, Points, Over
<1>2. ObserveFails => at' \in Points
  BY ObservedTable DEF ObserveFails, ObserveError, Points
<1>3. (\E w \in Writes : TakeWrite(w))
      \/ Encode \/ Refuse \/ GiveJob \/ FinishWrite \/ Confirm \/ ReleaseWrite
      => at' \in Points
  BY ObservedTable DEF TakeWrite, Encode, Refuse, GiveJob, FinishWrite, Confirm, ReleaseWrite,
         Observe, Points, Over
<1>4. TakeShutdown \/ GiveBye \/ AwaitBye \/ FinishShutdown
      \/ CoordinatorReturns \/ Linger \/ LingerEnds \/ RunStops \/ Finish
      => at' \in Points
  BY ObservedTable DEF TakeShutdown, GiveBye, AwaitBye, FinishShutdown, CoordinatorReturns,
         Linger, LingerEnds, RunStops, Finish, Observe, Points, Over
<1> QED
  BY <1>1, <1>2, <1>3, <1>4 DEF Coordinate

LEMMA CoordinatorPicks ==
  ASSUME Kept, current \in Packets \cup {None}, applied \in SUBSET Transitions, Coordinate
  PROVE  current' \in Packets \cup {None} /\ applied' \in SUBSET Transitions
<1>0. /\ framed \in 0..Len(Inbound) /\ (reader = "handing" => framed >= 1)
      /\ pending \in Packets \cup {None}
  BY Positions DEF Kept, AllIInv, OrderIInv, OrderTyped, Packets
<1>1. ObserveReserves \/ ObserveQueues \/ ObserveFails \/ TakeFrame \/ Decode \/ Enqueue
      \/ Discard \/ Deliver \/ PendingRefused \/ NoticeStop \/ Withdraw \/ HandOff
      => current' \in Packets \cup {None} /\ applied' \in SUBSET Transitions
  <2>1. TakeFrame => current' \in Packets /\ applied' = applied
    <3> SUFFICES ASSUME TakeFrame PROVE current' \in Packets /\ applied' = applied
      OBVIOUS
    <3>1. framed \in 1..Len(Inbound) /\ current' = Inbound[framed] /\ applied' = applied
      BY <1>0 DEF TakeFrame, session
    <3> QED
      BY <3>1 DEF Packets, Arrivals
  <2>2. Decode => current' = current /\ applied' \in SUBSET Transitions
    BY DEF Decode, Commit, session
  <2> QED
    BY <1>0, <2>1, <2>2
       DEF ObserveReserves, ObserveQueues, ObserveFails, Enqueue, Discard, Deliver,
           PendingRefused, NoticeStop, Withdraw, HandOff, session
<1>2. (\E w \in Writes : TakeWrite(w))
      \/ Encode \/ Refuse \/ GiveJob \/ FinishWrite \/ Confirm \/ ReleaseWrite
      => current' \in Packets \cup {None} /\ applied' \in SUBSET Transitions
  BY DEF TakeWrite, Encode, Refuse, GiveJob, FinishWrite, Confirm, ReleaseWrite, Commit, Packets
<1>3. TakeShutdown \/ GiveBye \/ AwaitBye \/ FinishShutdown
      \/ CoordinatorReturns \/ Linger \/ LingerEnds \/ RunStops \/ Finish
      => current' \in Packets \cup {None} /\ applied' \in SUBSET Transitions
  BY DEF TakeShutdown, GiveBye, AwaitBye, FinishShutdown, CoordinatorReturns, Linger,
         LingerEnds, RunStops, Finish, ByeRest, RunRest, session, Packets
<1> QED
  BY <1>1, <1>2, <1>3 DEF Coordinate

LEMMA NextKeepsRunTyped ==
  ASSUME Kept, RunTyped, [Next]_vars
  PROVE  RunTyped'
BY NextIsOutside, OutsideLeavesRun, CauseIsTyped, CoordinatorMoves, CoordinatorPicks
   DEF RunTyped

LEMMA NextKeepsEndsTyped ==
  ASSUME EndsTyped, [Next]_vars
  PROVE  EndsTyped'
<1>1. StopGoesOn \/ PeerSends \/ PeerHangsUp \/ ReadPump \/ UNCHANGED vars
      \/ WriteReaches \/ WriteReturns \/ WriterExits
      => EndsTyped'
  BY DEF EndsTyped, StopGoesOn, PeerSends, PeerHangsUp, ReadPump, AcquireProcessing, ReadFrame,
         ReadFails, ReaderGivesUp, ReaderRest, WriteReaches, WriteReturns, WriterExits,
         WriterRest, vars, dispatch, flags, readCall, endCall
<1>2. Dispatch => EndsTyped'
  BY DEF EndsTyped, Dispatch, TakeRecord, SinkReturns, SinkFailure, StartDrain,
         DispatcherExits, DispatchRest, flags, readCall, endCall
<1>3. \/ ReadTakes \/ ReadReleases \/ ReadEnds \/ ShutdownStarts \/ ShutdownReturns
      \/ AbortShutdown \/ CloseCalled \/ ContextEnds \/ WatchContext
      => EndsTyped'
  BY DEF EndsTyped, ReadTakes, ReadReleases, ReadEnds, ReadRest, ShutdownStarts,
         ShutdownReturns, AbortShutdown, CloseCalled, ContextEnds, WatchContext, EndRest,
         dispatch, flags, readCall, endCall
<1>4. (\E w \in Writes : WriteProceeds(w) \/ WriteStarts(w) \/ WriteCancelled(w))
      => EndsTyped'
  BY DEF EndsTyped, WriteProceeds, WriteReserves, WriteAcquires, WriteRejected, WriteAnswered,
         WriteStarts, WriteCancelled, WriteRest, dispatch, flags, readCall, endCall
<1>5. ObserveReserves \/ ObserveQueues \/ ObserveFails \/ TakeFrame \/ Decode \/ Enqueue
      \/ Discard \/ Deliver \/ PendingRefused \/ NoticeStop \/ Withdraw \/ HandOff
      => EndsTyped'
  BY DEF EndsTyped, ObserveReserves, ObserveQueues, ObserveFails, CoordinatorRest, TakeFrame,
         Decode, Enqueue, Discard, Deliver, PendingRefused, NoticeStop, Withdraw, HandOff,
         InboundRest, dispatch, flags, readCall, endCall
<1>6. (\E w \in Writes : TakeWrite(w))
      \/ Encode \/ Refuse \/ GiveJob \/ FinishWrite \/ Confirm \/ ReleaseWrite
      => EndsTyped'
  BY DEF EndsTyped, TakeWrite, Encode, Refuse, GiveJob, FinishWrite, Confirm, ReleaseWrite,
         OutboundRest, dispatch, flags, readCall, endCall
<1>7. TakeShutdown \/ GiveBye \/ AwaitBye \/ FinishShutdown
      \/ CoordinatorReturns \/ Linger \/ LingerEnds \/ RunStops \/ Finish
      => EndsTyped'
  BY DEF EndsTyped, TakeShutdown, GiveBye, AwaitBye, FinishShutdown, ByeRest,
         CoordinatorReturns, Linger, LingerEnds, RunStops, Finish, RunRest,
         dispatch, flags, readCall, endCall
<1> QED
  BY <1>1, <1>2, <1>3, <1>4, <1>5, <1>6, <1>7 DEF Next, System, User, Coordinate

LEMMA NextKeepsPumpsTyped ==
  ASSUME Kept, PumpsTyped, [Next]_vars
  PROVE  PumpsTyped'
<1>0. writer = "writing" => job \in Packets
  <2>1. writer = "writing" => job = Bye \/ (at = "writing" /\ job = current)
    BY DEF Kept, AllIInv, WriteIInv, PumpIInv
  <2>2. at = "writing" => current \in Writes
    BY DEF Kept, AllIInv, WriteIInv, PumpIInv, OnWrite
  <2> QED
    BY <2>1, <2>2 DEF Packets
<1>1. StopGoesOn \/ PeerSends \/ PeerHangsUp \/ ReadPump \/ UNCHANGED vars => PumpsTyped'
  BY DEF PumpsTyped, StopGoesOn, PeerSends, PeerHangsUp, ReadPump, AcquireProcessing, ReadFrame,
         ReadFails, ReaderGivesUp, ReaderRest, vars, peer, readPump, writePump
<1>2. WriteReaches \/ WriteReturns \/ WriterExits => PumpsTyped'
  <2>1. WriteReaches => PumpsTyped'
    <3> SUFFICES ASSUME WriteReaches PROVE PumpsTyped'
      OBVIOUS
    <3>1. wire' = Append(wire, job) /\ job \in Packets /\ wire \in Seq(Packets)
      BY <1>0 DEF WriteReaches, PumpsTyped
    <3>2. wire' \in Seq(Packets)
      BY <3>1
    <3> QED
      BY <3>2 DEF WriteReaches, WriterRest, PumpsTyped, peer, readPump
  <2>2. WriteReturns \/ WriterExits => PumpsTyped'
    BY DEF PumpsTyped, WriteReturns, WriterExits, WriterRest, peer, readPump
  <2> QED
    BY <2>1, <2>2
<1>3. \/ ReadTakes \/ ReadReleases \/ ReadEnds \/ ShutdownStarts \/ ShutdownReturns
      \/ AbortShutdown \/ CloseCalled \/ ContextEnds \/ WatchContext \/ Dispatch
      => PumpsTyped'
  BY DEF PumpsTyped, ReadTakes, ReadReleases, ReadEnds, ReadRest, ShutdownStarts,
         ShutdownReturns, AbortShutdown, CloseCalled, ContextEnds, WatchContext, EndRest,
         Dispatch, TakeRecord, SinkReturns, SinkFailure, StartDrain, DispatcherExits,
         DispatchRest, peer, readPump, writePump
<1>4. (\E w \in Writes : WriteProceeds(w) \/ WriteStarts(w) \/ WriteCancelled(w))
      => PumpsTyped'
  BY DEF PumpsTyped, WriteProceeds, WriteReserves, WriteAcquires, WriteRejected, WriteAnswered,
         WriteStarts, WriteCancelled, WriteRest, peer, readPump, writePump
<1>5. ObserveReserves \/ ObserveQueues \/ ObserveFails \/ TakeFrame \/ Decode \/ Enqueue
      \/ Discard \/ Deliver \/ PendingRefused \/ NoticeStop \/ Withdraw \/ HandOff
      => PumpsTyped'
  BY DEF PumpsTyped, ObserveReserves, ObserveQueues, ObserveFails, CoordinatorRest, TakeFrame,
         Decode, Enqueue, Discard, Deliver, PendingRefused, NoticeStop, Withdraw, HandOff,
         InboundRest, peer, readPump, writePump
<1>6. (\E w \in Writes : TakeWrite(w))
      \/ Encode \/ Refuse \/ GiveJob \/ FinishWrite \/ Confirm \/ ReleaseWrite
      => PumpsTyped'
  BY DEF PumpsTyped, TakeWrite, Encode, Refuse, GiveJob, HandJob, FinishWrite, Confirm,
         ReleaseWrite, OutboundRest, peer, readPump, writePump
<1>7. TakeShutdown \/ GiveBye \/ AwaitBye \/ FinishShutdown
      \/ CoordinatorReturns \/ Linger \/ LingerEnds \/ RunStops \/ Finish
      => PumpsTyped'
  BY DEF PumpsTyped, TakeShutdown, GiveBye, HandJob, AwaitBye, FinishShutdown, ByeRest,
         CoordinatorReturns, Linger, LingerEnds, RunStops, Finish, RunRest,
         peer, readPump, writePump
<1> QED
  BY <1>1, <1>2, <1>3, <1>4, <1>5, <1>6, <1>7 DEF Next, System, User, Coordinate

LEMMA NextKeepsDecodedTaken ==
  ASSUME Kept, DecodedTaken, [Next]_vars
  PROVE  DecodedTaken'
<1>0. OrderTyped /\ decoded \in Int /\ Taken \in Int /\ framed \in Int
  BY TakenIs DEF Kept, AllIInv, OrderIInv, OrderTyped
<1>1. ASSUME UNCHANGED <<decoded, reader, framed>>, at' \in Undecoded => at \in Undecoded
      PROVE  DecodedTaken'
  BY <1>0, <1>1 DEF DecodedTaken, Taken
<1>2. StopGoesOn \/ PeerSends \/ PeerHangsUp \/ UNCHANGED vars
      \/ WriteReaches \/ WriteReturns \/ WriterExits \/ Dispatch
      => UNCHANGED <<decoded, reader, framed, at>>
  BY DEF StopGoesOn, PeerSends, PeerHangsUp, WriteReaches, WriteReturns, WriterExits,
         WriterRest, Dispatch, TakeRecord, SinkReturns, SinkFailure, StartDrain,
         DispatcherExits, DispatchRest, session, readPump, vars
<1>3. \/ ReadTakes \/ ReadReleases \/ ReadEnds \/ ShutdownStarts \/ ShutdownReturns
      \/ AbortShutdown \/ CloseCalled \/ ContextEnds \/ WatchContext
      => UNCHANGED <<decoded, reader, framed, at>>
  BY DEF ReadTakes, ReadReleases, ReadEnds, ReadRest, ShutdownStarts, ShutdownReturns,
         AbortShutdown, CloseCalled, ContextEnds, WatchContext, EndRest, session, readPump
<1>4. (\E w \in Writes : WriteProceeds(w) \/ WriteStarts(w) \/ WriteCancelled(w))
      => UNCHANGED <<decoded, reader, framed, at>>
  BY DEF WriteProceeds, WriteReserves, WriteAcquires, WriteRejected, WriteAnswered,
         WriteStarts, WriteCancelled, WriteRest, session, readPump
<1>5. ReadPump => DecodedTaken'
  <2> SUFFICES ASSUME ReadPump PROVE DecodedTaken'
    OBVIOUS
  <2>1. UNCHANGED <<decoded, at>>
    BY DEF ReadPump, AcquireProcessing, ReadFrame, ReadFails, ReaderGivesUp, ReaderRest, session
  <2>2. Taken' \in Int /\ Taken' >= Taken
    BY <1>0, PumpTakes
  <2>3. (decoded + (IF at \in Undecoded THEN 1 ELSE 0)) \in Int
    BY <1>0
  <2>4. Taken \in Int
    BY <1>0
  <2> QED
    BY <2>1, <2>2, <2>3, <2>4 DEF DecodedTaken
<1>6. ObserveReserves \/ ObserveQueues \/ ObserveFails
      => UNCHANGED <<decoded, reader, framed>> /\ (at' \in Undecoded => at \in Undecoded)
  BY ObservedTable DEF ObserveReserves, ObserveQueues, ObserveFails, ObserveError, CoordinatorRest,
     session, readPump, Observing, Undecoded
<1>7. ASSUME TakeFrame PROVE DecodedTaken'
  <2>1. /\ reader = "handing" /\ reader' = "acquire" /\ framed' = framed /\ decoded' = decoded
        /\ at \notin Undecoded
    BY <1>7 DEF TakeFrame, InboundRest, session, Undecoded
  <2> QED
    BY <1>0, <2>1 DEF DecodedTaken, Taken
<1>8. ASSUME Decode PROVE DecodedTaken'
  <2>1. /\ reader' = reader /\ framed' = framed /\ at \in Undecoded /\ at' \notin Undecoded
        /\ decoded' = decoded \/ decoded' = decoded + 1
    BY <1>8 DEF Decode, InboundRest, session, Undecoded, Observe
  <2>2. Taken' = Taken /\ decoded + 1 <= Taken
    BY <2>1 DEF DecodedTaken, Taken
  <2> QED
    BY <1>0, <2>1, <2>2 DEF DecodedTaken
<1>9. \/ Enqueue \/ Discard \/ Deliver \/ PendingRefused \/ NoticeStop \/ Withdraw
      \/ HandOff
      => UNCHANGED <<decoded, reader, framed>> /\ (at' \in Undecoded => at \in Undecoded)
  BY DEF Enqueue, DeliverArrival, Discard, Deliver, PendingRefused, NoticeStop, Withdraw,
         HandOff, InboundRest, session, Undecoded
<1>10. (\E w \in Writes : TakeWrite(w))
       \/ Encode \/ Refuse \/ GiveJob \/ FinishWrite \/ Confirm \/ ReleaseWrite
       => UNCHANGED <<decoded, reader, framed>> /\ (at' \in Undecoded => at \in Undecoded)
  BY DEF TakeWrite, Encode, Refuse, GiveJob, FinishWrite, Confirm, ReleaseWrite,
         OutboundRest, readPump, Observe, Undecoded
<1>11. TakeShutdown \/ GiveBye \/ AwaitBye \/ FinishShutdown
       \/ CoordinatorReturns \/ Linger \/ LingerEnds \/ RunStops \/ Finish
       => UNCHANGED <<decoded, reader, framed>> /\ (at' \in Undecoded => at \in Undecoded)
  BY DEF TakeShutdown, GiveBye, AwaitBye, FinishShutdown, ByeRest, CoordinatorReturns, Linger,
         LingerEnds, RunStops, Finish, RunRest, session, readPump, Observe, Undecoded
<1> QED
  BY <1>1, <1>2, <1>3, <1>4, <1>5, <1>6, <1>7, <1>8, <1>9, <1>10, <1>11
     DEF Next, System, User, Coordinate

TypedIInv == Kept /\ PumpsTyped /\ RunTyped /\ EndsTyped /\ DecodedTaken

LEMMA TypedIInvIsTyped == TypedIInv => TypeOK
<1> SUFFICES ASSUME TypedIInv PROVE TypeOK
  OBVIOUS
<1>1. Queued!Typed
  BY SameBudget DEF TypedIInv, Kept, Sound, Counted!IInv
<1>2. OrderTyped /\ CallTyped /\ RecordsOnce
  BY DEF TypedIInv, Kept, KeptIInv, AllIInv, OrderIInv, WriteIInv
<1>3. Taken \in 0..Len(Inbound)
  BY <1>2, TakenIs
<1>4. decoded \in Nat /\ decoded <= Taken
  BY <1>2, <1>3 DEF TypedIInv, DecodedTaken, OrderTyped
<1>5. decoded \in 0..Len(Inbound)
  BY <1>3, <1>4, Positions
<1>6. sent \in 0..Len(Inbound) /\ framed \in 0..Len(Inbound)
  BY <1>2, Positions DEF OrderTyped
<1> QED
  BY <1>1, <1>2, <1>5, <1>6
     DEF TypedIInv, PumpsTyped, RunTyped, EndsTyped, TypeOK, OrderTyped, CallTyped, RecordsOnce,
         Points, Causes

(* Every variable of the stream keeps its type: in particular nothing but packets  *)
(* reaches the wire, and no more frames are decoded than the peer sends           *)
(* (stream_runtime.go:340-346, 920-935).                                        *)
THEOREM SpecTypeOK == Spec => []TypeOK
<1>1. Init => TypedIInv
  <2> SUFFICES ASSUME Init PROVE TypedIInv
    OBVIOUS
  <2>1. PumpsTyped
    <3>1. wire \in Seq(Packets)
      BY EmptySeq DEF Init
    <3>2. {hungUp, processing} \subseteq BOOLEAN
      BY DEF Init
    <3> QED
      BY <3>1, <3>2 DEF Init, PumpsTyped
  <2>4. EndsTyped
    BY DEF Init, EndsTyped
  <2>2. RunTyped
    BY DEF Init, RunTyped, Points, Causes
  <2>3. DecodedTaken
    BY DEF Init, DecodedTaken, Taken, Undecoded
  <2> QED
    BY <2>1, <2>2, <2>3, <2>4, InitKept DEF TypedIInv
<1>2. TypedIInv /\ [Next]_vars => TypedIInv'
  BY NextKeepsKept, NextKeepsPumpsTyped, NextKeepsRunTyped, NextKeepsEndsTyped,
     NextKeepsDecodedTaken DEF TypedIInv
<1> QED
  BY <1>1, <1>2, TypedIInvIsTyped, PTL DEF Spec
=============================================================================
