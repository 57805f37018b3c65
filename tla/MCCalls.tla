------------------------------ MODULE MCCalls ------------------------------
(***************************************************************************)
(* The calls that a stream answers from its own goroutines: in one part those of  *)
(* Lifecycle race to start and to end a stream, in the other those of Controls   *)
(* are served by a running one.  The parts share no state; a behaviour is of one.  *)
(***************************************************************************)
EXTENDS Lifecycle

CONSTANTS SessionControls, TransportControls, Snapshots

VARIABLES
  part,                                         (* "lifecycle" | "controls" *)
  stops, over, closing, coordinator, room,      (* of the running stream       *)
  applied, asked, answer, answered, view, known (* and its calls               *)

running ==
  <<stops, over, closing, coordinator, room, applied, asked, answer, answered, view, known>>

Running == INSTANCE Controls WITH
  stopping <- stops, done <- over, at <- asked, result <- answered

ASSUME RunningAssumption == Running!ControlsAssumption

CallsInit == part \in {"lifecycle", "controls"} /\ Init /\ Running!Init

CallsNext ==
  /\ UNCHANGED part
  /\ \/ part = "lifecycle" /\ Next /\ UNCHANGED running
     \/ part = "controls" /\ Running!Next /\ UNCHANGED vars

CallsSpec ==
  /\ CallsInit /\ [][CallsNext]_<<part, vars, running>>
  /\ Fairness /\ Running!Fairness
-----------------------------------------------------------------------------
(* What a call returns is true, and stays true.  Every Wait tells the cause that is  *)
(* the stream's still (stream.go 315-342); a caller of Control knows whether the     *)
(* control is in force, and where one is that was answered with an error the stream  *)
(* is stopped next (stream_runtime.go 869-881, 946-989); and a Snapshot shows all that  *)
(* anybody had been told of when it was called (851-863, 902-937).  All of it is in values  *)
(* of their types.                                                              *)
AnswersAreTrue ==
  /\ TypeOK /\ Running!TypeOK
  /\ WaitsAgree
  /\ Running!ControlTellsTheTruth /\ Running!UnrecordedEnds
  /\ Running!SnapshotsMoveForward

(* Every call returns of a stream that anything has stopped, whether it ran, never ran,  *)
(* or was about to (stream.go 288-312, stream_runtime.go 714-779); one of Control or     *)
(* Snapshot that a running stream has accepted does of itself, but for a control whose   *)
(* record waits for room (stream_runtime.go 315-327, 868-895, 914-989); and a control     *)
(* whose record was lost brings such a stop about (875-881).                         *)
EveryCallReturns ==
  StopFreesEveryCall /\ Running!EveryCallReturns /\ Running!UnrecordedStops

TwoStarters == {"start1", "start2"}
OneCloser   == {"close1"}
TwoShutters == {"shutdown1", "shutdown2"}
OneWaiter   == {"wait1"}
=============================================================================
