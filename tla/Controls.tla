------------------------------ MODULE Controls ------------------------------
(***************************************************************************)
(* Control and Snapshot of a running stream (stream_runtime.go 855-989): calls   *)
(* of many goroutines, served one at a time by the coordinator between frames,   *)
(* while contexts end and the stream is shut down or stopped.  The coordinator   *)
(* has other things to do, which may take for ever: a write to a peer that does    *)
(* not read, a record that finds no room.  The configuration is the sequence of   *)
(* the controls that took effect.                                             *)
(***************************************************************************)
EXTENDS Naturals, Sequences, SequencesExt, FiniteSetsExt

CONSTANTS
  SessionControls,    (* calls of Control with a control of the session         *)
  TransportControls,  (* calls of Control that install ciphers on the conduit   *)
  Snapshots           (* calls of Snapshot                                    *)

ControlsAssumption ==
  /\ SessionControls \intersect TransportControls = {}
  /\ (SessionControls \union TransportControls) \intersect Snapshots = {}

Controlling == SessionControls \union TransportControls
Calls == Controlling \union Snapshots

VARIABLES
  stopping, done,  (* the two channels of the stream, closed                   *)
  closing,         (* a Shutdown has begun                                    *)
  coordinator,     (* "loop", "elsewhere" with a frame, a write or a shutdown,  *)
                   (* "recording" a control, "failing", "gone"                *)
  room,            (* for the record it is at: "none" while there is none,      *)
                   (* "awaited" | "granted" | "refused"                       *)
  applied,         (* the controls in force, in the order they took effect      *)
  at,              (* "new", "offering", "waiting" or "returned"               *)
  answer,          (* the buffered result channel of a call: "none" while empty *)
  result,          (* what a call returned: "none" until it does               *)
  view,            (* how much of `applied` the answer to a Snapshot shows      *)
  known            (* how much of it somebody had been told of when a Snapshot  *)
                   (* was called                                              *)

stream == <<stopping, done, closing, coordinator, room>>

vars == <<stream, applied, at, answer, result, view, known>>

Init ==
  /\ stopping = FALSE /\ done = FALSE /\ closing = FALSE
  /\ coordinator = "loop" /\ room = "none"
  /\ applied = <<>>
  /\ at = [c \in Calls |-> "new"]
  /\ answer = [c \in Calls |-> "none"] /\ result = [c \in Calls |-> "none"]
  /\ view = [c \in Snapshots |-> 0] /\ known = [c \in Snapshots |-> 0]
-----------------------------------------------------------------------------
Returns(c, what) ==
  /\ at' = [at EXCEPT ![c] = "returned"]
  /\ result' = [result EXCEPT ![c] = what]
  /\ UNCHANGED <<stream, applied, answer, view, known>>

(* The longest configuration that a call which has returned vouches for.        *)
ToldOf ==
  Max({0} \union {view[c] : c \in {s \in Snapshots : result[s] = "ok"}}
          \union {i \in DOMAIN applied : result[applied[i]] = "ok"})

Offers(c) ==
  /\ at' = [at EXCEPT ![c] = "offering"]
  /\ known' = IF c \in Snapshots THEN [known EXCEPT ![c] = ToldOf] ELSE known
  /\ UNCHANGED <<stream, applied, answer, result, view>>

(* A Control of a stream that is not writable is refused; a Snapshot goes on to   *)
(* the select whatever the stream is doing.                                    *)
Ask(c) ==
  /\ at[c] = "new"
  /\ \/ c \in Controlling /\ (stopping \/ closing) /\ Returns(c, "refused")
     \/ (c \in Snapshots \/ ~(stopping \/ closing)) /\ Offers(c)

(* The context ends before the coordinator takes the request: nothing happened.  *)
GivesUp(c) == at[c] = "offering" /\ Returns(c, "cancelled")

Refused(c) == at[c] = "offering" /\ stopping /\ Returns(c, "refused")
-----------------------------------------------------------------------------
(* The coordinator's answer goes into a channel with room for it.              *)
Answers(c, what) ==
  /\ at' = [at EXCEPT ![c] = "waiting"]
  /\ answer' = [answer EXCEPT ![c] = what]
  /\ UNCHANGED <<done, closing, result, known>>

Served(c) == coordinator = "loop" /\ at[c] = "offering"

Rejects(c) ==
  /\ Served(c) /\ c \in Controlling
  /\ Answers(c, "error") /\ UNCHANGED <<stopping, coordinator, room, applied, view>>

Applies(c) ==
  /\ Served(c) /\ c \in SessionControls
  /\ applied' = Append(applied, c)
  /\ Answers(c, "ok") /\ UNCHANGED <<stopping, coordinator, room, view>>

(* A second cipher is always an error.                                         *)
Switchable(c) == c \in TransportControls => ToSet(applied) \intersect TransportControls = {}

(* The cipher is in, its record asks for room in the budget that everybody shares  *)
(* and may never fit.  Where nothing has to be recorded it is as if there were room.  *)
Switches(c) ==
  /\ Served(c) /\ c \in TransportControls /\ Switchable(c)
  /\ applied' = Append(applied, c)
  /\ coordinator' = "recording" /\ room' \in {"awaited", "granted", "refused"}
  /\ Answers(c, "none") /\ UNCHANGED <<stopping, view>>

(* Somebody reads a packet, or the sink is done with a record.                    *)
MakesRoom ==
  /\ coordinator = "recording" /\ room = "awaited" /\ room' = "granted"
  /\ UNCHANGED <<stopping, done, closing, coordinator, applied, at, answer, result, view,
                 known>>

Recording(c) ==
  /\ coordinator = "recording" /\ c \in TransportControls
  /\ at[c] = "waiting" /\ answer[c] = "none"

Records(c) ==
  /\ Recording(c) /\ room = "granted" /\ coordinator' = "loop" /\ room' = "none"
  /\ Answers(c, "ok") /\ UNCHANGED <<stopping, applied, view>>

(* Faulty: the stream goes on after the record was lost.                        *)
ShrugsOff(c) ==
  /\ Recording(c) /\ (room = "refused" \/ stopping)
  /\ coordinator' = "loop" /\ room' = "none"
  /\ Answers(c, "error") /\ UNCHANGED <<stopping, applied, view>>

(* The caller has the error before the stream knows of it.                        *)
FailsToRecord(c) ==
  /\ Recording(c) /\ (room = "refused" \/ stopping)
  /\ coordinator' = "failing" /\ room' = "none"
  /\ Answers(c, "error") /\ UNCHANGED <<stopping, applied, view>>

StopsUnrecorded ==
  /\ coordinator = "failing" /\ coordinator' = "loop" /\ stopping' = TRUE
  /\ UNCHANGED <<done, closing, room, applied, at, answer, result, view, known>>

Shows(c) ==
  /\ Served(c) /\ c \in Snapshots
  /\ view' = [view EXCEPT ![c] = Len(applied)]
  /\ Answers(c, "ok") /\ UNCHANGED <<stopping, coordinator, room, applied>>

(* The answer and the stop are both ready: the coordinator may leave without      *)
(* answering.                                                                 *)
ShowsNothing(c) ==
  /\ Served(c) /\ c \in Snapshots /\ stopping
  /\ coordinator' = "gone"
  /\ Answers(c, "none") /\ UNCHANGED <<stopping, room, applied, view>>

Serve(c) ==
  \/ Rejects(c) \/ Applies(c) \/ Switches(c) \/ Records(c) \/ FailsToRecord(c)
  \/ Shows(c) \/ ShowsNothing(c)
-----------------------------------------------------------------------------
Moves(point) ==
  /\ coordinator' = point
  /\ UNCHANGED <<stopping, done, closing, room, applied, at, answer, result, view, known>>

(* A frame, a write or a shutdown; one that is still taken after the stop is no     *)
(* different from none.                                                       *)
GoesElsewhere == coordinator = "loop" /\ ~stopping /\ Moves("elsewhere")

ComesBack == coordinator = "elsewhere" /\ Moves("loop")

(* The stop, or a frame or write that failed on it.                               *)
CoordinatorEnds == coordinator \in {"loop", "elsewhere"} /\ stopping /\ Moves("gone")

(* A shutdown ends the loop before the stream is stopped.                          *)
ShutdownEnds == coordinator = "elsewhere" /\ closing /\ ~stopping /\ Moves("gone")

Coordinator ==
  \/ GoesElsewhere \/ ComesBack \/ CoordinatorEnds \/ ShutdownEnds \/ StopsUnrecorded
  \/ \E c \in Calls : Serve(c)

ShutdownBegins ==
  /\ ~closing /\ closing' = TRUE
  /\ UNCHANGED <<stopping, done, coordinator, room, applied, at, answer, result, view, known>>

(* Somebody stops the stream; the supervisor does so behind the coordinator, and    *)
(* then it is over.                                                            *)
Stop ==
  /\ ~stopping /\ stopping' = TRUE
  /\ UNCHANGED <<done, closing, coordinator, room, applied, at, answer, result, view, known>>

SupervisorStops == coordinator = "gone" /\ Stop

Finish ==
  /\ coordinator = "gone" /\ stopping /\ ~done /\ done' = TRUE
  /\ UNCHANGED <<stopping, closing, coordinator, room, applied, at, answer, result, view,
                 known>>
-----------------------------------------------------------------------------
TakesAnswer(c) == at[c] = "waiting" /\ answer[c] # "none" /\ Returns(c, answer[c])

(* Only a Snapshot still listens to its context once it was accepted.             *)
StopsWaiting(c) == at[c] = "waiting" /\ c \in Snapshots /\ Returns(c, "cancelled")

(* The stream ended without an answer.                                          *)
RefusedLate(c) == at[c] = "waiting" /\ done /\ answer[c] = "none" /\ Returns(c, "refused")

GoesOn(c) == Refused(c) \/ TakesAnswer(c) \/ RefusedLate(c)

Next ==
  \/ \E c \in Calls : Ask(c) \/ GivesUp(c) \/ StopsWaiting(c) \/ GoesOn(c)
  \/ Coordinator \/ MakesRoom \/ ShutdownBegins \/ Stop \/ Finish

Spec == Init /\ [][Next]_vars

(* The coordinator runs while it has something to do, but nothing obliges a peer to  *)
(* read or anybody to make room, so it comes back from elsewhere only once the stop   *)
(* has interrupted the transport.  Behind it the sink returns, the linger is over in  *)
(* time, and the stream is stopped and finished.  A call that can go on does.  No     *)
(* context need end.                                                          *)
Fairness ==
  /\ WF_vars(CoordinatorEnds \/ StopsUnrecorded \/ \E c \in Calls : Serve(c))
  /\ WF_vars(SupervisorStops) /\ WF_vars(Finish)
  /\ \A c \in Calls : WF_vars(GoesOn(c))
-----------------------------------------------------------------------------
TypeOK ==
  /\ stopping \in BOOLEAN /\ done \in BOOLEAN /\ closing \in BOOLEAN
  /\ coordinator \in {"loop", "elsewhere", "recording", "failing", "gone"}
  /\ room \in {"none", "awaited", "granted", "refused"}
  /\ IsInjective(applied) /\ ToSet(applied) \subseteq Controlling
  /\ \A c, d \in ToSet(applied) \intersect TransportControls : c = d
  /\ at \in [Calls -> {"new", "offering", "waiting", "returned"}]
  /\ answer \in [Calls -> {"none", "ok", "error"}]
  /\ result \in [Calls -> {"none", "ok", "error", "cancelled", "refused"}]
  /\ \A c \in Snapshots : view[c] <= Len(applied) /\ known[c] <= Len(applied)

(* A caller of Control can tell what the session is doing: without an error the    *)
(* control is in force, and after a cancellation or the refusal of a stream that   *)
(* ends it never was and never will be (stream_runtime.go 946-989).             *)
ControlTellsTheTruth ==
  \A c \in Controlling :
    /\ result[c] = "ok" => c \in ToSet(applied)
    /\ result[c] \in {"cancelled", "refused"} => c \notin ToSet(applied)

(* A control in force whose caller is told of an error leaves nobody with a stream   *)
(* that runs on in an unrecorded configuration: it has been stopped, or the          *)
(* coordinator, which serves nobody before, is about to (stream_runtime.go 875-881).   *)
UnrecordedEnds ==
  \A c \in Controlling :
    answer[c] = "error" /\ c \in ToSet(applied) => stopping \/ coordinator = "failing"

(* And it is stopped, whether or not anybody else ever would.                    *)
UnrecordedStops ==
  (\E c \in Controlling : answer[c] = "error" /\ c \in ToSet(applied)) ~> stopping

(* Snapshots only move forward: one that is returned shows every control whose      *)
(* caller had been told of it, and all that any earlier snapshot had shown, when    *)
(* it was called (stream_runtime.go 851-863, 902-937).                         *)
SnapshotsMoveForward == \A c \in Snapshots : result[c] = "ok" => view[c] >= known[c]

(* Every call that was made returns once the stream has been stopped or the          *)
(* coordinator has left it for a shutdown, whatever the call or the coordinator was    *)
(* waiting for; and before that one that was accepted returns, unless it is a control  *)
(* whose record still waits for room, for which nobody need ever stop waiting         *)
(* (stream_runtime.go 315-327, 868-895, 914-989, observation.go 169).              *)
MustReturn(c) ==
  \/ at[c] # "new" /\ (stopping \/ coordinator = "gone")
  \/ at[c] = "waiting" /\ ~(Recording(c) /\ room = "awaited")

EveryCallReturns == \A c \in Calls : MustReturn(c) ~> at[c] = "returned"
=============================================================================
