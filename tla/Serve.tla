-------------------------------- MODULE Serve --------------------------------
(***************************************************************************)
(* `mcproto serve` (cmd/mcproto/serve.go), which plays a script at one client    *)
(* after another and reports what it could not decode, and the session part of   *)
(* `mcproto capture` (capture.go), each over a stream that is recorded through a  *)
(* file sink.  A packet is its kind; module Script says what the steps are.      *)
(*                                                                         *)
(* Read returns what is queued before it looks at anything else, so its timer is   *)
(* let fire only when nothing is; timers are of seconds, so none fires while a    *)
(* stream is only waiting for its own goroutines to end.                        *)
(***************************************************************************)
EXTENDS Inlet

CONSTANT Settings  (* what is run, and what it may meet                          *)

ASSUME ServeAssumption ==
  \A s \in Settings :
    /\ s.command \in {"serve", "capture"} /\ s.interrupts \in BOOLEAN
    /\ s.script \in Seq([says : BOOLEAN, kind : STRING])
    /\ s.kinds \subseteq STRING /\ s.greetings \subseteq STRING
    /\ s.fates \subseteq {"whole", "short", "wrong"} /\ s.goings \subseteq {"leaves", "resets"}
    /\ {s.packets, s.keepAlives, s.sessions} \subseteq Nat

VARIABLE setting

Command       == setting.command     (* "serve" | "capture"                     *)
Script        == setting.script      (* steps [says: BOOLEAN, kind]              *)
Kinds         == setting.kinds       (* packets a client may send once it has greeted *)
Greetings     == setting.greetings   (* first packets: "login" | "ping" | "stranger" *)
                                     (* | another kind                         *)
Fates         == setting.fates       (* how a frame may turn out                *)
Goings        == setting.goings      (* how a client may go                    *)
Interrupts    == setting.interrupts  (* whether the user may interrupt the command *)
MaxPackets    == setting.packets     (* bound: packets a client sends            *)
MaxKeepAlives == setting.keepAlives  (* bound: keepalives written               *)
MaxSessions   == setting.sessions    (* bound: clients accepted                 *)

VARIABLES
  at,           (* where the command is                                      *)
  step,         (* steps of the script that are done                          *)
  served,       (* whether this connection was a login                        *)
  summary,      (* [written, read, mismatches, failures]                       *)
  printed,      (* the cause when the summary was printed, or "not yet"         *)
  keepAlives,   (* -1: no goroutine; else how many it has written              *)
  sink,         (* [observed, kept, open]                                     *)
  interrupted,
  sessions

harness == <<at, step, served, summary, printed, keepAlives, interrupted, sessions>>

vars == <<setting, inlet, harness, sink>>
-----------------------------------------------------------------------------
NoSummary == [written |-> 0, read |-> <<>>, mismatches |-> 0, failures |-> <<>>]

Fresh == [observed |-> 0, kept |-> 0, open |-> TRUE]

Init ==
  /\ setting \in Settings
  /\ Connected /\ at = "listening" /\ step = 0 /\ served = FALSE
  /\ summary = NoSummary /\ printed = "not yet" /\ keepAlives = -1
  /\ sink = Fresh /\ interrupted = FALSE /\ sessions = 0

(* Accept, serveStreamOptions and startServerStream.  A capture dials and logs    *)
(* in instead, which module Login has.                                        *)
Accept ==
  /\ at = "listening" /\ ~interrupted /\ sessions < MaxSessions
  /\ transit' = <<>> /\ peer' = "here" /\ held' = <<>> /\ inbox' = <<>>
  /\ cause' = "none" /\ phase' = "running" /\ arrived' = <<>>
  /\ at' = IF Command = "serve" THEN "greeting" ELSE "recording"
  /\ step' = 0 /\ served' = FALSE /\ summary' = NoSummary /\ printed' = "not yet"
  /\ keepAlives' = -1 /\ sink' = Fresh
  /\ sessions' = sessions + 1
  /\ UNCHANGED interrupted
-----------------------------------------------------------------------------
(* The client, the stream and its dispatcher.                                 *)
InSession == at \notin {"listening", "exited"}

Sent == Len(arrived) + Len(transit)

ClientSends ==
  /\ InSession /\ Sent < MaxPackets
  /\ \E kind \in IF Command = "serve" /\ Sent = 0 THEN Greetings ELSE Kinds :
       \E fate \in Fates : PeerSends(kind, fate)
  /\ UNCHANGED <<harness, sink>>

ClientGoes ==
  /\ InSession /\ \E how \in Goings : PeerGoes(how)
  /\ UNCHANGED <<harness, sink>>

(* A frame leaves a record, unless the stream is being stopped already.            *)
Recorded == [sink EXCEPT !.observed = @ + 1]

StreamDecodes ==
  /\ InSession /\ Decodes
  /\ sink' \in {Recorded} \cup (IF phase = "running" THEN {} ELSE {sink})
  /\ UNCHANGED harness

StreamGoesOn ==
  /\ InSession /\ (Drops \/ Leaves \/ SeesThePeerGo)
  /\ UNCHANGED <<harness, sink>>

(* It need not come to this: a grant waits for as long as the queue is full.        *)
StreamQueues == InSession /\ Queues /\ UNCHANGED <<harness, sink>>

(* The dispatcher hands the sink a record.  A sink that is closed refuses it,      *)
(* which ends the stream and the recording; Observe and Close of a FileSink in     *)
(* two goroutines are not synchronised, and are taken one after the other here.   *)
Delivers ==
  /\ InSession /\ phase # "done" /\ sink.open /\ sink.kept < sink.observed
  /\ sink' = [sink EXCEPT !.kept = @ + 1]
  /\ UNCHANGED <<inlet, harness>>

Refused ==
  /\ InSession /\ ~sink.open /\ sink.kept < sink.observed /\ phase = "running"
  /\ Ends("refused")
  /\ UNCHANGED <<transit, peer, held, inbox, arrived, harness, sink>>

(* The rest of run.  The dispatcher may leave at a stop whatever is queued, and     *)
(* drains only behind a shutdown that nobody cuts short.                          *)
StreamFinishes ==
  /\ InSession /\ phase = "left"
  /\ cause = "none" /\ ~interrupted => sink.kept = sink.observed
  /\ phase' = "done"
  /\ UNCHANGED <<transit, peer, held, inbox, cause, arrived, harness, sink>>

(* Ctrl-C: the stream's own context ends as well.                              *)
Interrupt ==
  /\ Interrupts /\ ~interrupted /\ at # "exited"
  /\ interrupted' = TRUE
  /\ IF InSession THEN Ends("interrupted") ELSE UNCHANGED <<cause, phase>>
  /\ UNCHANGED <<transit, peer, held, inbox, arrived, at, step, served, summary, printed,
                 keepAlives, sessions, sink>>
-----------------------------------------------------------------------------
(* Read with a deadline.                                                      *)
ReadEnds == inbox = <<>> /\ phase = "done"

ReadExpires == inbox = <<>> /\ phase = "running"

(* Write.                                                                     *)
Writes == phase = "running" /\ sink' = Recorded /\ UNCHANGED inlet

(* A write fails: at the transport, which ends the stream in the middle of what it    *)
(* is at; for a stream that ends; because it cannot be sent or has waited too long;    *)
(* or it is given up half way, which stops the stream.                             *)
WriteFails ==
  /\ \/ phase = "running" /\ peer # "here" /\ Breaks("unsent")
     \/ phase = "running" /\ Ends("unsent") /\ UNCHANGED held
     \/ UNCHANGED <<held, cause, phase>>
  /\ UNCHANGED <<transit, peer, inbox, arrived, sink>>

(* What the deferred calls are up to; the goroutine of the keepalives is told to   *)
(* end before the summary is printed.                                          *)
Leave ==
  /\ at' = "ended" /\ keepAlives' = -1
  /\ printed' = IF served' THEN cause ELSE printed
-----------------------------------------------------------------------------
(* readHandshake and what serveOne makes of it.                                *)
Greeted ==
  /\ at = "greeting" /\ TakesPacket
  /\ served' = (Head(inbox) = "login")
  /\ IF Head(inbox) \in {"login", "ping", "stranger"}
       THEN /\ at' = CASE Head(inbox) = "login"    -> "playing"
                       [] Head(inbox) = "ping"     -> "asked"
                       [] Head(inbox) = "stranger" -> "refusing"
            /\ UNCHANGED <<keepAlives, printed>>
       ELSE Leave
  /\ UNCHANGED <<step, summary, interrupted, sessions, sink>>

(* serveStatus: the request, the response, the ping, the echo.                  *)
Asked ==
  /\ at \in {"asked", "echoing"} /\ TakesPacket
  /\ at' = IF at = "asked" THEN "answering" ELSE "returning the ping"
  /\ UNCHANGED <<step, served, summary, printed, keepAlives, interrupted, sessions, sink>>

Answers ==
  /\ at \in {"answering", "returning the ping"} /\ Writes
  /\ at' = IF at = "answering" THEN "echoing" ELSE "ended"
  /\ UNCHANGED <<step, served, summary, printed, keepAlives, interrupted, sessions>>

(* A Shutdown with the reason, which may not go out; the coordinator ends with it,    *)
(* and the call returns when the stream is done.                               *)
Refuses ==
  /\ at = "refusing"
  /\ \/ /\ phase = "running" /\ \E why \in {"none", "unsent"} : Breaks(why)
        /\ sink' = Recorded /\ UNCHANGED at
     \/ phase = "done" /\ at' = "ended" /\ UNCHANGED <<held, cause, phase, sink>>
  /\ UNCHANGED <<transit, peer, inbox, arrived, step, served, summary, printed, keepAlives,
                 interrupted, sessions>>

(* Nobody answers a greeting or a question in time, or the stream is over.        *)
GivesUp ==
  /\ at \in {"greeting", "asked", "echoing"} /\ (ReadEnds \/ ReadExpires)
  /\ at' = "ended"
  /\ UNCHANGED <<inlet, step, served, summary, printed, keepAlives, interrupted, sessions, sink>>

AnswerFails ==
  /\ at \in {"answering", "returning the ping"} /\ WriteFails
  /\ at' = "ended"
  /\ UNCHANGED <<step, served, summary, printed, keepAlives, interrupted, sessions>>
-----------------------------------------------------------------------------
(* servePlayback.                                                             *)
Next1 == Script[step + 1]

Saying == at = "playing" /\ step < Len(Script) /\ Next1.says

Hearing == at = "playing" /\ step < Len(Script) /\ ~Next1.says

Says ==
  /\ Saying /\ Writes
  /\ step' = step + 1 /\ summary' = [summary EXCEPT !.written = @ + 1]
  /\ UNCHANGED <<at, served, printed, keepAlives, interrupted, sessions>>

SayFails ==
  /\ Saying /\ WriteFails /\ served' = served /\ Leave
  /\ UNCHANGED <<step, summary, interrupted, sessions>>

(* Faulty: a packet that the script does not wait for is not counted.             *)
HearsExpected ==
  /\ Hearing /\ TakesPacket
  /\ step' = IF Head(inbox) = Next1.kind THEN step + 1 ELSE step
  /\ summary' = IF Head(inbox) = Next1.kind
                  THEN [summary EXCEPT !.read = Append(@, Head(inbox))] ELSE summary
  /\ UNCHANGED <<at, served, printed, keepAlives, interrupted, sessions, sink>>

(* awaitFromClient counts whatever comes until it is what the script waits for.   *)
Hears ==
  /\ Hearing /\ TakesPacket
  /\ step' = IF Head(inbox) = Next1.kind THEN step + 1 ELSE step
  /\ summary' = [summary EXCEPT !.read = Append(@, Head(inbox))]
  /\ UNCHANGED <<at, served, printed, keepAlives, interrupted, sessions, sink>>

(* The time for the step is up, whatever came in it: a mismatch, and the script goes  *)
(* on.                                                                        *)
HearsNothing ==
  /\ Hearing
  /\ step' = step + 1 /\ summary' = [summary EXCEPT !.mismatches = @ + 1]
  /\ UNCHANGED <<inlet, at, served, printed, keepAlives, interrupted, sessions, sink>>

(* isSessionEnd of the error that Read returned.                               *)
SessionEnd == interrupted \/ IsEOF(cause)

(* awaitFromClient and drainClient on an error of Read that is no deadline.        *)
ReadFails ==
  /\ Hearing \/ at = "draining"
  /\ ReadEnds
  /\ summary' = IF SessionEnd THEN summary
                ELSE [summary EXCEPT !.failures = Append(@, cause)]
  /\ served' = served /\ Leave
  /\ UNCHANGED <<inlet, step, interrupted, sessions, sink>>

(* The script is over: the state is looked up and the keepalives start.           *)
StartsDraining ==
  /\ at = "playing" /\ step = Len(Script)
  /\ at' = "draining" /\ keepAlives' = IF phase = "running" THEN 0 ELSE -1
  /\ UNCHANGED <<inlet, step, served, summary, printed, interrupted, sessions, sink>>

Drains ==
  /\ at = "draining" /\ TakesPacket
  /\ summary' = [summary EXCEPT !.read = Append(@, Head(inbox))]
  /\ UNCHANGED <<at, step, served, printed, keepAlives, interrupted, sessions, sink>>

(* Faulty: a client that says nothing is waited for.                            *)
NeverIdle == at = "draining" /\ FALSE /\ UNCHANGED vars

(* The idle timer of drainClient.                                             *)
GoesIdle ==
  /\ at = "draining" /\ ReadExpires
  /\ served' = served /\ Leave
  /\ UNCHANGED <<inlet, step, summary, interrupted, sessions, sink>>

KeepsAlive ==
  /\ keepAlives \in 0..(MaxKeepAlives - 1)
  /\ \/ Writes /\ keepAlives' = keepAlives + 1
     \/ WriteFails /\ keepAlives' = -1
  /\ UNCHANGED <<at, step, served, summary, printed, interrupted, sessions>>
-----------------------------------------------------------------------------
(* readPlay of a capture: read, and answer what gates progress.                  *)
Records ==
  /\ at = "recording" /\ TakesPacket
  /\ at' \in {"recording", "replying"}
  /\ UNCHANGED <<step, served, summary, printed, keepAlives, interrupted, sessions, sink>>

Replies ==
  /\ at = "replying"
  /\ \/ Writes /\ at' = "recording"
     \/ WriteFails /\ at' = "ended"
  /\ UNCHANGED <<step, served, summary, printed, keepAlives, interrupted, sessions>>

StopsRecording ==
  /\ at = "recording" /\ (ReadEnds \/ ReadExpires)
  /\ at' = "ended"
  /\ UNCHANGED <<inlet, step, served, summary, printed, keepAlives, interrupted, sessions, sink>>
-----------------------------------------------------------------------------
(* The deferred calls of serveOne run last to first: the sink, then the stream.    *)
(* captureLogin closes its stream before runCapture closes the sink.             *)
Closes(what) ==
  at = IF (what = "sink") = (Command = "serve") THEN "ended" ELSE "closing"

AfterClosing(what) ==
  IF at = "ended" THEN "closing" ELSE "closed"

ClosesSink ==
  /\ Closes("sink")
  /\ sink' = [sink EXCEPT !.open = FALSE] /\ at' = AfterClosing("sink")
  /\ UNCHANGED <<inlet, step, served, summary, printed, keepAlives, interrupted, sessions>>

(* Close stops the stream and returns when it is done.                          *)
ClosesStream ==
  /\ Closes("stream")
  /\ \/ phase = "running" /\ Ends("closed") /\ UNCHANGED at
     \/ phase = "done" /\ at' = AfterClosing("stream") /\ UNCHANGED <<cause, phase>>
  /\ UNCHANGED <<transit, peer, held, inbox, arrived, step, served, summary, printed, keepAlives,
                 interrupted, sessions, sink>>

(* The loop around Accept: one login is enough.                                *)
Returns ==
  /\ at = "closed"
  /\ at' = IF served \/ Command = "capture" THEN "exited" ELSE "listening"
  /\ UNCHANGED <<inlet, step, served, summary, printed, keepAlives, interrupted, sessions, sink>>

Exits ==
  /\ at = "listening" /\ interrupted /\ at' = "exited"
  /\ UNCHANGED <<inlet, step, served, summary, printed, keepAlives, interrupted, sessions, sink>>
-----------------------------------------------------------------------------
Goroutines ==
  \/ StreamDecodes \/ StreamGoesOn \/ Delivers \/ Refused \/ StreamFinishes

Main ==
  \/ Greeted \/ Asked \/ Answers \/ AnswerFails \/ Refuses \/ GivesUp
  \/ Says \/ SayFails \/ Hears \/ HearsNothing \/ ReadFails
  \/ StartsDraining \/ Drains \/ GoesIdle
  \/ Records \/ Replies \/ StopsRecording
  \/ ClosesSink \/ ClosesStream \/ Returns \/ Exits

Next ==
  /\ \/ Accept \/ ClientSends \/ ClientGoes \/ Interrupt \/ KeepsAlive
     \/ StreamQueues \/ Goroutines \/ Main
  /\ UNCHANGED setting

Spec == Init /\ [][Next]_vars

(* The command and the goroutines of its stream run, and timers fire.             *)
FairSpec ==
  Spec /\ WF_vars(Goroutines /\ UNCHANGED setting) /\ WF_vars(Main /\ UNCHANGED setting)
-----------------------------------------------------------------------------
TypeOK ==
  /\ peer \in Goings \cup {"here"} /\ phase \in {"running", "stopping", "left", "done"}
  /\ at \in {"listening", "greeting", "asked", "answering", "echoing", "returning the ping",
            "refusing", "playing", "draining", "recording", "replying", "ended", "closing",
            "closed", "exited"}
  /\ step \in 0..Len(Script) /\ served \in BOOLEAN /\ interrupted \in BOOLEAN
  /\ summary.written + summary.mismatches \in 0..Len(Script)
  /\ keepAlives \in -1..MaxKeepAlives /\ sessions \in 0..MaxSessions
  /\ sink.kept \in 0..sink.observed

(* "Every packet the client sends is decoded and counted" (serve.go:29): what a     *)
(* served client sent after its greeting has been counted, in its order and once,    *)
(* whichever of the two loops of the playback read it; all but what still waits to   *)
(* be read while the stream runs, and but what the stream lost when it ended.        *)
CountsWhatArrived == served => ReadsInOrder(<<"login">> \o summary.read)

(* The script says nothing, no frame ends where a field begins, and nobody is reset   *)
(* or interrupted: then no write meets a frame, and what cannot be decoded is an    *)
(* error of Read that does not wrap io.EOF.                                     *)
OnlyListens ==
  /\ \A i \in 1..Len(Script) : ~Script[i].says
  /\ "short" \notin Fates /\ Goings \subseteq {"leaves"}
  /\ ~Interrupts /\ MaxKeepAlives = 0

(* "and a decode failure is the result the harness exists to produce" (serve.go:30) *)
(* : a session that ended on a frame that could not be decoded is never summed up   *)
(* as "no packet the client sent failed to decode" (serve.go:668).                *)
FindingsAreReported == printed \in Undecodable => summary.failures # <<>>

(* "A client that leaves is how a session ends, not a defect" (serve.go:552-554):  *)
(* every failure of a summary is a frame that arrived and could not be read.       *)
FailuresAreFindings ==
  \A i \in DOMAIN summary.failures : summary.failures[i] \in Undecodable

(* A capture closes its file only behind the stream whose records go there, and no     *)
(* record is ever refused for that (capture.go:169-172, 121-126).                   *)
FileOutlivesStream ==
  Command = "capture" => (sink.open \/ phase = "done") /\ cause # "refused"

(* "Closing the stream drains the observations still queued, which is what makes   *)
(* the capture end where the connection did rather than a few records short of it" *)
(* (capture.go:169-171): the file of a capture that has closed its stream, which ran   *)
(* until then, holds every record.                                              *)
CaptureEndsWithConnection ==
  Command = "capture" /\ at = "closed" /\ cause = "closed" => sink.kept = sink.observed
=============================================================================
