----------------------------- MODULE MCCommands -----------------------------
(***************************************************************************)
(* Who reads a stream and says afterwards how it went: `mcproto serve` with a      *)
(* script that speaks and listens and with one that only listens, the session of    *)
(* `mcproto capture`, and a router.  All four stand on the stream of Inlet; a        *)
(* behaviour is of one of them, a command or the router.                          *)
(***************************************************************************)
EXTENDS Serve

CONSTANTS Keys, Handlers, NoHandler, MaxHandlers, MaxRouted

VARIABLES
  part,         (* "command" | "route"                                        *)
  handlers, fallback, running, pending, counted, calls, returned, cancelled   (* Router *)

routing == <<handlers, fallback, running, pending, counted, calls, returned, cancelled>>

Routes == INSTANCE Router WITH
  MaxPackets <- MaxRouted, Fates <- {"whole", "wrong"}, Goings <- {"leaves", "resets"}

ASSUME RoutesAssumption == Routes!RouterAssumption
-----------------------------------------------------------------------------
Hear(kind) == [says |-> FALSE, kind |-> kind]
Say(kind)  == [says |-> TRUE, kind |-> kind]

Conversing ==
  [command |-> "serve", script |-> <<Hear("start"), Say("accept"), Hear("done")>>,
   kinds |-> {"start", "done"}, greetings |-> {"login", "ping", "stranger", "done"},
   fates |-> {"whole", "short"}, goings |-> {"leaves", "resets"},
   interrupts |-> TRUE, packets |-> 3, keepAlives |-> 1, sessions |-> 1]

Listening ==
  [command |-> "serve", script |-> <<Hear("start"), Hear("done")>>,
   kinds |-> {"start", "done", "chat"}, greetings |-> {"login", "stranger"},
   fates |-> {"whole", "wrong"}, goings |-> {"leaves"},
   interrupts |-> FALSE, packets |-> 3, keepAlives |-> 0, sessions |-> 2]

Capturing ==
  [Conversing EXCEPT !.command = "capture", !.script = <<>>, !.packets = 2,
                      !.keepAlives = 0]

TheSettings == {Conversing, Listening, Capturing}
-----------------------------------------------------------------------------
(* The router has no use for a setting.                                        *)
CommandsInit ==
  /\ part \in {"command", "route"}
  /\ part = "route" => setting = CHOOSE s \in Settings : TRUE
  /\ Init /\ Routes!Init

CommandsNext ==
  /\ UNCHANGED part
  /\ \/ part = "command" /\ Next /\ UNCHANGED routing
     \/ part = "route" /\ Routes!Next /\ UNCHANGED <<setting, harness, sink>>

CommandsSpec ==
  /\ CommandsInit /\ [][CommandsNext]_<<part, vars, routing>>
  /\ WF_vars(part = "command" /\ Goroutines /\ UNCHANGED setting)
  /\ WF_vars(part = "command" /\ Main /\ UNCHANGED setting)
-----------------------------------------------------------------------------
(* What a command says of a session is so.  `serve` counts what arrived, in order and   *)
(* but for what the stream lost at its end (serve.go 29-31), and where its script only   *)
(* listens it reports every frame that could not be read and nothing else (serve.go      *)
(* 552-554); a capture's file is there for as long as its stream is (capture.go 169-172);  *)
(* and a router has run, in order, everything registered for each packet that the        *)
(* stream queued, and returns nil only behind a peer that left (router.go 83-85,          *)
(* 137-138, 189, 255-256).                                                        *)
ReportsAreTrue ==
  /\ part = "command" /\ Command = "serve" => TypeOK /\ CountsWhatArrived
  /\ part = "command" /\ Command = "serve" /\ OnlyListens =>
       FindingsAreReported /\ FailuresAreFindings
  /\ part = "command" => FileOutlivesStream
  /\ part = "route" =>
       /\ Routes!TypeOK /\ Routes!CountsInOrder /\ Routes!HandledAsRegistered
       /\ Routes!EndsHavingHandledAll /\ Routes!NilMeansClean

(* A client that falls silent, leaves or sends what cannot be read never keeps the       *)
(* command: a session of `serve` ends, and the next client is accepted or the command   *)
(* is over (serve.go 470, 549-559).                                              *)
EverySessionEnds ==
  part = "command" /\ Command = "serve" /\ InSession ~> at \in {"listening", "exited"}
=============================================================================
