------------------------------ MODULE Lifecycle ------------------------------
(***************************************************************************)
(* Start, Close, Shutdown and Wait of one stream (stream.go, stream_runtime.go)  *)
(* called from any number of goroutines at once, with the goroutine that Start   *)
(* leaves behind.  Module Stream has what runs inside; here it is one process    *)
(* that may end by itself.  Every atomic load, compare-and-swap and sync.Once    *)
(* is a step of its own, and a transport's Interrupt takes its time.            *)
(***************************************************************************)
EXTENDS Naturals, FiniteSets

CONSTANTS
  Starters, Closers, Shutters, Waiters   (* the calls made, by what they call *)

ASSUME LifecycleAssumption ==
  /\ Starters \intersect Closers = {} /\ Starters \intersect Shutters = {}
  /\ Starters \intersect Waiters = {} /\ Closers \intersect Shutters = {}
  /\ Closers \intersect Waiters = {} /\ Shutters \intersect Waiters = {}

Calls == Starters \union Closers \union Shutters \union Waiters

VARIABLES
  started,     (* Stream.started                                            *)
  stopping,    (* stopOnce: "no", "interrupting" while the first call of stop  *)
               (* is inside Interrupt, "done"                               *)
  done,        (* the channel done is closed                                 *)
  cause,       (* the first cause: "unset", "none" after succeed, or what     *)
               (* failed                                                    *)
  shutdown,    (* shutdownOnce: "no", "running", or the result                *)
  request,     (* the shutdown request: "none", "offered", "taken", or answered *)
  runner,      (* the goroutine supervise: "none", "running", "stopping",      *)
               (* "over"                                                    *)
  at,          (* where each call is                                        *)
  result       (* what each call returned, "pending" until it does           *)

vars == <<started, stopping, done, cause, shutdown, request, runner, at, result>>

Init ==
  /\ started = FALSE /\ stopping = "no" /\ done = FALSE /\ cause = "unset"
  /\ shutdown = "no" /\ request = "none" /\ runner = "none"
  /\ at = [c \in Calls |-> "new"]
  /\ result = [c \in Calls |-> "pending"]
-----------------------------------------------------------------------------
Goes(c, place) == at' = [at EXCEPT ![c] = place] /\ UNCHANGED result

Returns(c, what) ==
  /\ at' = [at EXCEPT ![c] = "returned"]
  /\ result' = [result EXCEPT ![c] = what]

(* fail and succeed: the first one wins.                                      *)
Fail(why) == cause' = IF cause = "unset" THEN why ELSE cause

(* rejection, once closing is set.                                             *)
Rejection ==
  IF cause \notin {"unset", "none"} THEN cause
  ELSE IF done THEN "closed" ELSE "closing"

(* stop: the first caller closes the channel and interrupts the transport, and   *)
(* any other waits for it inside the Once.                                    *)
BeginStop == stopping' = IF stopping = "no" THEN "interrupting" ELSE stopping

Interrupted ==
  /\ stopping = "interrupting"
  /\ stopping' = "done"
  /\ UNCHANGED <<started, done, cause, shutdown, request, runner, at, result>>
-----------------------------------------------------------------------------
(* Faulty: the flag is read, and set in a step of its own.                     *)
StartUnswapped(c) ==
  /\ at[c] = "new"
  /\ IF started THEN Returns(c, "already started") ELSE Goes(c, "swapped")
  /\ UNCHANGED <<started, stopping, done, cause, shutdown, request, runner>>

StartSwaps(c) ==
  /\ at[c] = "new"
  /\ started' = TRUE
  /\ IF started THEN Returns(c, "already started") ELSE Goes(c, "swapped")
  /\ UNCHANGED <<stopping, done, cause, shutdown, request, runner>>

StartRuns(c) ==
  /\ at[c] = "swapped"
  /\ started' = TRUE
  /\ \/ done /\ Returns(c, "closed") /\ UNCHANGED runner
     \/ ~done /\ Returns(c, "ok") /\ runner' = "running"
  /\ UNCHANGED <<stopping, done, cause, shutdown, request>>

Start(c) == StartSwaps(c) \/ StartRuns(c)

CloseStops(c) ==
  /\ at[c] = "new"
  /\ Fail("closed") /\ BeginStop /\ Goes(c, "stopping")
  /\ UNCHANGED <<started, done, shutdown, request, runner>>

(* Faulty: Close does not wait for a stop that another call has begun.          *)
CloseFinishesEarly(c) ==
  /\ at[c] = "stopping"
  /\ done' = (done \/ ~started)
  /\ Goes(c, "waiting")
  /\ UNCHANGED <<started, stopping, cause, shutdown, request, runner>>

(* Faulty: Close leaves finishing to supervise, of a stream that never started too. *)
CloseOnlyWaits(c) ==
  /\ at[c] = "stopping" /\ stopping = "done"
  /\ Goes(c, "waiting")
  /\ UNCHANGED <<started, stopping, done, cause, shutdown, request, runner>>

(* Close reads `started` and, when nothing will ever run, finishes.            *)
CloseLoads(c) ==
  /\ at[c] = "stopping" /\ stopping = "done"
  /\ Goes(c, IF started THEN "waiting" ELSE "finishing")
  /\ UNCHANGED <<started, stopping, done, cause, shutdown, request, runner>>

CloseFinishes(c) ==
  /\ at[c] = "finishing"
  /\ done' = TRUE /\ Goes(c, "waiting")
  /\ UNCHANGED <<started, stopping, cause, shutdown, request, runner>>

CloseReturns(c) ==
  /\ at[c] = "waiting" /\ done /\ Returns(c, "ok")
  /\ UNCHANGED <<started, stopping, done, cause, shutdown, request, runner>>

Close(c) == CloseStops(c) \/ CloseLoads(c) \/ CloseFinishes(c) \/ CloseReturns(c)

(* Wait: of a stream that neither runs nor has ended it makes no sense.         *)
WaitLoads(c) ==
  /\ at[c] = "new"
  /\ IF ~started /\ ~done THEN Returns(c, "not started") ELSE Goes(c, "waiting")
  /\ UNCHANGED <<started, stopping, done, cause, shutdown, request, runner>>

WaitReturns(c) ==
  /\ at[c] = "waiting" /\ done /\ Returns(c, cause)
  /\ UNCHANGED <<started, stopping, done, cause, shutdown, request, runner>>

Wait(c) == WaitLoads(c) \/ WaitReturns(c)
-----------------------------------------------------------------------------
(* shutdownOnce: the first call runs shutdown, the others wait for its result.   *)
ShutdownEnters(c) ==
  /\ at[c] = "new" /\ shutdown = "no"
  /\ shutdown' = "running"
  /\ Goes(c, IF ~started THEN "unstarted" ELSE "sending")
  /\ UNCHANGED <<started, stopping, done, cause, request, runner>>

(* Of a stream that was not started: fail, stop, finish.                       *)
ShutdownStops(c) ==
  /\ at[c] = "unstarted"
  /\ Fail("closed") /\ BeginStop /\ Goes(c, "stopped")
  /\ UNCHANGED <<started, done, shutdown, request, runner>>

ShutdownFinishes(c) ==
  /\ at[c] = "stopped" /\ stopping = "done"
  /\ done' = TRUE /\ shutdown' = "not started" /\ Goes(c, "waiting")
  /\ UNCHANGED <<started, stopping, cause, request, runner>>

(* shutdown hands its request to the coordinator, unless the stream has ended.   *)
ShutdownSends(c) ==
  /\ at[c] = "sending"
  /\ \/ ~done /\ request' = "offered" /\ Goes(c, "asking") /\ UNCHANGED shutdown
     \/ done /\ shutdown' = Rejection /\ Goes(c, "waiting") /\ UNCHANGED request
  /\ UNCHANGED <<started, stopping, done, cause, runner>>

(* The stop wins over the hand-over.                                          *)
ShutdownRefused(c) ==
  /\ at[c] = "asking" /\ request = "offered" /\ stopping # "no"
  /\ request' = "none" /\ shutdown' = Rejection /\ Goes(c, "waiting")
  /\ UNCHANGED <<started, stopping, done, cause, runner>>

(* abortShutdown: the context of the call ends.                               *)
ShutdownAborts(c) ==
  /\ at[c] = "asking" /\ request \in {"offered", "taken"}
  /\ Fail("not finished") /\ BeginStop /\ Goes(c, "aborting")
  /\ request' = IF request = "offered" THEN "none" ELSE request
  /\ UNCHANGED <<started, done, shutdown, runner>>

ShutdownAborted(c) ==
  /\ at[c] = "aborting" /\ stopping = "done"
  /\ shutdown' = "not finished" /\ Goes(c, "waiting")
  /\ UNCHANGED <<started, stopping, done, cause, request, runner>>

(* The answer, or the end of the stream without one.                          *)
ShutdownAnswered(c) ==
  /\ at[c] = "asking"
  /\ \/ request \in {"ok", "failed"} /\ shutdown' = request
     \/ request = "taken" /\ done /\ shutdown' = Rejection
  /\ Goes(c, "waiting")
  /\ UNCHANGED <<started, stopping, done, cause, request, runner>>

ShutdownJoins(c) ==
  /\ at[c] = "new" /\ shutdown \notin {"no", "running"}
  /\ Goes(c, "waiting")
  /\ UNCHANGED <<started, stopping, done, cause, shutdown, request, runner>>

ShutdownReturns(c) ==
  /\ at[c] = "waiting" /\ done /\ Returns(c, shutdown)
  /\ UNCHANGED <<started, stopping, done, cause, shutdown, request, runner>>

ShutdownGoesOn(c) ==
  \/ ShutdownEnters(c) \/ ShutdownStops(c) \/ ShutdownFinishes(c) \/ ShutdownSends(c)
  \/ ShutdownRefused(c) \/ ShutdownAborted(c) \/ ShutdownAnswered(c)
  \/ ShutdownJoins(c) \/ ShutdownReturns(c)

Shutdown(c) == ShutdownGoesOn(c) \/ ShutdownAborts(c)
-----------------------------------------------------------------------------
(* The coordinator takes the request and answers it, unless a stop is noticed.   *)
RunnerTakes ==
  /\ runner = "running" /\ request = "offered"
  /\ request' = "taken"
  /\ UNCHANGED <<started, stopping, done, cause, shutdown, runner, at, result>>

RunnerAnswers ==
  /\ runner = "running" /\ request = "taken"
  /\ \/ request' = "ok" /\ cause' = IF cause = "unset" THEN "none" ELSE cause
     \/ request' = "failed" /\ Fail("failed")
  /\ UNCHANGED <<started, stopping, done, shutdown, runner, at, result>>

(* The run ends: a pump, the pre-frame hook or the context has a reason of its   *)
(* own, the shutdown was answered, or somebody stopped the stream.             *)
RunnerStops ==
  /\ runner = "running" /\ runner' = "stopping"
  /\ \/ stopping # "no" /\ request # "taken" /\ UNCHANGED cause
     \/ request \in {"ok", "failed"} /\ UNCHANGED cause
     \/ request # "taken" /\ (cause' = (IF cause = "unset" THEN "none" ELSE cause)
                               \/ Fail("failed"))
  /\ BeginStop
  /\ UNCHANGED <<started, done, shutdown, request, at, result>>

(* The pumps are unblocked by the interrupt; supervise finishes.               *)
RunnerFinishes ==
  /\ runner = "stopping" /\ stopping = "done"
  /\ runner' = "over" /\ done' = TRUE
  /\ UNCHANGED <<started, stopping, cause, shutdown, request, at, result>>

Runner == RunnerTakes \/ RunnerAnswers \/ RunnerStops \/ RunnerFinishes

Next ==
  \/ \E c \in Starters : Start(c)
  \/ \E c \in Closers  : Close(c)
  \/ \E c \in Waiters  : Wait(c)
  \/ \E c \in Shutters : Shutdown(c)
  \/ Interrupted \/ Runner

Spec == Init /\ [][Next]_vars

(* A call that has been made goes on, the run ends once it is stopped, and a     *)
(* transport's Interrupt returns.  No call need be made, no context need end, and *)
(* a peer that does not read may keep the coordinator from answering (module      *)
(* Stream, ShutdownEnds) for as long as nobody stops the stream.                *)
Made(c) == at[c] # "new" \/ (c \in Shutters /\ shutdown # "no")

RunnerUnblocked ==
  /\ stopping # "no" \/ request \in {"ok", "failed"}
  /\ RunnerAnswers \/ RunnerStops

Fairness ==
  /\ WF_vars(Interrupted)
  /\ WF_vars(RunnerUnblocked) /\ WF_vars(RunnerFinishes)
  /\ \A c \in Starters : WF_vars(StartRuns(c))
  /\ \A c \in Closers  : WF_vars(Made(c) /\ Close(c))
  /\ \A c \in Waiters  : WF_vars(Made(c) /\ Wait(c))
  /\ \A c \in Shutters : WF_vars(Made(c) /\ ShutdownGoesOn(c))

FairSpec == Spec /\ Fairness
-----------------------------------------------------------------------------
Causes == {"unset", "none", "closed", "failed", "not finished"}
Reasons == {"closed", "closing", "failed", "not finished", "not started"}

TypeOK ==
  /\ started \in BOOLEAN /\ done \in BOOLEAN
  /\ stopping \in {"no", "interrupting", "done"}
  /\ cause \in Causes
  /\ shutdown \in {"no", "running", "ok"} \union Reasons
  /\ request \in {"none", "offered", "taken", "ok", "failed"}
  /\ runner \in {"none", "running", "stopping", "over"}
  /\ at \in [Calls -> {"new", "swapped", "stopping", "finishing", "waiting", "unstarted",
                        "stopped", "sending", "asking", "aborting", "returned"}]
  /\ result \in [Calls -> {"pending", "ok", "already started"} \union Causes \union Reasons]

(* However many calls of Start race, with each other and with what ends the        *)
(* stream, one goroutine at most runs it, and exactly the call that launched it    *)
(* is told so (stream.go 242-251).                                             *)
OneRun ==
  Cardinality({c \in Starters : result[c] = "ok"}) = IF runner = "none" THEN 0 ELSE 1

(* Nobody learns that the stream is over while its transport may still be blocked:  *)
(* done is closed only behind an Interrupt that has returned, whichever of Close,  *)
(* Shutdown and supervise closes it (stream.go 288-300, 352-365).              *)
DoneMeansInterrupted == done => stopping = "done"

(* Every Wait tells the same story: the cause it returned is the stream's cause     *)
(* still, whatever was called since (stream.go 315-342).                       *)
WaitsAgree ==
  \A c \in Waiters : at[c] = "returned" => result[c] \in {"not started", cause}

(* Every call of Close, Wait or Shutdown that was made returns once anything has     *)
(* stopped the stream, whether it ran, never ran, or was about to (stream.go        *)
(* 288-312, stream_runtime.go 714-779).                                        *)
StopFreesEveryCall ==
  \A c \in Calls : (stopping # "no" /\ Made(c)) ~> at[c] = "returned"

(* "supervise runs the pumps and terminates the stream once they finish" (stream.go  *)
(* 256): when Wait and Close return, nothing runs.                             *)
DoneMeansOver == done => runner \notin {"running", "stopping"}
=============================================================================
