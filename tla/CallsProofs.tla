----------------------------- MODULE CallsProofs -----------------------------
(* Proofs about Lifecycle, for any calls of Start, Close, Shutdown and Wait:    *)
(* one goroutine at most runs a stream, and an end that anybody can see comes    *)
(* after the interrupt of the transport.  And about Controls, for any calls of it  *)
(* and of Snapshot.  Together they give what module MCCalls says of every call.  *)
EXTENDS MCCalls, Sequences, FiniteSetTheorems, WellFoundedInduction, TLAPS

Idle == UNCHANGED vars

(* A step of the stop alone, or of nothing. *)
LEMMA NextSplits ==
  ASSUME [Next]_vars
  PROVE  \/ \E c \in Starters : StartSwaps(c) \/ StartRuns(c)
         \/ \E c \in Closers : Close(c)
         \/ \E c \in Waiters : Wait(c)
         \/ \E c \in Shutters : Shutdown(c)
         \/ Interrupted
         \/ Runner
         \/ Idle
BY DEF Next, Start, Idle
-----------------------------------------------------------------------------
(***************************************************************************)
(* The end is behind the interrupt.  Whoever closes done has seen stop return,  *)
(* at one of three places that this invariant names.                          *)
(***************************************************************************)
StopIInv ==
  /\ stopping \in {"no", "interrupting", "done"}
  /\ DOMAIN at = Calls
  /\ done => stopping = "done"
  /\ \A c \in Calls : at[c] = "finishing" => stopping = "done"

LEMMA InitStop == Init => StopIInv
BY DEF Init, StopIInv

(* stop never goes back, and a call that goes elsewhere keeps the invariant.    *)
LEMMA GoingKeepsStop ==
  ASSUME StopIInv, NEW c \in Calls, NEW place,
         at' = [at EXCEPT ![c] = place], done' = done,
         stopping' \in {"no", "interrupting", "done"},
         stopping = "done" => stopping' = "done",
         place = "finishing" => stopping' = "done"
  PROVE  StopIInv'
BY DEF StopIInv

LEMMA StopOnlyBegins ==
  ASSUME StopIInv, BeginStop
  PROVE  /\ stopping' \in {"no", "interrupting", "done"}
         /\ stopping = "done" => stopping' = "done"
BY DEF StopIInv, BeginStop

LEMMA StartKeepsStop ==
  ASSUME StopIInv, NEW c \in Starters, StartSwaps(c) \/ StartRuns(c)
  PROVE  StopIInv'
BY ZenonT(60), GoingKeepsStop DEF StartSwaps, StartRuns, Goes, Returns, StopIInv, Calls

LEMMA CloseKeepsStop ==
  ASSUME StopIInv, NEW c \in Closers, Close(c)
  PROVE  StopIInv'
<1>1. c \in Calls
  BY DEF Calls
<1>2. CASE CloseStops(c)
  BY <1>1, <1>2, StopOnlyBegins, GoingKeepsStop DEF CloseStops, Goes
<1>3. CASE CloseLoads(c)
  BY <1>1, <1>3, GoingKeepsStop DEF CloseLoads, Goes, StopIInv
<1>4. CASE CloseFinishes(c)
  BY <1>1, <1>4 DEF CloseFinishes, Goes, StopIInv
<1>5. CASE CloseReturns(c)
  BY <1>1, <1>5, GoingKeepsStop DEF CloseReturns, Returns, StopIInv
<1> QED
  BY <1>2, <1>3, <1>4, <1>5 DEF Close

LEMMA ShutdownKeepsStop ==
  ASSUME StopIInv, NEW c \in Shutters, Shutdown(c)
  PROVE  StopIInv'
<1>1. c \in Calls
  BY DEF Calls
<1>2. CASE ShutdownStops(c) \/ ShutdownAborts(c)
  BY <1>1, <1>2, StopOnlyBegins, GoingKeepsStop DEF ShutdownStops, ShutdownAborts, Goes
<1>3. CASE ShutdownFinishes(c)
  BY <1>1, <1>3 DEF ShutdownFinishes, Goes, StopIInv
<1>4. CASE \/ ShutdownEnters(c) \/ ShutdownSends(c) \/ ShutdownRefused(c)
           \/ ShutdownAborted(c) \/ ShutdownAnswered(c) \/ ShutdownJoins(c)
           \/ ShutdownReturns(c)
  <2>1. /\ done' = done /\ stopping' = stopping
        /\ \E place : place # "finishing" /\ at' = [at EXCEPT ![c] = place]
    BY <1>4 DEF ShutdownEnters, ShutdownSends, ShutdownRefused, ShutdownAborted,
                ShutdownAnswered, ShutdownJoins, ShutdownReturns, Goes, Returns
  <2> QED
    BY <1>1, <2>1, GoingKeepsStop DEF StopIInv
<1> QED
  BY <1>2, <1>3, <1>4 DEF Shutdown, ShutdownGoesOn

LEMMA RunnerKeepsStop ==
  ASSUME StopIInv, Runner
  PROVE  StopIInv'
<1>1. CASE RunnerStops
  BY <1>1, StopOnlyBegins DEF RunnerStops, StopIInv
<1>2. CASE RunnerTakes \/ RunnerAnswers \/ RunnerFinishes
  BY <1>2 DEF RunnerTakes, RunnerAnswers, RunnerFinishes, StopIInv
<1> QED
  BY <1>1, <1>2 DEF Runner

LEMMA NextKeepsStop == StopIInv /\ [Next]_vars => StopIInv'
<1> SUFFICES ASSUME StopIInv, [Next]_vars
             PROVE  StopIInv'
  OBVIOUS
<1>1. ASSUME NEW c \in Waiters, Wait(c) PROVE StopIInv'
  BY <1>1, GoingKeepsStop DEF Wait, WaitLoads, WaitReturns, Goes, Returns, StopIInv, Calls
<1>2. CASE Interrupted
  BY <1>2 DEF Interrupted, StopIInv
<1>3. CASE Idle
  BY <1>3 DEF Idle, vars, StopIInv
<1> QED
  BY <1>1, <1>2, <1>3, NextSplits, StartKeepsStop, CloseKeepsStop, ShutdownKeepsStop,
     RunnerKeepsStop

(* done is closed only behind an Interrupt that has returned, whichever of Close,  *)
(* Shutdown and supervise closes it, however many of them race (stream.go 288-300,  *)
(* 352-365).                                                                   *)
THEOREM SpecDoneMeansInterrupted == Spec => []DoneMeansInterrupted
<1>1. StopIInv => DoneMeansInterrupted
  BY DEF StopIInv, DoneMeansInterrupted
<1> QED
  BY <1>1, InitStop, NextKeepsStop, PTL DEF Spec
-----------------------------------------------------------------------------
(***************************************************************************)
(* One run.  Of all calls of Start the one that made the swap is the only one    *)
(* that can be between it and the launch, or have launched.                     *)
(***************************************************************************)
StartIInv ==
  /\ DOMAIN at = Calls /\ DOMAIN result = Calls
  /\ \A c \in Starters : at[c] \in {"new", "swapped", "returned"}
  /\ \A c \in Starters : result[c] = "ok" => at[c] = "returned"
  /\ ~started => runner = "none" /\ \A c \in Starters : at[c] = "new"
  /\ \A c \in Starters : at[c] = "swapped" => runner = "none"
  /\ \A c, d \in Starters : at[c] = "swapped" /\ at[d] = "swapped" => c = d
  /\ \A c, d \in Starters : result[c] = "ok" /\ result[d] = "ok" => c = d
  /\ runner # "none" <=> \E c \in Starters : result[c] = "ok"

(* What the other calls and the runner do to it. *)
StartsAlone ==
  /\ started' = started
  /\ runner = "none" <=> runner' = "none"
  /\ DOMAIN at' = DOMAIN at /\ DOMAIN result' = DOMAIN result
  /\ \A c \in Starters : at'[c] = at[c] /\ result'[c] = result[c]

LEMMA InitStart == Init => StartIInv
BY DEF Init, StartIInv, Calls

LEMMA StartsAloneKeeps == StartIInv /\ StartsAlone => StartIInv'
BY DEF StartIInv, StartsAlone

LEMMA SwapKeepsStart ==
  ASSUME StartIInv, NEW c \in Starters, StartSwaps(c)
  PROVE  StartIInv'
<1>1. c \in Calls /\ Starters \subseteq Calls
  BY DEF Calls
<1>2. /\ started' = TRUE /\ runner' = runner /\ at[c] = "new"
      /\ DOMAIN at' = Calls /\ DOMAIN result' = Calls
      /\ \A d \in Starters : d # c => at'[d] = at[d] /\ result'[d] = result[d]
  BY <1>1 DEF StartIInv, StartSwaps, Returns, Goes
<1>3. result[c] # "ok"
  BY <1>2 DEF StartIInv
<1>4. \A d \in Starters : result'[d] = "ok" <=> result[d] = "ok"
  BY <1>1, <1>2, <1>3 DEF StartIInv, StartSwaps, Returns, Goes
<1>5. CASE started
  <2>1. at'[c] = "returned"
    BY <1>1, <1>5 DEF StartIInv, StartSwaps, Returns
  <2> QED
    BY <1>2, <1>3, <1>4, <2>1 DEF StartIInv
<1>6. CASE ~started
  <2>1. at'[c] = "swapped"
    BY <1>1, <1>6 DEF StartIInv, StartSwaps, Goes
  <2>2. \A d \in Starters : d # c => at[d] = "new"
    BY <1>6 DEF StartIInv
  <2>3. runner = "none"
    BY <1>6 DEF StartIInv
  <2> QED
    BY <1>2, <1>3, <1>4, <2>1, <2>2, <2>3 DEF StartIInv
<1> QED
  BY <1>5, <1>6

LEMMA RunKeepsStart ==
  ASSUME StartIInv, NEW c \in Starters, StartRuns(c)
  PROVE  StartIInv'
<1>1. c \in Calls /\ Starters \subseteq Calls
  BY DEF Calls
<1>2. /\ started' = TRUE /\ at[c] = "swapped" /\ at'[c] = "returned"
      /\ DOMAIN at' = Calls /\ DOMAIN result' = Calls
      /\ \A d \in Starters : d # c => at'[d] = at[d] /\ result'[d] = result[d]
  BY <1>1 DEF StartIInv, StartRuns, Returns
<1>3. runner = "none" /\ \A d \in Starters : result[d] # "ok"
  BY <1>2 DEF StartIInv
<1>4. \A d \in Starters : at[d] = "swapped" => d = c
  BY <1>2 DEF StartIInv
<1>5. \/ runner' = "none" /\ result'[c] # "ok"
      \/ runner' = "running" /\ result'[c] = "ok"
  BY <1>1, <1>3 DEF StartIInv, StartRuns, Returns
<1>6. \A d \in Starters : result'[d] = "ok" => d = c
  BY <1>2, <1>3
<1> QED
  BY <1>2, <1>3, <1>4, <1>5, <1>6 DEF StartIInv

LEMMA NextKeepsStart == StartIInv /\ [Next]_vars => StartIInv'
<1> SUFFICES ASSUME StartIInv, [Next]_vars
             PROVE  StartIInv'
  OBVIOUS
<1>1. ASSUME NEW c \in Closers, Close(c) PROVE StartsAlone
  BY <1>1, LifecycleAssumption
     DEF Close, CloseStops, CloseLoads, CloseFinishes, CloseReturns, Goes, Returns,
         StartsAlone, StartIInv, Calls
<1>2. ASSUME NEW c \in Waiters, Wait(c) PROVE StartsAlone
  BY <1>2, LifecycleAssumption
     DEF Wait, WaitLoads, WaitReturns, Goes, Returns, StartsAlone, StartIInv, Calls
<1>3. ASSUME NEW c \in Shutters, Shutdown(c) PROVE StartsAlone
  <2>1. \A d \in Starters : d # c
    BY LifecycleAssumption
  <2>2. /\ started' = started /\ runner' = runner
        /\ DOMAIN at' = DOMAIN at /\ DOMAIN result' = DOMAIN result
        /\ \A d \in Calls : d # c => at'[d] = at[d] /\ result'[d] = result[d]
    BY <1>3
       DEF Shutdown, ShutdownGoesOn, ShutdownEnters, ShutdownStops, ShutdownFinishes,
           ShutdownSends, ShutdownRefused, ShutdownAborted, ShutdownAnswered,
           ShutdownJoins, ShutdownReturns, ShutdownAborts, Goes, Returns, StartIInv
  <2> QED
    BY <2>1, <2>2 DEF StartsAlone, Calls
<1>4. ASSUME Interrupted \/ Runner \/ Idle PROVE StartsAlone
  <2>1. at' = at /\ result' = result /\ started' = started
    BY <1>4 DEF Interrupted, Runner, RunnerTakes, RunnerAnswers, RunnerStops,
                RunnerFinishes, Idle, vars
  <2>2. runner' = runner \/ (runner \in {"running", "stopping"} /\ runner' \in {"stopping", "over"})
    BY <1>4 DEF Interrupted, Runner, RunnerTakes, RunnerAnswers, RunnerStops,
                RunnerFinishes, Idle, vars
  <2> QED
    BY <2>1, <2>2 DEF StartsAlone
<1> QED
  BY <1>1, <1>2, <1>3, <1>4, NextSplits, StartsAloneKeeps, SwapKeepsStart, RunKeepsStart

LEMMA StartsAreOneRun == StartIInv => OneRun
<1> SUFFICES ASSUME StartIInv
             PROVE  OneRun
  OBVIOUS
<1> DEFINE Launched == {c \in Starters : result[c] = "ok"}
<1>1. CASE runner = "none"
  <2>1. Launched = {}
    BY <1>1 DEF StartIInv
  <2> QED
    BY <1>1, <2>1, FS_EmptySet DEF OneRun
<1>2. CASE runner # "none"
  <2>1. PICK c \in Starters : result[c] = "ok"
    BY <1>2 DEF StartIInv
  <2>2. Launched = {c}
    BY <2>1 DEF StartIInv
  <2> QED
    BY <1>2, <2>2, FS_Singleton DEF OneRun
<1> QED
  BY <1>1, <1>2

(* However many calls of Start race, with each other and with what ends the stream, *)
(* one goroutine at most runs it, and exactly the call that launched it is told so  *)
(* (stream.go 242-251).                                                        *)
THEOREM SpecOneRun == Spec => []OneRun
BY InitStart, NextKeepsStart, StartsAreOneRun, PTL DEF Spec
-----------------------------------------------------------------------------
(***************************************************************************)
(* One story.  A Wait returns when done is closed, which is behind a stop, and     *)
(* whoever stops the stream has set its cause first.                            *)
(***************************************************************************)
CauseIInv ==
  /\ DOMAIN result = Calls
  /\ stopping # "no" \/ request \in {"ok", "failed"} => cause # "unset"
  /\ \A c \in Waiters :
       at[c] = "returned" => result[c] = "not started" \/ (cause # "unset" /\ result[c] = cause)

LEMMA InitCause == Init => CauseIInv
BY DEF Init, CauseIInv, Calls

(* The first cause stays, and a stop or an answer comes with one.                  *)
CauseFirst ==
  /\ cause # "unset" => cause' = cause
  /\ stopping' # "no" \/ request' \in {"ok", "failed"} => cause' # "unset"
  /\ DOMAIN result' = Calls

LEMMA NextCauses ==
  ASSUME CauseIInv, [Next]_vars
  PROVE  CauseFirst
<1>1. CASE \/ \E c \in Starters : StartSwaps(c) \/ StartRuns(c)
           \/ \E c \in Waiters : Wait(c)
           \/ Interrupted \/ Idle
  <2>1. /\ UNCHANGED <<cause, request>> /\ DOMAIN result' = Calls
        /\ stopping' # "no" => stopping # "no"
    BY <1>1 DEF StartSwaps, StartRuns, Wait, WaitLoads, WaitReturns, Interrupted, Idle, vars,
                Goes, Returns, CauseIInv
  <2> QED
    BY <2>1 DEF CauseFirst, CauseIInv
<1>2. CASE \E c \in Closers : Close(c)
  BY <1>2 DEF Close, CloseStops, CloseLoads, CloseFinishes, CloseReturns, Goes, Returns,
              Fail, BeginStop, CauseIInv, CauseFirst
<1>3. CASE \E c \in Shutters : Shutdown(c)
  <2>1. PICK c \in Shutters : Shutdown(c)
    BY <1>3
  <2>2. CASE ShutdownStops(c) \/ ShutdownAborts(c)
    BY <2>2 DEF ShutdownStops, ShutdownAborts, Goes, Fail, BeginStop, CauseIInv, CauseFirst
  <2>3. CASE \/ ShutdownEnters(c) \/ ShutdownFinishes(c) \/ ShutdownSends(c)
             \/ ShutdownRefused(c) \/ ShutdownAborted(c) \/ ShutdownAnswered(c)
             \/ ShutdownJoins(c) \/ ShutdownReturns(c)
    <3>1. /\ UNCHANGED <<cause, stopping>> /\ DOMAIN result' = Calls
          /\ request' = request \/ request' \notin {"ok", "failed"}
      BY <2>3 DEF ShutdownEnters, ShutdownFinishes, ShutdownSends, ShutdownRefused,
                  ShutdownAborted, ShutdownAnswered, ShutdownJoins, ShutdownReturns,
                  Goes, Returns, CauseIInv
    <3> QED
      BY <3>1 DEF CauseFirst, CauseIInv
  <2> QED
    BY <2>1, <2>2, <2>3 DEF Shutdown, ShutdownGoesOn
<1>4. CASE Runner
  BY <1>4 DEF Runner, RunnerTakes, RunnerAnswers, RunnerStops, RunnerFinishes, Fail,
              BeginStop, CauseIInv, CauseFirst
<1> QED
  BY <1>1, <1>2, <1>3, <1>4, NextSplits

LEMMA NextKeepsCause ==
  ASSUME CauseIInv, StopIInv, [Next]_vars
  PROVE  CauseIInv'
<1>1. CauseFirst
  BY NextCauses
<1>2. ASSUME NEW w \in Waiters, at'[w] = "returned"
      PROVE  result'[w] = "not started" \/ (cause' # "unset" /\ result'[w] = cause')
  <2>0. w \in Calls /\ DOMAIN at = Calls /\ DOMAIN result = Calls
    BY DEF Calls, CauseIInv, StopIInv
  <2>1. CASE at'[w] = at[w] /\ result'[w] = result[w]
    BY <1>1, <1>2, <2>1 DEF CauseIInv, CauseFirst
  <2>2. CASE Wait(w)
    BY <1>2, <2>0, <2>2 DEF Wait, WaitLoads, WaitReturns, Goes, Returns, StopIInv, CauseIInv
  <2>3. ASSUME NEW c \in Calls, c # w, NEW place,
               at' = [at EXCEPT ![c] = place],
               \/ result' = result
               \/ \E what : result' = [result EXCEPT ![c] = what]
        PROVE  at'[w] = at[w] /\ result'[w] = result[w]
    BY <2>0, <2>3
  <2>4. UNCHANGED <<at, result>> => at'[w] = at[w] /\ result'[w] = result[w]
    OBVIOUS
  <2>5. \/ Wait(w)
        \/ UNCHANGED <<at, result>>
        \/ \E c \in Calls : c # w /\ \E place :
             /\ at' = [at EXCEPT ![c] = place]
             /\ \/ result' = result
                \/ \E what : result' = [result EXCEPT ![c] = what]
    <3>1. CASE \E c \in Starters : StartSwaps(c) \/ StartRuns(c)
      BY <3>1, LifecycleAssumption DEF StartSwaps, StartRuns, Goes, Returns, Calls
    <3>2. CASE \E c \in Closers : Close(c)
      BY <3>2, LifecycleAssumption
         DEF Close, CloseStops, CloseLoads, CloseFinishes, CloseReturns, Goes, Returns, Calls
    <3>3. CASE \E c \in Waiters : Wait(c)
      BY <3>3 DEF Wait, WaitLoads, WaitReturns, Goes, Returns, Calls
    <3>4. CASE \E c \in Shutters : Shutdown(c)
      BY <3>4, LifecycleAssumption
         DEF Shutdown, ShutdownGoesOn, ShutdownAborts, ShutdownEnters, ShutdownStops,
             ShutdownFinishes, ShutdownSends, ShutdownRefused, ShutdownAborted,
             ShutdownAnswered, ShutdownJoins, ShutdownReturns, Goes, Returns, Calls
    <3>5. CASE Interrupted \/ Runner \/ Idle
      BY <3>5 DEF Interrupted, Runner, RunnerTakes, RunnerAnswers, RunnerStops,
                  RunnerFinishes, Idle, vars
    <3> QED
      BY <3>1, <3>2, <3>3, <3>4, <3>5, NextSplits
  <2> QED
    BY <2>1, <2>2, <2>3, <2>4, <2>5
<1> QED
  BY <1>1, <1>2 DEF CauseIInv, CauseFirst

(* Every Wait tells the same story: the cause it returned is the stream's cause      *)
(* still, whatever was called since (stream.go 315-342).                          *)
THEOREM SpecWaitsAgree == Spec => []WaitsAgree
<1>1. CauseIInv => WaitsAgree
  BY DEF CauseIInv, WaitsAgree
<1> QED
  BY <1>1, InitStop, NextKeepsStop, InitCause, NextKeepsCause, PTL DEF Spec

-----------------------------------------------------------------------------
(***************************************************************************)
(* Types.  What a Shutdown returns is a result because nobody waits for the end of  *)
(* the stream before the one call that runs has left its result.                 *)
(***************************************************************************)
Places == {"new", "swapped", "stopping", "finishing", "waiting", "unstarted",
           "stopped", "sending", "asking", "aborting", "returned"}
Told == {"pending", "ok", "already started"} \union Causes \union Reasons

LifecycleTyped ==
  /\ TypeOK
  /\ \A c \in Shutters : at[c] = "waiting" => shutdown \notin {"no", "running"}

LEMMA FailIsTyped ==
  ASSUME cause \in Causes
  PROVE  \A why \in Causes : Fail(why) => cause' \in Causes
BY DEF Fail

LEMMA RejectionIsReason == cause \in Causes => Rejection \in Reasons
BY DEF Causes, Reasons, Rejection

LEMMA MovesAreTyped ==
  ASSUME TypeOK, NEW c \in Calls, NEW place \in Places, NEW what \in Told
  PROVE  /\ Goes(c, place) => at' \in [Calls -> Places] /\ result' \in [Calls -> Told]
         /\ Returns(c, what) => at' \in [Calls -> Places] /\ result' \in [Calls -> Told]
BY DEF TypeOK, Goes, Returns, Places, Told

(* What every step of a call that is not a Shutdown leaves to be shown.            *)
LEMMA NoShutterWaits ==
  ASSUME LifecycleTyped, TypeOK', shutdown' = shutdown,
         NEW c \in Calls, c \notin Shutters, NEW place, at' = [at EXCEPT ![c] = place]
  PROVE  LifecycleTyped'
BY DEF LifecycleTyped, Calls, TypeOK

LEMMA StartKeepsTypes ==
  ASSUME LifecycleTyped, NEW c \in Starters, StartSwaps(c) \/ StartRuns(c)
  PROVE  LifecycleTyped'
<1>1. c \in Calls /\ c \notin Shutters
  BY LifecycleAssumption DEF Calls
<1>2. TypeOK
  BY DEF LifecycleTyped
<1>3. at' \in [Calls -> Places] /\ result' \in [Calls -> Told]
  BY <1>1, <1>2, MovesAreTyped DEF StartSwaps, StartRuns, Places, Told, Reasons
<1>4. TypeOK'
  BY <1>2, <1>3 DEF TypeOK, StartSwaps, StartRuns, Places, Told
<1>5. /\ shutdown' = shutdown
      /\ \E place : at' = [at EXCEPT ![c] = place]
  BY DEF StartSwaps, StartRuns, Goes, Returns
<1> QED
  BY <1>1, <1>4, <1>5, NoShutterWaits

LEMMA CloseKeepsTypes ==
  ASSUME LifecycleTyped, NEW c \in Closers, Close(c)
  PROVE  LifecycleTyped'
<1>1. c \in Calls /\ c \notin Shutters
  BY LifecycleAssumption DEF Calls
<1>2. TypeOK /\ cause \in Causes /\ "closed" \in Causes
  BY DEF LifecycleTyped, TypeOK, Causes
<1>3. at' \in [Calls -> Places] /\ result' \in [Calls -> Told]
  BY <1>1, <1>2, MovesAreTyped
     DEF Close, CloseStops, CloseLoads, CloseFinishes, CloseReturns, Places, Told
<1>4. cause' \in Causes
  BY <1>2, FailIsTyped DEF Close, CloseStops, CloseLoads, CloseFinishes, CloseReturns
<1>5. TypeOK'
  BY <1>2, <1>3, <1>4
     DEF TypeOK, Close, CloseStops, CloseLoads, CloseFinishes, CloseReturns, BeginStop,
         Places, Told
<1>6. /\ shutdown' = shutdown
      /\ \E place : at' = [at EXCEPT ![c] = place]
  BY DEF Close, CloseStops, CloseLoads, CloseFinishes, CloseReturns, Goes, Returns
<1> QED
  BY <1>1, <1>5, <1>6, NoShutterWaits

LEMMA WaitKeepsTypes ==
  ASSUME LifecycleTyped, NEW c \in Waiters, Wait(c)
  PROVE  LifecycleTyped'
<1>1. c \in Calls /\ c \notin Shutters
  BY LifecycleAssumption DEF Calls
<1>2. TypeOK /\ cause \in Told /\ "not started" \in Told
  BY DEF LifecycleTyped, TypeOK, Told, Reasons
<1>3. at' \in [Calls -> Places] /\ result' \in [Calls -> Told]
  BY <1>1, <1>2, MovesAreTyped DEF Wait, WaitLoads, WaitReturns, Places
<1>4. TypeOK'
  BY <1>2, <1>3 DEF TypeOK, Wait, WaitLoads, WaitReturns, Places, Told
<1>5. /\ shutdown' = shutdown
      /\ \E place : at' = [at EXCEPT ![c] = place]
  BY DEF Wait, WaitLoads, WaitReturns, Goes, Returns
<1> QED
  BY <1>1, <1>4, <1>5, NoShutterWaits

LEMMA ShutdownKeepsTypes ==
  ASSUME LifecycleTyped, NEW c \in Shutters, Shutdown(c)
  PROVE  LifecycleTyped'
<1>1. c \in Calls
  BY DEF Calls
<1>2. TypeOK /\ cause \in Causes /\ {"closed", "not finished"} \subseteq Causes
  BY DEF LifecycleTyped, TypeOK, Causes
<1>3. Rejection \in Reasons
  BY <1>2, RejectionIsReason
<1>4. ShutdownReturns(c) => shutdown \in Told
  BY <1>1, <1>2 DEF ShutdownReturns, LifecycleTyped, TypeOK, Told, Reasons
<1>5. at' \in [Calls -> Places] /\ result' \in [Calls -> Told]
  BY <1>1, <1>2, <1>4, MovesAreTyped
     DEF Shutdown, ShutdownGoesOn, ShutdownEnters, ShutdownStops, ShutdownFinishes,
         ShutdownSends, ShutdownRefused, ShutdownAborted, ShutdownAnswered, ShutdownJoins,
         ShutdownReturns, ShutdownAborts, Places, Told
<1>6. /\ cause' \in Causes /\ request' \in {"none", "offered", "taken", "ok", "failed"}
      /\ stopping' \in {"no", "interrupting", "done"}
      /\ UNCHANGED <<started, runner>> /\ done' \in BOOLEAN
  BY <1>2, FailIsTyped
     DEF TypeOK, Shutdown, ShutdownGoesOn, ShutdownEnters, ShutdownStops, ShutdownFinishes,
         ShutdownSends, ShutdownRefused, ShutdownAborted, ShutdownAnswered, ShutdownJoins,
         ShutdownReturns, ShutdownAborts, BeginStop
<1>7. \/ shutdown' = shutdown /\ (at'[c] # "waiting" \/ shutdown' \notin {"no", "running"})
      \/ shutdown = "no" /\ shutdown' = "running" /\ at'[c] # "waiting"
      \/ shutdown' \in {"ok", "failed", "not started", "not finished"} \union Reasons
  BY <1>1, <1>2, <1>3
     DEF TypeOK, Shutdown, ShutdownGoesOn, ShutdownEnters, ShutdownStops, ShutdownFinishes,
         ShutdownSends, ShutdownRefused, ShutdownAborted, ShutdownAnswered, ShutdownJoins,
         ShutdownReturns, ShutdownAborts, Goes, Returns
<1>8. \A d \in Shutters : d # c => at'[d] = at[d]
  BY <1>2
     DEF TypeOK, Shutdown, ShutdownGoesOn, ShutdownEnters, ShutdownStops, ShutdownFinishes,
         ShutdownSends, ShutdownRefused, ShutdownAborted, ShutdownAnswered, ShutdownJoins,
         ShutdownReturns, ShutdownAborts, Goes, Returns, Calls
<1>9. TypeOK'
  BY <1>2, <1>5, <1>6, <1>7 DEF TypeOK, Places, Told, Reasons
<1> QED
  BY <1>7, <1>8, <1>9 DEF LifecycleTyped, Reasons

LEMMA StepsKeepTypes ==
  ASSUME LifecycleTyped, Interrupted \/ Runner \/ Idle
  PROVE  LifecycleTyped'
<1>1. TypeOK /\ cause \in Causes /\ {"none", "failed"} \subseteq Causes
  BY DEF LifecycleTyped, TypeOK, Causes
<1>2. UNCHANGED <<started, shutdown, at, result>>
  BY DEF Interrupted, Runner, RunnerTakes, RunnerAnswers, RunnerStops, RunnerFinishes, Idle, vars
<1>3. cause' \in Causes
  BY <1>1, FailIsTyped DEF Interrupted, Runner, RunnerTakes, RunnerAnswers, RunnerStops,
     RunnerFinishes, Idle, vars
<1>4. TypeOK'
  BY ZenonT(60), <1>1, <1>2, <1>3
     DEF TypeOK, Interrupted, Runner, RunnerTakes, RunnerAnswers, RunnerStops, RunnerFinishes,
         Idle, vars, BeginStop
<1> QED
  BY <1>2, <1>4 DEF LifecycleTyped

LEMMA NextKeepsTypes == LifecycleTyped /\ [Next]_vars => LifecycleTyped'
BY NextSplits, StartKeepsTypes, CloseKeepsTypes, WaitKeepsTypes, ShutdownKeepsTypes,
   StepsKeepTypes

LEMMA InitTypes == Init => LifecycleTyped
<1> SUFFICES ASSUME Init PROVE LifecycleTyped
  OBVIOUS
<1>1. /\ at \in [Calls -> Places] /\ result \in [Calls -> Told]
      /\ \A c \in Calls : at[c] = "new"
  BY DEF Init, Places, Told
<1>2. TypeOK
  BY <1>1 DEF Init, TypeOK, Causes, Places, Told
<1> QED
  BY <1>1, <1>2 DEF LifecycleTyped, Calls

-----------------------------------------------------------------------------
(***************************************************************************)
(* The calls that a running stream answers, for every set of calls, every order in   *)
(* which they are served and every moment at which the stream is stopped.         *)
(***************************************************************************)
(***************************************************************************)
(* ControlTellsTheTruth is not inductive: that an answer stays true depends on     *)
(* when a control can take effect, which is only while its call is on offer, and   *)
(* on who may still be without an answer: the one call whose cipher the coordinator   *)
(* is recording, of a stream that cannot be over before it is done with it.       *)
(***************************************************************************)
InForce(c) == c \in Running!ToSet(applied)

ControlTyped ==
  /\ applied \in Seq(Running!Controlling)
  /\ asked \in [Running!Calls -> {"new", "offering", "waiting", "returned"}]
  /\ answer \in [Running!Calls -> {"none", "ok", "error"}]
  /\ answered \in [Running!Calls -> {"none", "ok", "error", "cancelled", "refused"}]

BeingRecorded(c) == c \in TransportControls /\ InForce(c) /\ coordinator = "recording"

ControlIInv(c) ==
  /\ asked[c] \in {"new", "offering"} => answer[c] = "none" /\ answered[c] = "none" /\ ~InForce(c)
  /\ asked[c] = "waiting" => answered[c] = "none"
  /\ asked[c] = "waiting" /\ answer[c] = "none" => BeingRecorded(c)
  /\ answer[c] = "ok" => InForce(c)
  /\ answer[c] = "error" /\ InForce(c) => stops \/ coordinator = "failing"
  /\ answered[c] \in {"ok", "error"} => answer[c] = answered[c]
  /\ answered[c] \in {"cancelled", "refused"} => ~InForce(c)

OneCipher == \A c, d \in TransportControls : InForce(c) /\ InForce(d) => c = d

AnswersIInv ==
  /\ ControlTyped /\ OneCipher
  /\ over => coordinator = "gone"
  /\ \A c \in Running!Controlling : ControlIInv(c)
-----------------------------------------------------------------------------
LEMMA SnapshotsApart ==
  ASSUME Running!ControlsAssumption
  PROVE  /\ Running!Controlling \cap Snapshots = {} /\ Running!Controlling \subseteq Running!Calls
         /\ SessionControls \cap TransportControls = {}
         /\ Snapshots \subseteq Running!Calls
BY DEF Running!ControlsAssumption, Running!Controlling, Running!Calls

LEMMA AppendForces ==
  ASSUME NEW c \in Running!Controlling, applied \in Seq(Running!Controlling), applied' = Append(applied, c)
  PROVE  /\ applied' \in Seq(Running!Controlling)
         /\ \A d : InForce(d)' <=> InForce(d) \/ d = c
<1>1. /\ Len(applied) \in Nat /\ DOMAIN applied = 1..Len(applied)
      /\ DOMAIN (applied') = 1..(Len(applied) + 1)
      /\ applied'[Len(applied) + 1] = c
      /\ \A k \in 1..Len(applied) : applied'[k] = applied[k]
      /\ applied' \in Seq(Running!Controlling)
  OBVIOUS
<1>2. \A k \in 1..(Len(applied) + 1) : k \in 1..Len(applied) \/ k = Len(applied) + 1
  BY <1>1
<1>3. Len(applied) + 1 \in 1..(Len(applied) + 1)
      /\ \A k \in 1..Len(applied) : k \in 1..(Len(applied) + 1)
  BY <1>1
<1> QED
  BY <1>1, <1>2, <1>3 DEF InForce, Running!ToSet

LEMMA ForcedStays == applied' = applied => \A d : InForce(d)' <=> InForce(d)
BY DEF InForce, Running!ToSet

(* The steps of a call.                                                        *)
LEMMA CallKeepsAnswers ==
  ASSUME Running!ControlsAssumption, AnswersIInv, NEW c \in Running!Calls,
         Running!Ask(c) \/ Running!GivesUp(c) \/ Running!StopsWaiting(c) \/ Running!GoesOn(c)
  PROVE  AnswersIInv'
<1>1. UNCHANGED <<stops, over, coordinator, applied, answer>>
  BY DEF Running!Ask, Running!Offers, Running!GivesUp, Running!StopsWaiting,
       Running!GoesOn, Running!Refused, Running!TakesAnswer, Running!RefusedLate,
       Running!Returns, Running!stream
<1>2. \/ /\ asked[c] = "new" /\ asked' = [asked EXCEPT ![c] = "offering"] /\ answered' = answered
      \/ /\ asked' = [asked EXCEPT ![c] = "returned"]
         /\ \/ /\ asked[c] \in {"new", "offering"}
               /\ \E what \in {"refused", "cancelled"} : answered' = [answered EXCEPT ![c] = what]
            \/ /\ asked[c] = "waiting" /\ answer[c] # "none"
               /\ answered' = [answered EXCEPT ![c] = answer[c]]
            \/ /\ asked[c] = "waiting" /\ c \in Snapshots
               /\ answered' = [answered EXCEPT ![c] = "cancelled"]
            \/ /\ asked[c] = "waiting" /\ answer[c] = "none" /\ over
               /\ answered' = [answered EXCEPT ![c] = "refused"]
  BY DEF Running!Ask, Running!Offers, Running!GivesUp, Running!StopsWaiting,
       Running!GoesOn, Running!Refused, Running!TakesAnswer, Running!RefusedLate,
       Running!Returns
<1>3. ControlTyped' /\ OneCipher'
  BY <1>1, <1>2, ForcedStays DEF AnswersIInv, ControlTyped, OneCipher
<1>4. ASSUME NEW d \in Running!Controlling PROVE ControlIInv(d)'
  <2>1. /\ ControlIInv(d) /\ d \in Running!Calls /\ d \notin Snapshots
        /\ InForce(d)' <=> InForce(d)
        /\ BeingRecorded(d)' <=> BeingRecorded(d)
        /\ BeingRecorded(d) => ~over
    BY <1>1, SnapshotsApart, ForcedStays DEF AnswersIInv, BeingRecorded
  <2>2. CASE d = c
    BY <1>1, <1>2, <2>1, <2>2 DEF AnswersIInv, ControlTyped, ControlIInv
  <2>3. CASE d # c
    <3>1. asked'[d] = asked[d] /\ answered'[d] = answered[d]
      BY <1>2, <2>1, <2>3 DEF AnswersIInv, ControlTyped
    <3> QED
      BY <1>1, <2>1, <3>1 DEF ControlIInv
  <2> QED
    BY <2>2, <2>3
<1> QED
  BY <1>1, <1>3, <1>4 DEF AnswersIInv

(* The coordinator's.                                                          *)
LEMMA ServeKeepsAnswers ==
  ASSUME Running!ControlsAssumption, AnswersIInv, NEW c \in Running!Calls, Running!Serve(c)
  PROVE  AnswersIInv'
<1>1. /\ asked' = [asked EXCEPT ![c] = "waiting"] /\ answered' = answered
      /\ stops' = stops /\ over' = over
      /\ coordinator \in {"loop", "recording"}
      /\ \/ /\ c \in Running!Controlling /\ asked[c] = "offering" /\ coordinator = "loop"
            /\ applied' = applied
            /\ answer' = [answer EXCEPT ![c] = "error"]
         \/ /\ c \in SessionControls /\ asked[c] = "offering" /\ coordinator = "loop"
            /\ applied' = Append(applied, c)
            /\ answer' = [answer EXCEPT ![c] = "ok"]
         \/ /\ c \in TransportControls /\ asked[c] = "offering" /\ coordinator = "loop"
            /\ Running!Switchable(c)
            /\ applied' = Append(applied, c) /\ coordinator' = "recording"
            /\ answer' = [answer EXCEPT ![c] = "none"]
         \/ /\ c \in TransportControls /\ asked[c] = "waiting" /\ answer[c] = "none"
            /\ applied' = applied
            /\ \/ answer' = [answer EXCEPT ![c] = "ok"]
               \/ answer' = [answer EXCEPT ![c] = "error"] /\ coordinator' = "failing"
         \/ /\ c \in Snapshots /\ applied' = applied /\ coordinator = "loop"
            /\ \E what \in {"ok", "none"} : answer' = [answer EXCEPT ![c] = what]
  BY DEF Running!Serve, Running!Served, Running!Rejects, Running!Applies, Running!Switches,
       Running!Recording, Running!Records, Running!FailsToRecord, Running!Shows,
       Running!ShowsNothing, Running!Answers
<1>2. ControlTyped /\ OneCipher /\ (over => coordinator = "gone")
  BY DEF AnswersIInv
<1>3. /\ Running!Controlling = SessionControls \cup TransportControls
      /\ c \in Snapshots => c \notin Running!Controlling
      /\ c \in SessionControls => c \notin TransportControls
  BY SnapshotsApart DEF Running!Controlling
<1>4. /\ applied' \in Seq(Running!Controlling)
      /\ \A d : InForce(d)' => InForce(d) \/ d = c
      /\ \A d : InForce(d) => InForce(d)'
      /\ applied' = Append(applied, c) => InForce(c)'
      /\ applied' = applied => (InForce(c)' <=> InForce(c))
  BY <1>1, <1>2, <1>3, AppendForces, ForcedStays DEF ControlTyped
<1>5. ControlTyped'
  BY <1>1, <1>2, <1>4 DEF ControlTyped
<1>6. OneCipher'
  <2>1. CASE applied' = applied \/ c \in SessionControls
    BY <1>2, <1>3, <1>4, <2>1, ForcedStays DEF OneCipher
  <2>2. CASE Running!Switchable(c) /\ c \in TransportControls
    <3>1. \A d \in TransportControls : ~InForce(d)
      BY <2>2 DEF Running!Switchable, InForce
    <3> QED
      BY <1>4, <3>1 DEF OneCipher
  <2> QED
    BY <1>1, <2>1, <2>2
<1>7. ASSUME NEW d \in Running!Controlling PROVE ControlIInv(d)'
  <2>1. ControlIInv(d) /\ ControlIInv(d) /\ d \in Running!Calls /\ d \notin Snapshots
        /\ (c \in Running!Controlling => ControlIInv(c))
    BY SnapshotsApart DEF AnswersIInv
  <2>2. CASE d = c
    BY <1>1, <1>2, <1>3, <1>4, <2>1, <2>2 DEF ControlTyped, ControlIInv, BeingRecorded
  <2>3. CASE d # c
    <3>1. /\ asked'[d] = asked[d] /\ answered'[d] = answered[d] /\ answer'[d] = answer[d]
          /\ InForce(d)' <=> InForce(d)
      BY <1>1, <1>2, <1>4, <2>1, <2>3 DEF ControlTyped
    <3>2. asked[d] = "waiting" /\ answer[d] = "none" => FALSE
      <4> SUFFICES ASSUME asked[d] = "waiting", answer[d] = "none" PROVE FALSE
        OBVIOUS
      <4>1. d \in TransportControls /\ InForce(d) /\ coordinator = "recording"
        BY <2>1 DEF ControlIInv, BeingRecorded
      <4>2. c \in TransportControls /\ asked[c] = "waiting" /\ answer[c] = "none"
        BY <1>1, <4>1
      <4>3. InForce(c)
        BY <1>3, <2>1, <4>2 DEF ControlIInv, BeingRecorded
      <4> QED
        BY <1>2, <2>3, <4>1, <4>2, <4>3 DEF OneCipher
    <3> QED
      BY <1>1, <2>1, <3>1, <3>2 DEF ControlIInv
  <2> QED
    BY <2>2, <2>3
<1> QED
  BY <1>1, <1>2, <1>5, <1>6, <1>7 DEF AnswersIInv

(* The steps that concern no call.                                              *)
StreamStep ==
  \/ Running!GoesElsewhere \/ Running!ComesBack \/ Running!CoordinatorEnds
  \/ Running!ShutdownEnds \/ Running!StopsUnrecorded \/ Running!MakesRoom
  \/ Running!ShutdownBegins \/ Running!Stop \/ Running!Finish \/ UNCHANGED Running!vars

LEMMA RunningSplits ==
  ASSUME [Running!Next]_(Running!vars)
  PROVE  \/ \E c \in Running!Calls :
              Running!Ask(c) \/ Running!GivesUp(c) \/ Running!StopsWaiting(c) \/ Running!GoesOn(c)
         \/ \E c \in Running!Calls : Running!Serve(c)
         \/ StreamStep
BY DEF Running!Next, Running!Coordinator, StreamStep

LEMMA StreamSteps ==
  ASSUME StreamStep
  PROVE  /\ UNCHANGED <<applied, asked, answer, answered, view, known>>
         /\ stops => stops'
         /\ coordinator = "failing" => stops' \/ coordinator' = "failing"
         /\ coordinator = "recording" => coordinator' = "recording"
         /\ coordinator = "gone" => coordinator' = "gone"
         /\ over' = over \/ coordinator' = "gone"
         /\ stops' = stops \/ stops' = TRUE
         /\ over' = over \/ over' = TRUE
         /\ closing' = closing \/ closing' = TRUE
         /\ coordinator' \in {coordinator, "loop", "elsewhere", "gone"}
         /\ room' \in {room, "granted"}
<1>1. CASE \/ Running!GoesElsewhere \/ Running!ComesBack \/ Running!CoordinatorEnds
           \/ Running!ShutdownEnds
  BY <1>1 DEF Running!GoesElsewhere, Running!ComesBack, Running!CoordinatorEnds,
       Running!ShutdownEnds, Running!Moves
<1>2. CASE Running!StopsUnrecorded \/ Running!MakesRoom
  BY <1>2 DEF Running!StopsUnrecorded, Running!MakesRoom
<1>3. CASE Running!ShutdownBegins \/ Running!Stop \/ Running!Finish
  BY <1>3 DEF Running!ShutdownBegins, Running!Stop, Running!Finish
<1>4. CASE UNCHANGED Running!vars
  BY <1>4 DEF Running!vars, Running!stream
<1> QED
  BY <1>1, <1>2, <1>3, <1>4 DEF StreamStep

LEMMA StreamKeepsAnswers ==
  ASSUME AnswersIInv, StreamStep
  PROVE  AnswersIInv'
<1>1. \A d : InForce(d)' <=> InForce(d)
  BY StreamSteps, ForcedStays
<1>2. ControlTyped' /\ OneCipher'
  BY <1>1, StreamSteps DEF AnswersIInv, ControlTyped, OneCipher
<1>3. (over => coordinator = "gone")'
  BY StreamSteps DEF AnswersIInv
<1>4. ASSUME NEW d \in Running!Controlling PROVE ControlIInv(d)'
  <2>1. ControlIInv(d) /\ (BeingRecorded(d) => BeingRecorded(d)')
    BY <1>1, StreamSteps DEF AnswersIInv, BeingRecorded
  <2> QED
    BY <1>1, <2>1, StreamSteps DEF ControlIInv
<1> QED
  BY <1>2, <1>3, <1>4 DEF AnswersIInv

LEMMA AnswersNext ==
  ASSUME Running!ControlsAssumption, AnswersIInv, [Running!Next]_(Running!vars)
  PROVE  AnswersIInv'
BY RunningSplits, CallKeepsAnswers, ServeKeepsAnswers, StreamKeepsAnswers

LEMMA AnswersInit == Running!Init => AnswersIInv
<1> SUFFICES ASSUME Running!Init PROVE AnswersIInv
  OBVIOUS
<1>1. /\ applied = <<>> /\ asked = [c \in Running!Calls |-> "new"]
      /\ answer = [c \in Running!Calls |-> "none"] /\ answered = [c \in Running!Calls |-> "none"]
  BY DEF Running!Init
<1>2. \A d : ~InForce(d)
  BY <1>1 DEF InForce, Running!ToSet
<1>3. Running!Controlling \subseteq Running!Calls /\ ~over
  BY DEF Running!Init, Running!Calls
<1> QED
  BY <1>1, <1>2, <1>3 DEF AnswersIInv, ControlTyped, OneCipher, ControlIInv
-----------------------------------------------------------------------------
(* A caller of Control can tell what the stream is doing: without an error the       *)
(* control is in force, and after a cancellation or a refusal it never was and       *)
(* never will be (stream_runtime.go 946-989).                                    *)
THEOREM SpecControlTellsTheTruth == Running!Spec => []Running!ControlTellsTheTruth
<1>1. AnswersIInv /\ [Running!Next]_(Running!vars) => AnswersIInv'
  BY RunningAssumption, AnswersNext
<1>2. AnswersIInv => Running!ControlTellsTheTruth
  BY DEF AnswersIInv, ControlIInv, Running!ControlTellsTheTruth, InForce
<1> QED
  BY <1>1, <1>2, AnswersInit, PTL DEF Running!Spec

(* The one control that can be in force although its call is told of an error leaves   *)
(* nobody with a stream that runs on: it has been stopped already, or the coordinator   *)
(* is about to stop it, before it serves anybody else (stream_runtime.go 869-881).    *)
THEOREM SpecUnrecordedEnds == Running!Spec => []Running!UnrecordedEnds
<1>1. AnswersIInv /\ [Running!Next]_(Running!vars) => AnswersIInv'
  BY RunningAssumption, AnswersNext
<1>2. AnswersIInv => Running!UnrecordedEnds
  BY DEF AnswersIInv, ControlIInv, Running!UnrecordedEnds, InForce
<1> QED
  BY <1>1, <1>2, AnswersInit, PTL DEF Running!Spec

(***************************************************************************)
(* What is in force is in force once, with one cipher at most, and no answer      *)
(* shows more than there is.  A Snapshot knew nothing, when it was called, that    *)
(* its answer does not show: whoever was told of something was told of what is     *)
(* in force, and that only grows until the answer is made.                       *)
(***************************************************************************)
Once ==
  /\ Running!IsInjective(applied)
  /\ {stops, over, closing} \subseteq BOOLEAN
  /\ coordinator \in {"loop", "elsewhere", "recording", "failing", "gone"}
  /\ room \in {"none", "awaited", "granted", "refused"}

ViewTyped ==
  /\ view \in [Snapshots -> Nat] /\ known \in [Snapshots -> Nat]
  /\ \A c \in Snapshots : view[c] <= Len(applied) /\ known[c] <= Len(applied)

ViewIInv(c) ==
  /\ asked[c] \in {"new", "offering"} => answer[c] = "none"
  /\ asked[c] # "returned" => answered[c] = "none"
  /\ answer[c] = "ok" => view[c] >= known[c]
  /\ answered[c] = "ok" => answer[c] = "ok"

SnapshotsIInv == AnswersIInv /\ Once /\ ViewTyped /\ \A c \in Snapshots : ViewIInv(c)

(* A set of numbers that is bounded has a greatest.                              *)
LEMMA MaxOfBounded ==
  ASSUME NEW n \in Nat, NEW S, S \subseteq 0..n, S # {}
  PROVE  Running!Max(S) \in S
<1> DEFINE T == {n - x : x \in S}
<1>1. T \subseteq Nat /\ T # {}
  <2>1. \A x \in S : n - x \in Nat
    <3> SUFFICES ASSUME NEW x \in S PROVE n - x \in Nat
      OBVIOUS
    <3>1. x \in 0..n
      OBVIOUS
    <3> QED
      BY <3>1
  <2>2. PICK x \in S : TRUE
    OBVIOUS
  <2> QED
    BY <2>1, <2>2
<1>2. IsWellFoundedOn(OpToRel(<, Nat), Nat)
  BY NatLessThanWellFounded
<1>3. PICK t \in T : \A y \in T : ~(<<y, t>> \in OpToRel(<, Nat))
  <2> HIDE DEF T
  <2> QED
    BY <1>1, <1>2, WFMin
<1>4. PICK x \in S : t = n - x
  BY <1>3
<1>5. \A y \in S : x >= y
  <2> SUFFICES ASSUME NEW y \in S PROVE x >= y
    OBVIOUS
  <2>1. n - y \in T /\ n - y \in Nat /\ n - x \in Nat
    BY <1>4
  <2>2. ~(n - y < n - x)
    BY <1>3, <1>4, <2>1 DEF OpToRel
  <2> QED
    BY <2>1, <2>2
<1> QED
  BY <1>5 DEF Running!Max

LEMMA ToldOfIsInForce ==
  ASSUME SnapshotsIInv
  PROVE  Running!ToldOf \in 0..Len(applied)
<1> DEFINE S == {0} \union {view[c] : c \in {s \in Snapshots : answered[s] = "ok"}}
                \union {i \in DOMAIN applied : answered[applied[i]] = "ok"}
<1>1. Len(applied) \in Nat /\ DOMAIN applied = 1..Len(applied)
  BY DEF SnapshotsIInv, AnswersIInv, ControlTyped
<1>2. S \subseteq 0..Len(applied)
  BY <1>1 DEF SnapshotsIInv, ViewTyped
<1>3. Running!Max(S) \in S
  <2>1. S # {}
    OBVIOUS
  <2> HIDE DEF S
  <2> QED
    BY <1>1, <1>2, <2>1, MaxOfBounded
<1> QED
  BY <1>2, <1>3 DEF Running!ToldOf

LEMMA AppendIsOnce ==
  ASSUME Running!ControlsAssumption, SnapshotsIInv, NEW c \in Running!Controlling,
         asked[c] = "offering", applied' = Append(applied, c)
  PROVE  /\ Running!IsInjective(applied)'
         /\ Len(applied') = Len(applied) + 1
<1>1. applied \in Seq(Running!Controlling) /\ ~InForce(c)
  BY DEF SnapshotsIInv, AnswersIInv, ControlTyped, ControlIInv
<1>2. /\ Len(applied) \in Nat /\ DOMAIN applied = 1..Len(applied)
      /\ DOMAIN (applied') = 1..(Len(applied) + 1) /\ Len(applied') = Len(applied) + 1
      /\ applied'[Len(applied) + 1] = c
      /\ \A k \in 1..Len(applied) : applied'[k] = applied[k]
  BY <1>1
<1>3. \A k \in 1..Len(applied) : applied[k] # c
  BY <1>1, <1>2 DEF InForce, Running!ToSet
<1>4. \A j, k \in 1..Len(applied) : applied[j] = applied[k] => j = k
  BY <1>2 DEF SnapshotsIInv, Once, Running!IsInjective
<1>5. \A k \in 1..(Len(applied) + 1) : k \in 1..Len(applied) \/ k = Len(applied) + 1
  BY <1>2
<1>6. Running!IsInjective(applied)'
  BY <1>2, <1>3, <1>4, <1>5 DEF Running!IsInjective
<1> QED
  BY <1>2, <1>6

LEMMA CallKeepsSnapshots ==
  ASSUME Running!ControlsAssumption, SnapshotsIInv, AnswersIInv', NEW c \in Running!Calls,
         Running!Ask(c) \/ Running!GivesUp(c) \/ Running!StopsWaiting(c) \/ Running!GoesOn(c)
  PROVE  SnapshotsIInv'
<1>0. ControlTyped
  BY DEF SnapshotsIInv, AnswersIInv
<1>1. UNCHANGED <<stops, over, closing, coordinator, room, applied, answer, view>>
  BY DEF Running!Ask, Running!Offers, Running!GivesUp, Running!StopsWaiting,
       Running!GoesOn, Running!Refused, Running!TakesAnswer, Running!RefusedLate,
       Running!Returns, Running!stream
<1>2. Once'
  BY <1>1 DEF SnapshotsIInv, Once
<1>3. \/ /\ asked[c] = "new" /\ asked' = [asked EXCEPT ![c] = "offering"] /\ answered' = answered
         /\ known' = IF c \in Snapshots THEN [known EXCEPT ![c] = Running!ToldOf] ELSE known
      \/ /\ asked' = [asked EXCEPT ![c] = "returned"] /\ known' = known
         /\ \E what : /\ answered' = [answered EXCEPT ![c] = what]
                      /\ what = "ok" => answer[c] = "ok"
  BY DEF Running!Ask, Running!Offers, Running!GivesUp, Running!StopsWaiting,
       Running!GoesOn, Running!Refused, Running!TakesAnswer, Running!RefusedLate,
       Running!Returns
<1>4. Running!ToldOf \in Nat /\ Running!ToldOf <= Len(applied)
  BY <1>0, ToldOfIsInForce DEF ControlTyped
<1>5. ViewTyped'
  BY <1>1, <1>3, <1>4 DEF SnapshotsIInv, ViewTyped
<1>6. ASSUME NEW d \in Snapshots PROVE ViewIInv(d)'
  <2>1. ViewIInv(d) /\ d \in Running!Calls
    BY DEF SnapshotsIInv, Running!Calls
  <2>2. CASE d = c
    BY <1>0, <1>1, <1>3, <2>1, <2>2 DEF ControlTyped, ViewIInv
  <2>3. CASE d # c
    <3>1. asked'[d] = asked[d] /\ answered'[d] = answered[d] /\ known'[d] = known[d]
      BY <1>0, <1>3, <2>1, <2>3 DEF ControlTyped, SnapshotsIInv, ViewTyped
    <3> QED
      BY <1>1, <2>1, <3>1 DEF ViewIInv
  <2> QED
    BY <2>2, <2>3
<1> QED
  BY <1>2, <1>5, <1>6 DEF SnapshotsIInv

LEMMA ServeKeepsSnapshots ==
  ASSUME Running!ControlsAssumption, SnapshotsIInv, AnswersIInv', NEW c \in Running!Calls, Running!Serve(c)
  PROVE  SnapshotsIInv'
<1>0. ControlTyped /\ applied \in Seq(Running!Controlling) /\ Len(applied) \in Nat
  BY DEF SnapshotsIInv, AnswersIInv, ControlTyped
<1>1. /\ asked[c] \in {"offering", "waiting"}
      /\ asked' = [asked EXCEPT ![c] = "waiting"] /\ answered' = answered
      /\ known' = known /\ over' = over /\ closing' = closing /\ stops' = stops
      /\ coordinator' \in {coordinator, "loop", "recording", "failing", "gone"}
      /\ room' \in {room, "none", "awaited", "granted", "refused"}
      /\ \/ /\ c \in Running!Controlling /\ applied' = applied /\ view' = view
            /\ \E what : answer' = [answer EXCEPT ![c] = what]
         \/ /\ c \in Running!Controlling /\ asked[c] = "offering" /\ applied' = Append(applied, c)
            /\ view' = view
            /\ \E what : answer' = [answer EXCEPT ![c] = what]
         \/ /\ c \in Snapshots /\ applied' = applied /\ view' = [view EXCEPT ![c] = Len(applied)]
            /\ answer' = [answer EXCEPT ![c] = "ok"]
         \/ /\ c \in Snapshots /\ applied' = applied /\ view' = view
            /\ answer' = [answer EXCEPT ![c] = "none"]
  BY DEF Running!Serve, Running!Served, Running!Rejects, Running!Applies, Running!Switches,
       Running!Recording, Running!Records, Running!FailsToRecord, Running!Shows,
       Running!ShowsNothing, Running!Answers, Running!Controlling
<1>2. /\ Running!IsInjective(applied)'
      /\ Len(applied') \in Nat /\ Len(applied') >= Len(applied)
  <2>1. CASE applied' = applied
    BY <1>0, <2>1 DEF SnapshotsIInv, Once
  <2>2. CASE c \in Running!Controlling /\ asked[c] = "offering" /\ applied' = Append(applied, c)
    BY <1>0, <1>1, <2>2, AppendIsOnce
  <2> QED
    BY <1>1, <2>1, <2>2
<1>3. Once'
  BY <1>1, <1>2 DEF SnapshotsIInv, Once
<1>4. ViewTyped'
  <2>1. view' \in [Snapshots -> Nat] /\ known' \in [Snapshots -> Nat]
    BY <1>0, <1>1 DEF SnapshotsIInv, ViewTyped
  <2>2. ASSUME NEW d \in Snapshots
        PROVE  view'[d] <= Len(applied') /\ known'[d] <= Len(applied')
    <3>1. view[d] <= Len(applied) /\ known[d] <= Len(applied) /\ view[d] \in Nat /\ known[d] \in Nat
      BY DEF SnapshotsIInv, ViewTyped
    <3>2. view'[d] = view[d] \/ view'[d] = Len(applied)
      BY <1>1 DEF SnapshotsIInv, ViewTyped
    <3> QED
      BY <1>0, <1>1, <1>2, <3>1, <3>2
  <2> QED
    BY <2>1, <2>2 DEF ViewTyped
<1>5. ASSUME NEW d \in Snapshots PROVE ViewIInv(d)'
  <2>1. ViewIInv(d) /\ d \in Running!Calls /\ d \notin Running!Controlling
    BY SnapshotsApart DEF SnapshotsIInv
  <2>2. known[d] <= Len(applied) /\ d \in DOMAIN view /\ d \in DOMAIN answer /\ d \in DOMAIN asked
    BY <1>0, <2>1 DEF SnapshotsIInv, ViewTyped, ControlTyped
  <2>3. CASE d = c
    BY <1>0, <1>1, <2>1, <2>2, <2>3 DEF ViewIInv
  <2>4. CASE d # c
    <3>1. asked'[d] = asked[d] /\ answer'[d] = answer[d] /\ view'[d] = view[d]
      BY <1>0, <1>1, <2>1, <2>4 DEF ControlTyped, SnapshotsIInv, ViewTyped
    <3> QED
      BY <1>1, <2>1, <3>1 DEF ViewIInv
  <2> QED
    BY <2>3, <2>4
<1> QED
  BY <1>3, <1>4, <1>5 DEF SnapshotsIInv

LEMMA StreamKeepsSnapshots ==
  ASSUME SnapshotsIInv, AnswersIInv', StreamStep
  PROVE  SnapshotsIInv'
BY StreamSteps DEF SnapshotsIInv, Once, ViewTyped, ViewIInv

LEMMA SnapshotsNext ==
  ASSUME Running!ControlsAssumption, SnapshotsIInv, [Running!Next]_(Running!vars)
  PROVE  SnapshotsIInv'
<1>1. AnswersIInv'
  BY AnswersNext DEF SnapshotsIInv
<1> QED
  BY <1>1, RunningSplits, CallKeepsSnapshots, ServeKeepsSnapshots, StreamKeepsSnapshots

LEMMA SnapshotsInit == Running!Init => SnapshotsIInv
<1> SUFFICES ASSUME Running!Init PROVE SnapshotsIInv
  OBVIOUS
<1>1. Running!IsInjective(<<>>) /\ Running!ToSet(<<>>) = {} /\ Len(<<>>) = 0
  BY DEF Running!IsInjective, Running!ToSet
<1>2. Snapshots \subseteq Running!Calls
  BY DEF Running!Calls
<1>3. applied = <<>> /\ AnswersIInv
  BY AnswersInit DEF Running!Init
<1>4. Once
  BY <1>1, <1>3 DEF Running!Init, Once
<1>5. ViewTyped
  BY <1>1, <1>3 DEF Running!Init, ViewTyped
<1>6. \A c \in Snapshots : ViewIInv(c)
  BY <1>2 DEF Running!Init, ViewIInv
<1> QED
  BY <1>3, <1>4, <1>5, <1>6 DEF SnapshotsIInv

LEMMA AnswersAreMeant ==
  SnapshotsIInv =>
    Running!TypeOK /\ Running!ControlTellsTheTruth /\ Running!UnrecordedEnds /\ Running!SnapshotsMoveForward
<1> SUFFICES ASSUME SnapshotsIInv
             PROVE  Running!TypeOK /\ Running!ControlTellsTheTruth /\ Running!UnrecordedEnds /\ Running!SnapshotsMoveForward
  OBVIOUS
<1>1. Running!ToSet(applied) \subseteq Running!Controlling
  <2>1. applied \in Seq(Running!Controlling)
    BY DEF SnapshotsIInv, AnswersIInv, ControlTyped
  <2> QED
    BY <2>1 DEF Running!ToSet
<1>2. Running!TypeOK
  <2>1. \A c, d \in Running!ToSet(applied) \cap TransportControls : c = d
    BY DEF SnapshotsIInv, AnswersIInv, OneCipher, InForce
  <2> QED
    BY <1>1, <2>1 DEF SnapshotsIInv, AnswersIInv, ControlTyped, Once, ViewTyped, Running!TypeOK
<1>3. Running!ControlTellsTheTruth /\ Running!UnrecordedEnds
  BY DEF SnapshotsIInv, AnswersIInv, ControlIInv, Running!ControlTellsTheTruth,
       Running!UnrecordedEnds, InForce
<1>4. Running!SnapshotsMoveForward
  BY DEF SnapshotsIInv, ViewIInv, Running!SnapshotsMoveForward
<1> QED
  BY <1>2, <1>3, <1>4

(* Snapshots only move forward, whatever order they and the controls are served in:   *)
(* one that is returned shows every control whose caller had been told of it, and      *)
(* all that any earlier snapshot had shown, when it was called (stream_runtime.go     *)
(* 851-863, 902-937).                                                          *)
THEOREM SpecSnapshotsMoveForward == Running!Spec => []Running!SnapshotsMoveForward
<1>1. SnapshotsIInv /\ [Running!Next]_(Running!vars) => SnapshotsIInv'
  BY RunningAssumption, SnapshotsNext
<1> QED
  BY <1>1, AnswersAreMeant, SnapshotsInit, PTL DEF Running!Spec
-----------------------------------------------------------------------------
(***************************************************************************)
(* The two parts together.                                                    *)
(***************************************************************************)
CallsIInv == LifecycleTyped /\ StopIInv /\ CauseIInv /\ SnapshotsIInv

LEMMA CallsStep == CallsIInv /\ [CallsNext]_<<part, vars, running>> => CallsIInv'
<1> SUFFICES ASSUME CallsIInv, [CallsNext]_<<part, vars, running>> PROVE CallsIInv'
  OBVIOUS
<1>1. [Next]_vars /\ [Running!Next]_(Running!vars)
  <2>1. UNCHANGED running => UNCHANGED Running!vars
    BY DEF Running!vars, Running!stream, running
  <2>2. UNCHANGED <<part, vars, running>> => UNCHANGED vars /\ UNCHANGED running
    OBVIOUS
  <2> QED
    BY <2>1, <2>2 DEF CallsNext
<1>2. LifecycleTyped' /\ StopIInv' /\ CauseIInv'
  BY <1>1, NextKeepsTypes, NextKeepsStop, NextKeepsCause DEF CallsIInv
<1>3. SnapshotsIInv'
  BY <1>1, RunningAssumption, SnapshotsNext DEF CallsIInv
<1> QED
  BY <1>2, <1>3 DEF CallsIInv

(* What any call is told is true and stays true, for any number of callers: a Wait    *)
(* tells the cause of the end, an error of Control that the control is not in force   *)
(* or that the stream is stopped next, and a Snapshot all that anybody had been told of *)
(* (stream.go 315-342, stream_runtime.go 851-989).                              *)
THEOREM SpecAnswersAreTrue == CallsSpec => []AnswersAreTrue
<1>1. CallsInit => CallsIInv
  BY InitTypes, InitStop, InitCause, SnapshotsInit DEF CallsInit, CallsIInv
<1>2. CallsIInv => AnswersAreTrue
  <2>1. CallsIInv => TypeOK /\ WaitsAgree
    BY DEF CallsIInv, LifecycleTyped, CauseIInv, WaitsAgree
  <2>2. SnapshotsIInv =>
          Running!TypeOK /\ Running!ControlTellsTheTruth /\ Running!UnrecordedEnds
            /\ Running!SnapshotsMoveForward
    BY AnswersAreMeant
  <2> QED
    BY <2>1, <2>2 DEF CallsIInv, AnswersAreTrue
<1> QED
  BY <1>1, <1>2, CallsStep, PTL DEF CallsSpec
=============================================================================
