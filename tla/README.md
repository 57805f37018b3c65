# Verification of minecraft-protocol

TLA+ models of `github.com/go-theft-craft/minecraft-protocol`, TLC
configurations that check them on small instances, and TLAPS proofs of the
results that hold for every instance. The reference is the source; paths below
are relative to `src/`.

## 1. The system

The library turns a byte transport into a *managed stream* of packets. Nearly
all of its concurrency is in the root package; the other packages are drivers
and consumers of a stream, or sequential codecs and tables.

| Component | State it keeps | Operations | Interacts with |
| --- | --- | --- | --- |
| budget (`stream_budget.go`) | items, bytes, FIFO of waiters, closed | reserve, cancel, charge, release, close | everything a stream retains |
| read pump (`stream_runtime.go:128-193`) | the frame in hand, the processing slot | frame, hand over, report a failure | coordinator (rendezvous), transport |
| write pump (`:197-211`) | the job in hand | write, answer | coordinator (rendezvous), transport |
| coordinator (`:254-706`) | the pending packet, the session, the frame counter | decode, write, control, snapshot, shut down | all of the above, the sink's channel |
| observation dispatcher (`observation.go`) | the record the sink has | deliver, drain | budget, coordinator (channel), user's sink |
| supervisor and linger (`stream.go:262-374`, `stream_linger.go`) | stop, done, first cause, graceful, lingering | watch the context, stop, join | every goroutine, transport |
| callers (`Read`, `Write`, `Shutdown`, `Close`, `Control`, `Snapshot`, `Wait`) | one request each | | coordinator, budget |
| conduit (`conduit.go`) | two ciphers, read-ahead count | read, write, switch | pumps, controls |
| pre-frame hook (`preframe.go`, `wire/java/legacy_ping.go`) | none | claim or decline | read pump |
| login negotiator and acceptor (`login/`) | position in the sequence | read, write, switch | stream, conduit, each other |
| capture writer, reader, sinks (`capture/`) | string table, digest, buffer | record, flush, close, read back | dispatcher, file |
| replay player (`replay/`) | primed, session state | next, reconcile | capture reader, session |
| history ring (`history/`) | bounded records | observe, snapshot | dispatcher |
| router and middleware (`router/`, `middleware/`) | handler table, running | register, dispatch, run | stream |
| frame, VarInt, compression (`wire/java/`) | none | encode, decode | session |
| field codecs, NBT, chunks, encryption primitives (`wire/java/`) | none | encode, decode | generated packets |
| data registry and sets (`data/`), protocol lookup (`protocols/`) | tables | register, load | users |
| generated packages, code generator, source fetch, manifest, command, harnesses | | | |

What is hard, and why a test hardly reaches it:

- **One budget for many queues.** The Read queue, accepted writes and pending
  observations share one allowance, so progress of one depends on consumers of
  another, and a leak of one item anywhere is a stall elsewhere.
- **Selects over ready cases.** Go picks at random; a stop, a grant and a
  context can be ready together, and each case has its own way out.
- **Ownership that moves between goroutines.** The processing slot follows a
  frame from the read pump to the coordinator; a write's item is released by
  the caller or by the coordinator, depending on who had it last.
- **Stopping in steps.** `stop` closes a channel, then the budget, then
  interrupts the transport; everybody else sees the states in between.
- **Polite endings.** Shutdown, the last records of a capture and the linger
  each wait for a goroutine that may be waiting for them.
- **Two ends that keep the same state.** Sessions and ciphers change on each
  side of a connection at that side's own moment, while frames cross.
- **Files that outlive a process.** A capture is cut at any byte, a fetch between
  any two calls, and what is read back later must know it.
- **Bytes that do not describe themselves.** A column, a ciphertext, a tag or a
  length prefix that is read a unit too early is still something.

What makes each component correct: the budget conserves capacity, never barges
and answers every waiter; the stream delivers in order, tells the truth about
writes, charges for exactly what it keeps, and ends when told to; a login
reaches play or reports why not; a capture reads back what was written up to
the cut; a replay ends where the capture did; a ring keeps the newest records
within its bounds; a router dispatches from a table that no longer changes; a
codec reads back what was written and nothing else. `PROJECT.json` lists the
hazards at their lines, with the properties that would catch them or the reason
none does.

## 2. Modules

| Module | Models | State |
| --- | --- | --- |
| `PrefixSums` | running totals of a sequence, a recursive function | |
| `Budget` | `stream_budget.go`, one action per method, and the protocol its callers keep | queue, holders, closed |
| `Stream` | a started stream: pumps, coordinator, dispatcher, supervisor, callers and peer, over an `INSTANCE` of `Budget` | control points, queues, wire |
| `Duplex` | what a stream promises its users, without its goroutines: the abstract specification of `Stream` | delivered, wire, answers |
| `Lifecycle` | Start, Close, Shutdown and Wait of one stream, any number of each | `started`, stop, done, cause |
| `Controls` | Control, SetState and Snapshot against the coordinator | requests, answers, what is in force, where the coordinator is |
| `Conduit` | `conduit.go`: read-ahead, published count, the two ciphers, as operators on a record | |
| `Login` | negotiator and acceptor, each over a `Conduit`, with the stream between reduced to what a login sees | steps to do, conduits, sessions |
| `Sessions` | the session both generated protocols implement, one at each end, over links that hold frames | state, compression, links |
| `Journal` | the abstract capture: an append-only sequence and an ending that may claim completeness | |
| `Capture` | writer, file sink, file and reader; implements `Journal` | string tables, buffer, file, clock |
| `Replay` | a recording endpoint and the player of its capture | tape, player's session |
| `Script` | the script that `serve` makes of a capture; extends `Replay` | |
| `History` | the ring, as the second member of a multi sink whose first may fail | window, totals |
| `SourceSwap` | download, verification and the renames that install a tree | trees on disk |
| `Inlet` | a stream as the one who reads it sees it; shared by the next two | pending packet, inbox, cause |
| `Serve` | `mcproto serve`, and the session of `mcproto capture` | step, summary, sink |
| `Router` | registration, Run and dispatch, inside a counting middleware | handler table |
| `Framing` | pre-frame hook, VarInt and framer, byte by byte | bytes seen, frames read |
| `Envelope` | the compression envelope by the sizes of what it holds | |
| `Cfb8` | the stream cipher over any block cipher | registers |
| `Column47`, `Column775` | chunk columns of either protocol, written, cut, damaged, split and decoded | |
| `Nbt` | the validator of named binary tags and the lookup that walks them again | |

Six suites and `MCStream` instantiate them for TLC: `MCBudget`, `MCStream`,
`MCCalls` (Lifecycle, Controls), `MCLogin` (Login, Sessions),
`MCRecordings` (Capture three times, Replay three times, Script, History,
SourceSwap), `MCCommands` (Serve under three settings, Router) and `MCCodecs` (the six
codec modules). A suite puts parts side by side that share no state: its
variable `part` says which of them a behaviour is of, the others stay where they
began, and a property of a suite says of each part what concerns it. So one run
covers several instances of the same question.

Eight modules hold proofs: `SumProofs` (lemmas the others cite), `BudgetProofs`,
`StreamProofs`, `CallsProofs`, `LoginProofs`, `SessionsProofs`, `RecordingsProofs`
and `CommandsProofs`.

### Budget

Every method holds `budget.mu` from its first line to its last, so each is one
step. A reservation is a name with a need; `status[r]` records what its
`budgetWaiter` says (waiting, granted, refused) and what the caller did next.
`Servable` is the number of iterations of the loop in `grantLocked`: the
longest prefix of the queue whose members fit in turn, computed with running
totals so that it can be reasoned about without an induction over the loop.
`Make`, `GiveUp`, `ForceCharge` and `GiveBack` are when the stream calls which
method; `Stream` is checked to keep this protocol (`KeepsBudgetProtocol`), so
what is proved of `Budget` is about the budget as it is used.

### Stream and Duplex

Each goroutine is a control point (`reader`, `writer`, `at`, `dispatcher`) or,
for callers, the phase of a call (`call`, `reading`, `shutdown`). Points of
interleaving are those of the code: channel operations, budget calls and
transport calls. Work between two of them that only the coordinator can see is
one step. In particular:

- an unbuffered channel is a joint step: `TakeFrame` needs the read pump
  "handing", `HandJob` needs the write pump "idle", `TakeWrite` a call
  "sending";
- a `select` is one disjunct per case, any ready one may be taken. The inner
  `select`s that prefer one case (a delivery before the stop in `coordinate`, a
  result before the stop in `sendDisconnect`) are the guards of theirs;
- `stop` is three steps (`FailAndStop`, then `StopGoesOn` twice), because
  other goroutines run between them; whoever calls it second waits as
  `sync.Once` makes it, so the control points "stopping" and "stopWrite" leave
  only when `Stopped`;
- the run goroutine continues as the supervisor: after "ended" `at` is the
  position in `run`, `linger` and `supervise`;
- observing is the same operator for all seven places that record something
  (`Observed` names what follows each); with no sink they are skipped;
- bytes reach the peer (`WriteReaches`) before the transport call returns
  (`WriteReturns`), which is what makes an interrupted write ambiguous;
- the peer, the sink and the contexts are free: they act or not, at any time.
  `Acts` says which of these an instance has.

Abstracted: what packets contain (a packet is a name with a size; whether it
decodes, encodes or implies a transition is a set of the instance), framing,
error texts beyond the first cause, the metadata of a record, time (the linger
timer may fire at any moment, or, in an instance without "time out", after the
peer has closed).

`Duplex` is what the comments on Read, Write, Shutdown and Wait promise: inbound
packets in order and, until something stops the stream, without a gap; an answer
to every Write that stays true; a disconnect that is the last word; an end after
which nothing reaches the peer. Once the stream is `ending` a gap is allowed,
because `deliverArrival` drops a packet the queue has no room for
(`stream_runtime.go:448`) and may still queue the next one when a reader has made
room in between. The refinement reads `ending` as "has been stopped", `over` as
"done", and what a call was told from its result.

### Lifecycle and Controls

`Lifecycle` splits Start, Close, Shutdown and Wait at every atomic load,
compare-and-swap and `sync.Once`, and leaves the inside of the stream to one
runner that may end by itself. `Controls` has the coordinator's other work only by
what a caller of Control meets of it: "elsewhere" with a frame, a write or a
shutdown, from which nothing obliges it to come back. A switch of ciphers takes
effect before its record asks for room, and the record may be granted some, be
refused, or wait for as long as nobody makes any (`room`). When it is lost the
caller has the error first (`FailsToRecord`) and the stream is stopped after it
(`StopsUnrecorded`). A configuration is the sequence of the controls in force.

### Conduit, Login and Sessions

A frame crosses as two units, length and payload, each enciphered or not, and the
transport hands any number of them to one read: the read-ahead that a switch of
ciphers must refuse. In `Login` each end has what it still does (`todo`), a
sequence that its configuration and its peer's packets change; the faults of a
setting (a session service that says no, a context that ends, a closed stream)
may strike at any step. `Sessions` has no login function: whatever either
application may send at any moment crosses, and the two sessions must read every
frame in the state and the envelope it was written in. Its `version` says which
protocol the two speak, and never changes. In protocol 47 a server may set
compression in play too; the instance of the run lets it do so only before the
first packet the client acts on (`CompressesInPlay <- "first"`), for the reason in
section 5, item 16.

### Capture, Replay, Script, History and SourceSwap

The file is a sequence of units that a kill cuts anywhere; what has not been
flushed is not in it. The writer's string table and the reader's are separate,
so a back reference to a string that was never written shows. `KeepsJournal` maps
the file to `Journal`: what was accepted is written, what the reader returned is
read. `Replay` records two records a frame, as the coordinator does, from any
state a connection may be in, and replays them under the code's own rules for
which of them it follows; `Script` does the same for `serve`. In `SourceSwap` any
call may fail and the process may be killed between any two.

### Serve and Router

`Inlet` tells a failure by what it wraps, because that is what the commands
decide by: a frame that ends where a field begins wraps `io.EOF` as a peer that
left does. It has the coordinator's pending packet as a state of its own (`held`):
a packet that was decoded and has no place in the queue is lost when the
coordinator returns on a failed write, a refused grant or a shutdown (`Breaks`), or
finds the queue full at the stop (`Drops`, `Leaves`). `Stream` has the steps inside
that. `Serve` runs the script, the timers and the drain of one session after
another. What is run, what its clients may do and the bounds are one record,
`setting`, chosen at the start from `Settings` and never changed. `Router` registers,
runs and dispatches.

### Codecs

Each writes every value of a small range, or takes every sequence of bytes up to
a length, and reads it back: a module has the code of both sides as operators,
and its actions are the calls. `Framing` scales a byte to three bits and a VarInt
to three bytes; `Cfb8` quantifies over all block ciphers on two bits; a column's
section has four blocks and two biomes, with palettes on both sides of every
threshold.

## 3. Runs

| Run | Instance | Shows |
| --- | --- | --- |
| `budget` | five reservations (two small, one as large as the budget, one without bytes, one too large), 2 items, 3 bytes | capacity adds up, queue order, no barging, wake-ups, every waiter answered |
| `traffic` | three arrivals and a write that may be cancelled on two items and seven bytes; close; shutdown without a disconnect | one frame in flight, order, transitions before delivery, what Write reports, capacity kept; and the types |
| `shutdown` | sink, write, malformed arrival; expiry, hang-up, end of context, timer | disconnect last, capture complete, done means over, capacity with a third kind of holder; `Stream` implements `Duplex` |
| `stops` | failing sink, write, arrival, close; fairness of goroutines only | a stopped stream ends, writes return; the budget's protocol is kept |
| `served` | no sink, two writes (one unsendable), an arrival nobody reads and one larger than the budget; the peer reads | shutdown ends, accepted writes answered, an oversize payload ends the stream |
| `calls` | two Starts, a Close, two Shutdowns, a Wait; a session control, two cipher controls, a snapshot | one run, done behind the interrupt, true answers, a lost record stops the stream, every call returns |
| `login` | five settings of protocol and faults; two sessions with up to six frames in flight in either protocol | ends understand each other, success means agreement, refusals are learned, sessions in step, logins return |
| `recordings` | four records through a sink that is killed or fails, three with damage or with time; tapes of up to five frames from any state; six observations into a ring of three; four fetches | what is read back is true, replays follow the tape, the ring is the end of the log, no tree is lost |
| `commands` | a script that speaks, one session; one that listens, two sessions; three packets each; a capture of two; two handlers and two packets | reports are true, sessions end |
| `codecs` | section 2 | written is read, nothing else is |
| `shutdown_blocked`, `lifecycle_over` | | counterexamples, section 5 |

**Deadlock checking is off** everywhere: a budget whose reservations are settled,
a stream that is done, a file that has been read have nothing left to do. That
nothing stops too early is what the liveness properties say.

**Bounds and why they are enough.** Two items is the smallest budget with room
for one holder beside another and a third that must wait; the three bytes of
`budget` make a reservation fit by items and not by bytes, the seven of `traffic`
by bytes and not by items. Five reservations give a queue of two behind two
holders plus one that is always refused. Three arrivals put one packet in the
queue, one pending and one in the read pump; two writes give one that is being
sent while another waits. Two Starts and two Shutdowns race each other besides
the rest; two cipher controls meet the rule that only one is ever applied. Six
frames let both directions of `Sessions` be full across a transition. A record
after a rejected one, and a string that recurs after it, need three calls of
Observe. A ring of three meets its bound by number and, with sizes 0, 1, 2 and 5
under four bytes, its bound by bytes and the record that is larger alone. Four
fetches are two that die around one that succeeds. Three packets are, in `serve`,
the greeting, one that is queued and one that is pending behind it when the stream
ends; frames that wrap `io.EOF` and those that do not are in different settings,
and the second session of the listening script is there for what the first may
leave behind. Every bound of a module is a
constant whose comment says "bound"; there is no state constraint and no symmetry,
because packets, calls and records differ in what becomes of them.

**Fairness.** `Stream!FairSpec` assumes that the Go scheduler runs every runnable
goroutine, that a sink's `Observe` returns, and that an interrupted transport
call returns, which `Transport.Interrupt` demands (`transport.go:14-17`). Nobody
is obliged to call Read, to act or to send. `ServedSpec` adds a peer that takes
the bytes it is sent. Weak fairness of a whole goroutine lets a `select` prefer
one ready case for ever; the properties hold even so. `Lifecycle` assumes the same
of each call once it is made, and not that anybody makes one. `Controls` does so
too, and of the coordinator only that it serves what it is at, that it leaves when
the stream is stopped, because the stop interrupts the transport and ends the wait
for room (`stream_runtime.go:523`, `observation.go:169`), and that a supervisor behind
it stops and finishes the stream. It is not assumed to come back from elsewhere
before the stop, nor anybody to make room. So `EveryCallReturns` is of calls that meet
a stream that has been stopped or whose coordinator has left, and of accepted ones
unless their record still waits: an accepted Control does not listen to its context
(`stream_runtime.go:972-989`), and may hang for as long as nobody stops a stream
that nobody reads.
`Budget!FairSpec` assumes that holders return what they hold, which in `Stream`
is a user's Read or the end of the stream. `Login` assumes it of each end's stream
and login function, and that the caller of a failed login closes its stream;
`Serve` of the command and its stream, and that timers fire, but not that a pending
packet ever finds a place (`StreamQueues`), which is for whoever reads. No strong fairness
is used.

## 4. Proofs

All proofs are for arbitrary constants that satisfy the module's assumption, so for
any reservations, packets, thresholds, bounds and numbers of calls; the theorems of a
suite have its parts side by side as the run does.

- **Sums** (`SumProofs`). `PrefixSumTotals`: for every sequence of naturals the running
  totals are a function that satisfies the recursion. A fold over a finite set is the
  last row of a table, from which follow the sums of the empty set, of a set and
  one more, of parts, and of a smaller function. Both are built with the least
  counterexample, which avoids an induction schema.
- **Budget** (`BudgetProofs`). The invariant is `IInv == Typed /\ QueueIsWaiting`: each
  needs the other, because the statuses after a grant need the totals to exist. From
  it `SpecTyped` and `SpecQueueIsWaiting`; `SpecNoBarging` and `SpecWakesWhatFits`
  follow step by step, because a grant serves a prefix of the queue and stops where
  the next does not fit, and a newcomer joins the queue before it is served.
  `SpecCapacityAddsUp` is the accounting: what is available and what the holders
  hold sum to the capacity, in items and in bytes, because a grant moves exactly the
  total of the prefix it serves from the one to the other.
- **Stream, endings** (`StreamProofs`). `OneFrameInFlight` is inductive as it
  stands. `DisconnectIsLast` is not: `ByeIInv` adds that the coordinator is past its
  select whenever the disconnect may be with the write pump, that the pump has one
  job at most, and that nothing hands it another after that. `EndIInv` follows the
  supervisor: which goroutines have exited at each of its points, that a stop has a
  cause, and that a dispatcher which left an unstopped stream had drained the
  queue. From it `SpecDoneMeansOver` and `SpecCaptureIsComplete`.
- **Stream, writes** (`StreamProofs`). `WriteIInv` is one conjunct about the
  pump's job and one for each call, by its phase: what the coordinator, the pump
  and the reply may still say of its frame. Its point is that a cancelled or
  rejected call can never be in the job again. `SpecWriteTellsTheTruth`.
- **Stream, reads** (`StreamProofs`). `OrderIInv` places every packet that was
  taken off the wire: what was delivered, queued, pending and decoded is, in this
  order, a subsequence of the peer's, and all of it until the stream stops.
  `SessionIInv` adds when a transition was applied. `SpecReadInOrder` and
  `SpecTransitionsCommitted`.
- **Refinement** (`StreamProofs`). `OrderIInv`, `WriteIInv` and `ByeIInv`, with `Joined`
  (a stream that is done has been stopped and its write pump has exited), are
  inductive together, and under them every step of `Stream` is a step of `Duplex` or
  leaves its variables alone: `SpecKeepsPromises`.
- **Stream and its budget** (`StreamProofs`). `SpecKeepsBudgetProtocol`: every
  step of `Stream` is a step of the `Budget` it instantiates or leaves it alone, so
  the theorems about the budget are about the one that the stream uses. Its
  invariant, `Kept`, says for each reservation what its status may be from where the
  goroutine or the call that made it stands; `ChargedForRetained` reads off it.
  `SpecCapacityIsKept` adds the room: what is queued or offered is granted, one
  item each, and a grant leaves no more granted than there are items, so by counting
  there is a place left for the one that was granted and not yet put down.
  `SpecTypeOK` is the type invariant, which leans on the same one.
- **Lifecycle** (`CallsProofs`). `StopIInv` (done and whoever sets it come behind an
  interrupt that returned), `StartIInv` (at most one Start has swapped or succeeded,
  and a runner exists exactly if one did) and `CauseIInv` (what stops or answers has
  a cause, and the first one stays), each inductive alone: `SpecDoneMeansInterrupted`,
  `SpecOneRun`, `SpecWaitsAgree`.
- **Controls** (`CallsProofs`). `AnswersIInv` says for each call, by its phase, what
  its answer and the configuration may be, and that an error for a control in force
  is told only by a coordinator that is failing or once the stream is stopped:
  `SpecControlTellsTheTruth` and `SpecUnrecordedEnds`. `SpecSnapshotsMoveForward` is from an invariant that bounds what
  a call knew, what it was shown and what is in force by one another. With the
  lifecycle's they make `SpecAnswersAreTrue`, of the suite.
- **Logins** (`LoginProofs`). Each login function is at a *place* of one fixed course
  that the setting cuts short. `Core(place, read, taken)` relates, for some places of
  both ends and some numbers of packets read and frames decoded, everything else to
  them: what is left to do, how many frames were written and read before (sums of
  what the setting asks for), which packet, envelope and cipher the i-th frame of an
  end has, that what is on the way is what the peer has written and the end has not
  read, which ciphers are on, and the session of an end from the frames it has said
  and heard. `LoginInv == Typed /\ (Astray \/ Kept)` is inductive under every setting:
  `Kept` says that such places exist, and `Astray` sets apart a server whose context
  ended and which failed, because it may then write its refusal half way through the
  exchange of keys (section 5, item 9). What makes it inductive is arithmetic about two places
  at once (`InStep`): with frames still on the way, neither end can be past the point
  where the next of them would be read in another state, envelope or cipher.
  `SpecEndsUnderstandEachOther` follows. `SpecRefusalIsLearned` needs `Learns` besides,
  which says why a client's stream may stop early: the server cannot refuse it any more,
  or the refusal is queued already. Its hypothesis `Uncut` leaves out settings in
  which a verifier refuses *and* the client's own caller closes the stream over it:
  TLC shows that such a client may return "ended" although it was refused.
  `SpecDoneMeansAgreed` reads the sessions and ciphers off the places; in protocol 47
  with a verifier it needs `Calm`, that in a setting whose only faults are refusals no
  stream stops before a login has failed. Without that it is false (item 10).
- **Recordings** (`RecordingsProofs`). The ring's invariant relates its window to the
  log: a contiguous end of it, its weight the sum of the sizes in it, and as much as
  fits. `SpecRingIsTheEndOfTheLog`. The fetch's says which of the trees on disk are
  whole and how old, at each step of the swap, whatever call fails and wherever the
  process dies: `SpecFetchKeepsATree`.
- **Sessions** (`SessionsProofs`). That a frame is read in the session it was written in
  depends on every frame before it and, because both ends move, on what the other
  may still write. `StepIInv` says that a link *leads* from its reader's session to
  its writer's, frame by frame, whenever nothing on the way back moves, and that of
  the two directions one is empty or the other is *still*. To keep that it also says
  what each end may have sent from where, that one question at a time is on its way,
  to be answered or answered, and that no threshold is behind the first data of
  play. `SpecSessionsInStep`, of both protocols. (The agreement of quiet ends
  turns out to need only the empty links.)
- **Commands** (`CommandsProofs`). `ServeIInv` holds under every setting. It relates
  what a session has read, what is queued, what is pending and what arrived: equal
  while the stream runs, and for ever after a subsequence, with the pending packet
  still the last that arrived. That a subsequence stays one when a packet arrives, is
  queued or is lost are lemmas of their own. It says besides, for a script
  that only listens, which causes the stream can still end of at each place where
  the command reports one, which needs that nothing is written and that the sink is
  open until then; and, for a capture, that the sink is closed only behind a stream
  that is done. `RouteIInv` says that the handlers done and the handlers left are
  together what is due for the packets taken so far, in order, and that nothing is
  due before a run has begun, after which no registration is taken; flattening the calls due is a recursive
  function over a sequence, and `FlattenAdds` says what one more packet adds.
  `SpecReportsAreTrue`, of the suite.

What is assumed of constants is what the modules' assumptions say (reservations and
calls are of one kind, sizes are naturals, thresholds integers), and the runs check
it of theirs.

Only model-checked:

- liveness under fairness, and `ENABLED`, which the prover does not have;
- `RefusalIsLearned` and `DoneMeansAgreed` have hypotheses on the setting in their
  theorems, which the settings of the run all meet;
- captures and replays (`ReaderTellsTheTruth`, `CaptureKeepsUp`, `ReplayFollowsTheTape`)
  and the codecs: what a fold over a file, a tape or bytes computes is an induction
  over data;
- `Nbt`, whose validator is a recursive operator.

## 5. Where code and documentation disagree

Two runs keep a counterexample that TLC finds.

1. *A shutdown that a full queue blocks* (`shutdown_blocked`,
   `stream_runtime.go:701`). With a sink, the record of the disconnect waits for the
   budget that unread packets hold. Without one, `served` shows that shutdown ends.
2. *Done before the goroutine* (`lifecycle_over`, `stream.go:251`). A Close that
   finds the stream not started finishes it just after a Start has checked for that:
   done is closed, and the runner starts.

Four more are reproduced by configurations beside the runs.

3. *A capture that ends short* (`MCCommandsCapture.cfg`, `observation.go:227`).
   `mcproto capture` ends by closing its stream, and the dispatcher returns at the
   stop with records still queued; it drains behind a graceful shutdown only. The
   comment at `cmd/mcproto/capture.go:169` says that closing the stream drains them.
4. *Cancelling the head of the queue* (`MCBudgetHead.cfg`, `stream_budget.go:109`).
   `cancel` does not serve the queue, so what the head was blocking waits although
   it fits. The next release serves it: `EveryWaiterAnswered` holds.
5. *A decoded packet left behind* (`MCStreamAbandons.cfg`, `stream_runtime.go:287`).
   `coordinate` hands its pending packet over only on the `stopping` case; a refused
   reservation taken through `granted`, and the returns after a write or a
   shutdown, drop it. The comment at 215-218 calls this losing "precisely the packet
   that explains the ending". `serve` does not count such a packet and a router does
   not handle it: `ReportsAreTrue` is of what the stream did not lose.
6. *A linger that does not read on* (`MCStreamLinger.cfg`, `stream_linger.go:57`).
   Nobody receives frames while the stream lingers, so one more packet from the peer
   blocks the read pump until the timer.

The others were met while modelling. The models do what the code does; where a
property would say otherwise, its instance stays clear of the case, as noted.

7. `stream_runtime.go:448`: after a stop, a full queue drops a packet and a later one
   may still be delivered, a gap rather than an end. `Duplex` allows it.
8. `conduit.go:178`: a cipher may be installed while the read pump is inside a frame
   whose length it has read, against "at a frame boundary"
   (`transport_control.go:11`). No login has a frame in transit then; other callers
   of Control may.
9. `login/acceptor.go:178`: an acceptor whose context ends during the key exchange
   writes its refusal in the clear with that context, while the client has installed
   its cipher: the client learns another reason. `RefusalIsLearned` is of ends whose
   contexts have not ended.
10. `login/negotiator.go:411`: every failure of the outbound switch is held back as if
   the stream had ended. If the context ended, or the stream did for another reason
   than a refusal, a login success that is queued already makes a login of protocol 47
   succeed without its outbound cipher. The settings let contexts end and ends close
   in protocol 775, where the acknowledgement that follows fails with them;
   `SpecDoneMeansAgreed` names the others.
11. `capture/file_sink.go:166`: the flush interval is looked at only when a record
    arrives, so the last ones before a quiet spell wait in the buffer.
    `ArrivalFlushes` is what does hold.
12. `capture/writer.go:141`: the record of a frame includes its length prefix, and of
    a packet its decompressed body, but both are held against the frame limit.
13. `replay/player.go:404`, `438`: the replay of a server's capture does not follow
    its set compression, and one that begins under way does not know that compression
    is on. The instances replay clients, and connections that begin in the clear.
14. `wire/java/framer.go:55`: a transport that ends right behind a length prefix is a
    clean end of the stream.
15. `wire/java/legacy_ping.go:108`: FE 01 is the prefix of a frame of 254 bytes too.
16. `generated/java/v1_8/protocol.go:340`: one compression control serves both
    directions, so a threshold set in play changes how frames are read that are
    already on their way.
17. `wire/java/compression.go:127`: with compression off the decompressed limit is
    not applied. The instances have it on.
18. `cmd/mcproto/script.go:174`: in protocol 47 the login success is decoded in the
    state behind it. The instance is of protocol 775.
19. `cmd/mcproto/serve.go:580`, `427`, `router/router.go:271`: a packet that ends
    where a field begins wraps `io.EOF` and passes for a client that left; a decode
    failure met by a Write is not counted; a reset connection is a finding.
    `FindingsAreReported` and `FailuresAreFindings` are of a script that only listens
    to clients without these.
20. `cmd/mcproto/serve.go:225`: deferred calls close the sink before the stream.
    Records that come after are refused and end the stream. `capture` has them in
    order, which is what `FileOutlivesStream` says.

## 6. Not modelled

Of about 104 000 lines of implementation some 78 000 are generated: packet codecs,
registries, recipes, block and collision tables of two protocols, without a branch
that a specification could say anything about; of the generated code only the two
sessions (`protocol.go`) have control, and they are modelled. What remains by hand is
about 25 500 lines, of which the following are left out:

- limits, protocol lookup, game data registry and sets: validation against constants
  and tables that are read only, or one map behind one lock;
- the code generator and its parsers, the compatibility and interoperability
  harnesses: build-time functions from text to text, and tests;
- primitive field codecs: straight-line conversions with one reader, covered by the
  repository's fuzz and round-trip tests;
- RSA, the server hash, zlib: external, used through what they return;
- replay pacing, redaction, cloning of payloads, the sender's chain of middleware,
  path checks, argument handling and printing: no state a step could leave half
  done;
- in `Column775`, the check for an exact end (`protocol775.go:106`), which the rule
  before it makes unreachable.

A share of the implementation that is large in lines is therefore out of reach
without transliterating tables.

## Running

`tlc -config MCStreamTraffic.cfg MCStream` checks a run (`PROJECT.json` has the
module of each), `tlapm StreamProofs.tla` the proofs of a module.
