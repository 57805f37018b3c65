---------------------------- MODULE MCRecordings ----------------------------
(***************************************************************************)
(* What outlives a connection: its capture, written and read back; the replay    *)
(* of a capture and the script made of one; the history ring; and the datasets    *)
(* fetched onto disk.  The parts share no state; a behaviour is of one of them.   *)
(***************************************************************************)
EXTENDS Capture

CONSTANTS
  Sizes, MaxRecords, MaxBytes, MaxOffered,                     (* History    *)
  MaxFetches                                                   (* SourceSwap *)

VARIABLES
  part,
  live, tape, player,                                          (* Replay     *)
  offered, kept, records, bytes, dropped,                      (* History    *)
  output, previous, staging, step, aside, fetches, returned    (* SourceSwap *)

replaying == <<live, tape, player>>
keeping   == <<offered, kept, records, bytes, dropped>>
swapping  == <<output, previous, staging, step, aside, fetches, returned>>

(* A capture of a login and of one packet of play: strings that recur and        *)
(* strings that do not, a rejected write, and a secret that may not be stored.    *)
Entry(kind, before, after, name, reason) ==
  [kind |-> kind, before |-> before, after |-> after, name |-> name,
   reason |-> reason, size |-> 1, redacted |-> FALSE]

Login == {Entry("raw frame", "login", "login", "", ""),
          Entry("packet", "login", "play", "success", ""),
          Entry("rejected", "play", "play", "chat", "closed"),
          Entry("secret", "login", "login", "key", "")}

(* The same on a disk that does not fail, but damages what it holds; and through a   *)
(* buffer that only the interval empties.                                        *)
Damaging == INSTANCE Capture WITH DiskFails <- FALSE, Damages <- TRUE, MaxCalls <- 3

Timed == INSTANCE Capture WITH
  FlushBytes <- 64, DiskFails <- FALSE, Damages <- FALSE, MaxCalls <- 3, MaxClock <- 4

(* Recordings that begin with the connection or, in the clear, on one that is     *)
(* under way.  The regressions are of a transition of state and of a compression   *)
(* after which no packet moves the session.                                    *)
At(state) == [state |-> state, compression |-> FALSE]

Lost == {[name |-> "success", direction |-> "clientbound", state |-> "login",
          next |-> "play"],
         [name |-> "compress", direction |-> "clientbound", state |-> "play",
          next |-> "play"]}

Replays == INSTANCE Replay WITH
  Protocol <- 775, Role <- "client", Compresses <- TRUE, Regressed <- {},
  Begins <- {At("handshaking"), At("login"), At("configuration"), At("play")},
  Sends <- "nothing", MaxFrames <- 5

Regresses == INSTANCE Replay WITH
  Protocol <- 47, Role <- "client", Compresses <- TRUE, Regressed <- Lost,
  Begins <- {At("handshaking"), At("login"), At("play")},
  Sends <- "nothing", MaxFrames <- 4

Resends == INSTANCE Replay WITH
  Protocol <- 47, Role <- "client", Compresses <- TRUE, Regressed <- {},
  Begins <- {At("handshaking")}, Sends <- "clientbound", MaxFrames <- 5

Scripts == INSTANCE Script WITH
  Protocol <- 775, Role <- "client", Compresses <- TRUE, Regressed <- {},
  Begins <- {At("handshaking"), At("login"), At("configuration"), At("play")},
  Sends <- "nothing", MaxFrames <- 5

Ring == INSTANCE History

Fetch == INSTANCE SourceSwap

ASSUME Damaging!CaptureAssumption /\ Timed!CaptureAssumption
ASSUME Replays!ReplayAssumption /\ Regresses!ReplayAssumption
ASSUME Resends!ReplayAssumption /\ Scripts!ReplayAssumption
ASSUME RingAssumption == Ring!HistoryAssumption
ASSUME FetchesAssumption == Fetch!FetchAssumption

Parts == {"capture", "damaged capture", "timed capture", "replay", "regressed replay", "resend",
          "script", "ring", "fetch"}

RecordingsInit ==
  /\ part \in Parts
  /\ Init /\ Ring!Init /\ Fetch!Init
  /\ CASE part = "regressed replay"    -> Regresses!Init
       [] part = "script"              -> Scripts!Init
       [] part = "replay"              -> Replays!Init
       [] OTHER                        -> Resends!Init

RecordingsNext ==
  /\ UNCHANGED part
  /\ \/ part = "capture" /\ Next /\ UNCHANGED <<replaying, keeping, swapping>>
     \/ part = "damaged capture" /\ Damaging!Next /\ UNCHANGED <<replaying, keeping, swapping>>
     \/ part = "timed capture" /\ Timed!Next /\ UNCHANGED <<replaying, keeping, swapping>>
     \/ part = "replay" /\ Replays!Next /\ UNCHANGED <<vars, keeping, swapping>>
     \/ part = "regressed replay" /\ Regresses!Next /\ UNCHANGED <<vars, keeping, swapping>>
     \/ part = "resend" /\ Resends!Next /\ UNCHANGED <<vars, keeping, swapping>>
     \/ part = "script" /\ Scripts!ScriptNext /\ UNCHANGED <<vars, keeping, swapping>>
     \/ part = "ring" /\ Ring!Next /\ UNCHANGED <<vars, replaying, swapping>>
     \/ part = "fetch" /\ Fetch!Next /\ UNCHANGED <<vars, replaying, keeping>>

RecordingsSpec ==
  RecordingsInit /\ [][RecordingsNext]_<<part, vars, replaying, keeping, swapping>>
-----------------------------------------------------------------------------
(* A capture is a journal (see KeepsJournal in Capture), and what waits in its      *)
(* buffer is flushed by the first record an interval later, if it has to be.       *)
CaptureKeepsUp == KeepsJournal /\ Timed!ArrivalFlushes

(* A reader returns exactly the records before the cut or the damage and says which   *)
(* it met (format.go 19-20), and the totals of a complete capture are those of what    *)
(* was read out of it (format.go 121-131).  Writer, sink and reader keep their types.   *)
ReaderTellsTheTruth ==
  /\ EveryRecordBeforeTheCut /\ TrailerTellsTheTruth
  /\ part = "capture" => TypeOK
  /\ part = "damaged capture" => Damaging!TypeOK
  /\ part = "timed capture" => Timed!TypeOK

(* Whatever reads a capture sees the connection as it was.  Offline, no frame is     *)
(* read in another state or envelope than the one it crossed in (player.go         *)
(* 424-428, 443-447, script.go 210-211), the digest is the one the trailer has      *)
(* (writer.go 154-163), and a divergence is reported for every transition this       *)
(* code has lost and for no other packet (player.go 85-86).  A peer is sent the      *)
(* recorded frames without a hole (player.go 31-34), and a script has each of them    *)
(* as a step, once and in order (script.go 114-116).                            *)
ReplayFollowsTheTape ==
  /\ Replays!TypeOK
  /\ part = "replay" => Replays!ReadsWhatCrossed /\ Replays!DigestAgrees
  /\ part = "regressed replay" =>
       Regresses!DivergencesAreRegressions /\ Regresses!DigestAgrees
  /\ part = "resend" => Resends!SendsWithoutHoles
  /\ part = "script" => Scripts!DecodesAsWritten /\ Scripts!StepsFollowTheTape

(* The ring is the end of the log of the sink before it, and as much of it as its    *)
(* bounds allow (ring.go 68-78, 99-100).                                        *)
RingIsTheEndOfTheLog == Ring!TypeOK /\ Ring!WindowOnTheLog /\ Ring!AsMuchAsFits

(* Whatever fails or is killed, and however often a fetch is run again, a complete     *)
(* tree is never lost for an older one or for none (fetch.go 266-268); what             *)
(* generation reads is a whole tree, and a fetch that reports success has installed     *)
(* the one it downloaded (fetch.go 155-172, 287-301).                              *)
FetchKeepsATree ==
  Fetch!ATreeSurvives /\ [](Fetch!TypeOK /\ Fetch!OutputIsWhole /\ Fetch!DoneMeansInstalled)
=============================================================================
