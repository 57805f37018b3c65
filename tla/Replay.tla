------------------------------- MODULE Replay -------------------------------
(***************************************************************************)
(* A connection is recorded by a stream and the capture is replayed by a       *)
(* Player (replay/player.go), offline into a session of its own or connected   *)
(* to a peer.  The recorder is the stream of module Stream as a capture sees    *)
(* it: two records a frame, written back to back by the coordinator, the raw    *)
(* one stamped before the packet's transition and the packet one after it.     *)
(*                                                                         *)
(* A session is its state and whether compression is on.  A frame is legible   *)
(* to a session in the same state and with the same compression; in any other  *)
(* the decoder fails or, as an unknown ID does, takes it for something else.   *)
(***************************************************************************)
EXTENDS Integers, Sequences, SequencesExt

CONSTANTS
  Protocol,    (* 47 | 775                                                  *)
  Role,        (* the recording endpoint: "client" | "server"                *)
  Begins,      (* sessions the recorder may begin in                         *)
  Compresses,  (* whether the server turns compression on                    *)
  Regressed,   (* packets whose transition the replaying code has lost        *)
  Sends,       (* "nothing" offline, or the direction replayed to a peer      *)
  MaxFrames    (* bound: frames recorded                                    *)

ReplayAssumption ==
  /\ Protocol \in {47, 775} /\ Role \in {"client", "server"} /\ MaxFrames \in Nat
  /\ \A s \in Begins : s.compression \in BOOLEAN

VARIABLES
  live,     (* the recorder's session                                       *)
  tape,     (* the capture                                                  *)
  player    (* the Player                                                   *)

vars == <<live, tape, player>>
-----------------------------------------------------------------------------
Packet(name, direction, state, next) ==
  [name |-> name, direction |-> direction, state |-> state, next |-> next]

(* The packets that move a session, the two that are withheld from a capture,   *)
(* and one of each direction that does neither.                               *)
Common == {
  Packet("intention",  "serverbound", "handshaking", "login"),
  Packet("encryption", "clientbound", "login", "login"),
  Packet("encryption", "serverbound", "login", "login"),
  Packet("chat",       "clientbound", "play", "play"),
  Packet("chat",       "serverbound", "play", "play")}

Compressing ==
  {Packet("compress", "clientbound", "login", "login")} \union
  (IF Protocol = 47 THEN {Packet("compress", "clientbound", "play", "play")} ELSE {})

Modern == {
  Packet("success",      "clientbound", "login", "login"),
  Packet("acknowledged", "serverbound", "login", "configuration"),
  Packet("finish",       "serverbound", "configuration", "play"),
  Packet("reconfigure",  "serverbound", "play", "configuration")}

Packets ==
  Common \union (IF Compresses THEN Compressing ELSE {})
    \union (IF Protocol = 47 THEN {Packet("success", "clientbound", "login", "play")}
            ELSE Modern)

Sensitive(p) == p.name = "encryption"

(* ProposeTransition and ApplyTransition.                                     *)
Apply(session, p) ==
  [state       |-> p.next,
   compression |-> session.compression \/ p.name = "compress"]

Inbound == IF Role = "client" THEN "clientbound" ELSE "serverbound"

Stamp(kind, p, before, after) ==
  [kind |-> kind, packet |-> p, direction |-> p.direction, before |-> before.state,
   after |-> after.state, compressed |-> before.compression,
   redacted |-> Sensitive(p)]

(* A record that does not describe the wire: a secret installed, a write that    *)
(* was refused.                                                               *)
Note(session) ==
  [kind |-> "other", packet |-> "none", direction |-> "none",
   before |-> session.state, after |-> session.state,
   compressed |-> session.compression, redacted |-> FALSE]

Replayable(record) == record.kind \in {"raw frame", "packet"}
-----------------------------------------------------------------------------
Init ==
  /\ live \in Begins
  /\ tape = <<>>
  /\ player = [session |-> [state |-> "handshaking", compression |-> FALSE],
               primed |-> FALSE, at |-> 0, outcome |-> "unopened", misread |-> FALSE,
               diverged |-> <<>>, digest |-> <<>>, sent |-> <<>>]

Recording == player.outcome = "unopened"

(* The endpoint reads or writes one packet and records it.                    *)
Exchange ==
  /\ Recording /\ Len(tape) < 2 * MaxFrames
  /\ \E p \in Packets :
       /\ p.state = live.state
       /\ live' = Apply(live, p)
       /\ tape' = tape \o <<Stamp("raw frame", p, live, live),
                            Stamp("packet", p, live, Apply(live, p))>>
  /\ UNCHANGED player

Remark ==
  /\ Recording /\ Len(tape) < 2 * MaxFrames
  /\ tape' = Append(tape, Note(live))
  /\ UNCHANGED <<live, player>>

(* New, on a capture that was cut anywhere between two records.               *)
Open ==
  /\ Recording
  /\ \E n \in 0..Len(tape) : tape' = SubSeq(tape, 1, n)
  /\ player' = [player EXCEPT !.outcome = "running"]
  /\ UNCHANGED live
-----------------------------------------------------------------------------
Record == tape[player.at + 1]

Reading == player.outcome = "running" /\ player.at < Len(tape)

Skips ==
  /\ Reading /\ ~Replayable(Record)
  /\ player' = [player EXCEPT !.at = @ + 1]
  /\ UNCHANGED <<live, tape>>

(* The record was applied: it enters the digest.                              *)
Counted(p) ==
  [p EXCEPT !.at = @ + 1, !.digest = Append(@, player.at + 1)]

(* prime: the first record says where the connection was.                     *)
Primed ==
  [player EXCEPT !.primed = TRUE,
                 !.session.state = IF player.primed THEN @ ELSE Record.before]

(* reconcile: the capture's state wins, and an inbound packet for which this     *)
(* session arrived elsewhere is a divergence.                                 *)
Reconcile(p) ==
  [p EXCEPT !.session.state = Record.after,
            !.diverged = IF p.session.state # Record.after /\ Record.direction = Inbound
                           THEN Append(@, player.at + 1) ELSE @]

ReplayPacket ==
  /\ Reading /\ Sends = "nothing" /\ Record.kind = "packet"
  /\ player' = Counted(Reconcile(Primed))
  /\ UNCHANGED <<live, tape>>

Decodes == Record.direction = Inbound /\ ~Record.redacted

(* A raw record of the other direction, or a withheld one.                    *)
PassOver ==
  /\ Reading /\ Sends = "nothing" /\ Record.kind = "raw frame" /\ ~Decodes
  /\ player' = Counted(Primed)
  /\ UNCHANGED <<live, tape>>

Legible(session) ==
  session.state = Record.packet.state /\ session.compression = Record.compressed

(* Faulty: only the state of the transition is applied.                       *)
FollowState(session) ==
  IF Record.packet \in Regressed THEN session
  ELSE [session EXCEPT !.state = Record.packet.next]

(* follow: the transition this code proposes for what it decoded.             *)
Follow(session) ==
  IF Record.packet \in Regressed THEN session ELSE Apply(session, Record.packet)

ReplayFrame ==
  /\ Reading /\ Sends = "nothing" /\ Record.kind = "raw frame" /\ Decodes
  /\ LET p == Primed IN
     \/ Legible(p.session) /\ player' = Counted([p EXCEPT !.session = Follow(@)])
     \/ ~Legible(p.session) /\ player' = [p EXCEPT !.outcome = "failed"]
     \/ ~Legible(p.session) /\ player' = Counted([p EXCEPT !.misread = TRUE])
  /\ UNCHANGED <<live, tape>>

(* send: the frames of one direction go to the peer; one whose bytes were        *)
(* withheld ends the replay.                                                  *)
Send ==
  /\ Reading /\ Sends # "nothing" /\ Replayable(Record)
  /\ player' =
       IF Record.kind # "raw frame" \/ Record.direction # Sends THEN Counted(player)
       ELSE IF Record.redacted THEN [player EXCEPT !.outcome = "failed"]
       ELSE Counted([player EXCEPT !.sent = Append(@, Record.packet)])
  /\ UNCHANGED <<live, tape>>

(* Next at the end of the capture.                                            *)
Ends ==
  /\ player.outcome = "running" /\ player.at = Len(tape)
  /\ player' = [player EXCEPT !.outcome = "done"]
  /\ UNCHANGED <<live, tape>>

Next ==
  \/ Exchange \/ Remark \/ Open
  \/ Skips \/ ReplayPacket \/ PassOver \/ ReplayFrame \/ Send \/ Ends

Spec == Init /\ [][Next]_vars
-----------------------------------------------------------------------------
(* The player has replayed what it counted, and its place in the capture is one  *)
(* of a record.                                                               *)
TypeOK ==
  /\ player.at \in 0..Len(tape)
  /\ player.outcome \in {"unopened", "running", "failed", "done"}
  /\ Len(player.digest) <= player.at
  /\ player.session.compression \in BOOLEAN

(* Offline, a capture of a connection whose packets this code still reads        *)
(* replays to its end, and no frame is read in another state or envelope than    *)
(* the one it crossed the wire in (player.go:424-428, 443-447).                *)
ReadsWhatCrossed == player.outcome # "failed" /\ ~player.misread

(* A divergence is "the regression signal the offline destination exists to       *)
(* produce" (player.go:85-86): there is one for each inbound packet replayed     *)
(* whose transition this code has lost, and for no other packet - not for one    *)
(* the endpoint wrote itself, nor for the packets after the regression.         *)
DivergencesAreRegressions ==
  player.diverged =
    SelectSeq([i \in 1..player.at |-> i],
              LAMBDA i : /\ tape[i].kind = "packet"
                         /\ tape[i].direction = Inbound
                         /\ tape[i].packet \in Regressed
                         /\ tape[i].before # tape[i].after)

(* A finished replay has the digest the writer put in the trailer                *)
(* (writer.go:154-163): every replayable record once and in order, the withheld   *)
(* ones included, whatever state the session went through.                      *)
DigestAgrees ==
  player.outcome = "done" =>
    player.digest = SelectSeq([i \in DOMAIN tape |-> i],
                              LAMBDA i : Replayable(tape[i]))

(* A peer is sent the recorded frames of the chosen direction in order and       *)
(* without a hole: "a capture that withheld a body cannot be sent to a peer"     *)
(* (player.go:31-34).                                                         *)
SendsWithoutHoles ==
  Sends # "nothing" =>
    player.sent =
      [i \in DOMAIN player.sent |->
         LET frames == SelectSeq(tape, LAMBDA r : /\ r.kind = "raw frame"
                                                  /\ r.direction = Sends)
         IN  frames[i].packet]
=============================================================================
