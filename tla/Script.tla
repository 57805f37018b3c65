-------------------------------- MODULE Script --------------------------------
(***************************************************************************)
(* The script that `mcproto serve` plays (cmd/mcproto/script.go): a capture    *)
(* read as the steps of a connection, what the server wrote and where the       *)
(* client spoke.  The recording is the one of module Replay, which also has     *)
(* sessions, records and what a frame is legible to; `player` is the script      *)
(* here, its session a client's, and `sent` its steps.                         *)
(***************************************************************************)
EXTENDS Replay

Frame == Reading /\ Record.kind = "raw frame"

(* The packet record beside a raw one: the recorder writes the two together,     *)
(* and a capture may end between them.                                         *)
Paired == player.at + 1 < Len(tape)

Beside == tape[player.at + 2]

(* The first record aligns the session.                                        *)
Aligned ==
  [player EXCEPT !.primed = TRUE,
                 !.session.state = IF player.primed THEN @ ELSE Record.before]

(* A record that is not a raw frame has the state after it; a packet record of   *)
(* its own is not met, as the frame before it takes it.                         *)
Aligns ==
  /\ Reading /\ ~Frame
  /\ player' = [Aligned EXCEPT !.at = @ + 1, !.session.state = Record.after]
  /\ UNCHANGED <<live, tape>>

(* identify: the packet record is consumed and its state, the one after the      *)
(* transition, taken over.                                                    *)
Identified(script) ==
  IF Paired THEN [script EXCEPT !.at = @ + 2, !.session.state = Beside.after]
  ELSE [script EXCEPT !.at = @ + 1]

Step(script) == [script EXCEPT !.sent = Append(@, Record.packet)]

(* The client's half, but for the handshake.                                   *)
Awaits ==
  /\ Frame /\ Record.direction = "serverbound"
  /\ player' = IF Record.before = "handshaking" THEN Identified(Aligned)
               ELSE Step(Identified(Aligned))
  /\ UNCHANGED <<live, tape>>

(* decode of the server's half, after identify: a frame that is not legible       *)
(* fails or is taken for another packet.                                       *)
Decoded(script) ==
  LET failed == [script EXCEPT !.outcome = "failed"] IN
  IF Record.redacted THEN {failed}
  ELSE IF Legible(script.session) THEN {Step([script EXCEPT !.session = Follow(@)])}
  ELSE {failed, Step([script EXCEPT !.misread = TRUE])}

Writes ==
  /\ Frame /\ Record.direction = "clientbound"
  /\ player' \in Decoded(Identified(Aligned))
  /\ UNCHANGED <<live, tape>>

ScriptNext ==
  \/ Exchange \/ Remark \/ Open
  \/ Aligns \/ Awaits \/ Writes \/ Ends

-----------------------------------------------------------------------------
(* "The script session follows the recorded connection so that later frames      *)
(* decode under the state and compression they were written under"              *)
(* (script.go:210-211): no frame is read in another state or envelope than the    *)
(* one it crossed in, so the server's half is written again as it was, and the   *)
(* script ends early only at a frame whose bytes were withheld.                  *)
DecodesAsWritten ==
  /\ ~player.misread
  /\ player.outcome = "failed" =>
       \E i \in 1..player.at : tape[i].redacted /\ tape[i].direction = "clientbound"

(* The script plays back what was said in order (serve.go:27-28): its steps are   *)
(* the recorded frames up to where it has read, each once, whether or not the     *)
(* packet record beside a frame survived, and without the handshake, for which   *)
(* a second wait would never end (script.go:114-116).                           *)
StepsFollowTheTape ==
  player.sent =
    LET spoken == SelectSeq(SubSeq(tape, 1, player.at),
                            LAMBDA r : /\ r.kind = "raw frame"
                                       /\ IF r.direction = "clientbound"
                                            THEN ~r.redacted
                                            ELSE r.before # "handshaking")
    IN  [i \in DOMAIN spoken |-> spoken[i].packet]
=============================================================================
