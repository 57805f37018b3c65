------------------------------ MODULE Sessions ------------------------------
(***************************************************************************)
(* The generated sessions of the two ends of one connection (generated/java/     *)
(* v1_8/protocol.go and v26_1/protocol.go): the state and the compression that    *)
(* each end codes its frames with, and the transition that a packet implies,     *)
(* committed by its writer after the write and by its reader before the next      *)
(* frame.  Frames cross in both directions at once, and nothing in a frame says   *)
(* which state or compression it was written with.                             *)
(*                                                                         *)
(* What the two applications send is external: a server asks one thing at a time  *)
(* in login, and after a success, a finish or a start that its client has to       *)
(* acknowledge it sends nothing until it has read the acknowledgement.          *)
(***************************************************************************)
EXTENDS Integers, Sequences, SequencesExt

CONSTANTS
  Thresholds,        (* thresholds a server may set; a negative one disables      *)
  CompressesInPlay,  (* in 47 the server sets one in play too: "no", "first" before  *)
                     (* the first packet that the client acts on, or "any time"   *)
  MaxInFlight        (* bound: the frames a link holds                          *)

SessionsAssumption ==
  /\ Thresholds \subseteq Int /\ MaxInFlight \in Nat \ {0}
  /\ CompressesInPlay \in {"no", "first", "any time"}

Ends == {"client", "server"}
Peer(e) == IF e = "client" THEN "server" ELSE "client"

VARIABLES
  version,             (* 47 for java/1.8.9, 775 for java/26.1; of both ends     *)
  state, compression,  (* of each end's session                                 *)
  link,                (* the frames on their way to each end                   *)
  asked,               (* what the server waits for an answer to, or "none"        *)
  owed,                (* what the client has read and not answered, or "none"     *)
  joined               (* whether each end has sent, or read, the first data of     *)
                       (* the server's in play                                  *)

vars == <<version, state, compression, link, asked, owed, joined>>

Off == -1

Init ==
  /\ version \in {47, 775}
  /\ state = [e \in Ends |-> "handshaking"]
  /\ compression = [e \in Ends |-> Off]
  /\ link = [e \in Ends |-> <<>>]
  /\ asked = "who" /\ owed = "who"
  /\ joined = [e \in Ends |-> FALSE]
-----------------------------------------------------------------------------
(* compressionForThreshold: a threshold that is not negative enables.             *)
CompressionFor(threshold) == IF threshold >= 0 THEN threshold ELSE Off

(* ProposeTransition, the state half: in 775 only serverbound packets move.        *)
StateAfter(s, p) ==
  CASE p.kind = "handshake" -> p.arg
    [] p.kind = "success" -> IF version = 47 THEN "play" ELSE s
    [] p.kind \in {"acknowledged", "started"} -> "configuration"
    [] p.kind = "finished" -> "play"
    [] OTHER -> s

CompressionAfter(c, p) == IF p.kind = "compress" THEN CompressionFor(p.arg) ELSE c

(* ApplyTransition commits both halves together.                                *)
Commits(e, p) ==
  /\ state' = [state EXCEPT ![e] = StateAfter(@, p)]
  /\ compression' = [compression EXCEPT ![e] = CompressionAfter(@, p)]
-----------------------------------------------------------------------------
Packet(kind, arg) == [kind |-> kind, arg |-> arg]

(* Faulty: the writer of a set compression commits it only for what it reads next.   *)
WritesUncommitted(e, p) ==
  /\ Len(link[Peer(e)]) < MaxInFlight
  /\ link' = [link EXCEPT ![Peer(e)] =
       Append(@, [packet |-> p, state |-> state[e], compression |-> compression[e]])]
  /\ state' = [state EXCEPT ![e] = StateAfter(@, p)] /\ UNCHANGED compression

(* EncodeFrame under the session as it is, the write, and then the transition.     *)
Writes(e, p) ==
  /\ Len(link[Peer(e)]) < MaxInFlight
  /\ link' = [link EXCEPT ![Peer(e)] =
       Append(@, [packet |-> p, state |-> state[e], compression |-> compression[e]])]
  /\ Commits(e, p)

Answers == [who |-> "login start", ask |-> "answer", success |-> "acknowledged",
            finish |-> "finished", start |-> "started"]

ClientHandshakes ==
  /\ state["client"] = "handshaking"
  /\ \E next \in {"status", "login"} : Writes("client", Packet("handshake", next))
  /\ UNCHANGED <<asked, owed, joined>>

ClientAnswers ==
  /\ owed # "none" /\ (owed = "who" => state["client"] = "login")
  /\ Writes("client", Packet(Answers[owed], 0))
  /\ owed' = "none" /\ UNCHANGED <<asked, joined>>

ClientSends ==
  /\ state["client"] \in {"status", "configuration", "play"}
  /\ state["client"] = "play" => joined["client"]
  /\ Writes("client", Packet("data", 0))
  /\ UNCHANGED <<asked, owed, joined>>

(* The server asks, and waits for the answer.                                   *)
ServerAsks ==
  /\ asked = "none"
  /\ \E question \in {"ask", "success", "finish", "start"} :
       /\ CASE question = "ask" -> state["server"] = "login"
            [] question = "success" -> state["server"] = "login"
            [] question = "finish" -> state["server"] = "configuration"
            [] question = "start" -> state["server"] = "play" /\ version = 775
       /\ Writes("server", Packet(question, 0))
       /\ asked' = IF question = "success" /\ version = 47 THEN "none" ELSE question
  /\ UNCHANGED <<owed, joined>>

ServerCompresses ==
  /\ asked = "none"
  /\ \/ state["server"] = "login"
     \/ /\ state["server"] = "play" /\ version = 47
        /\ CompressesInPlay = "any time" \/ (CompressesInPlay = "first" /\ ~joined["server"])
  /\ \E threshold \in Thresholds : Writes("server", Packet("compress", threshold))
  /\ UNCHANGED <<asked, owed, joined>>

ServerSends ==
  /\ state["server"] = "status" \/ (asked = "none" /\ state["server"] \in {"configuration", "play"})
  /\ Writes("server", Packet("data", 0))
  /\ joined' = [joined EXCEPT !["server"] = @ \/ state["server"] = "play"]
  /\ UNCHANGED <<asked, owed>>

(* DecodeFrame, and the transition before the next frame is decoded.              *)
Reads(e) ==
  /\ link[e] # <<>>
  /\ link' = [link EXCEPT ![e] = Tail(@)]
  /\ Commits(e, Head(link[e]).packet)

ClientReads ==
  LET kind == Head(link["client"]).packet.kind IN
  /\ Reads("client")
  /\ owed' = IF kind \in {"ask", "finish", "start"} \/ (kind = "success" /\ version = 775)
             THEN kind ELSE owed
  /\ joined' = [joined EXCEPT !["client"] = @ \/ (kind = "data" /\ state["client"] = "play")]
  /\ UNCHANGED asked

ServerReads ==
  LET kind == Head(link["server"]).packet.kind IN
  /\ Reads("server")
  /\ asked' = IF kind \in {"handshake", "data"} THEN asked ELSE "none"
  /\ UNCHANGED <<owed, joined>>

Next ==
  /\ UNCHANGED version
  /\ \/ ClientHandshakes \/ ClientAnswers \/ ClientSends \/ ClientReads
     \/ ServerAsks \/ ServerCompresses \/ ServerSends \/ ServerReads

Spec == Init /\ [][Next]_vars
-----------------------------------------------------------------------------
States == {"handshaking", "status", "login", "configuration", "play"}

TypeOK ==
  /\ version \in {47, 775}
  /\ state \in [Ends -> States]
  /\ \A e \in Ends : compression[e] = Off \/ compression[e] \in Nat
  /\ version = 47 => \A e \in Ends : state[e] # "configuration"
  /\ \A e \in Ends : Len(link[e]) <= MaxInFlight
  /\ asked \in DOMAIN Answers \union {"none"} /\ owed \in DOMAIN Answers \union {"none"}
  /\ joined \in [Ends -> BOOLEAN]

(* Each end reads every frame in the state, and with the compression, that its peer  *)
(* wrote it with, though the frame names neither and both ends write and move on at   *)
(* the same time (v26_1/protocol.go 313-318: "A client that moved on the clientbound *)
(* half would have to answer from a state it had already left").                  *)
ReadAsWritten ==
  \A e \in Ends : link[e] # <<>> =>
    /\ Head(link[e]).state = state[e] /\ Head(link[e]).compression = compression[e]

(* With nothing on its way and nothing left to acknowledge, the two sessions are in   *)
(* one state under one compression (v1_8/protocol.go 381-388).                     *)
AgreeWhenQuiet ==
  (\A e \in Ends : link[e] = <<>>) /\ owed \in {"none", "who"} /\ asked \in {"none", "who"} =>
    state["client"] = state["server"] /\ compression["client"] = compression["server"]
=============================================================================
