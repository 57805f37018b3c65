------------------------------- MODULE Login -------------------------------
(***************************************************************************)
(* A client and a server logging in over one connection: the Negotiator and  *)
(* the Acceptor (login/negotiator.go, login/acceptor.go), the streams they   *)
(* drive, the conduit under each stream, and the sessions both ends keep.    *)
(*                                                                         *)
(* A stream is its read pump, its coordinator with the write pump it waits   *)
(* for, and the end of both; module Stream has the detail that is left out   *)
(* here (capacity, observation, graceful shutdown).  Each end runs one login  *)
(* function, which is always at one step: a call on its stream, a read, or a  *)
(* call to the session service.                                              *)
(***************************************************************************)
EXTENDS Conduit

CONSTANTS
  WireUnits,     (* units the transport holds in one direction               *)
  Settings       (* how the two logins may be configured                     *)

VARIABLE setting

(* The login goes on after success (protocol 775, not 47); WithVerifier and     *)
(* WithCompressionThreshold were given; the configuration step offers known       *)
(* packs; the state the negotiator was asked to stop at, or "play"; and what may  *)
(* go wrong outside of the login.                                              *)
Acknowledged == setting.acknowledged
Online       == setting.online
Compresses   == setting.compresses
Packs        == setting.packs
Terminal     == setting.terminal
Faults       == setting.faults

Ends == {"client", "server"}
Peer(e) == IF e = "client" THEN "server" ELSE "client"

LoginPackets ==
  {"login_start", "encryption_request", "encryption_response",
   "set_compression", "login_success", "login_acknowledged", "disconnect"}
ConfigurationPackets == {"known_packs", "registry_data", "configuration_finished"}
Packets == LoginPackets \cup ConfigurationPackets \cup {"game"}
States  == {"login", "configuration", "play"}

(* The state whose packet table a packet belongs to, and the packets that     *)
(* play a part in the sequence (loginRoles).                                 *)
StateOf(p) ==
  IF p \in LoginPackets THEN "login"
  ELSE IF p \in ConfigurationPackets THEN "configuration" ELSE "play"

HasRole(p) == p \notin {"disconnect", "registry_data", "game"}

Sessions == [state : States, compressed : BOOLEAN]
Frames   == [packet : Packets, from : Ends, compressed : BOOLEAN]
NoFrame  == [packet |-> "none"]
Garbage  == [packet |-> "garbage"]

ASSUME LoginAssumption ==
  /\ WireUnits \in Nat /\ WireUnits >= 2
  /\ Settings \subseteq
       [acknowledged : BOOLEAN, online : BOOLEAN, compresses : BOOLEAN,
        packs : BOOLEAN, terminal : States,
        faults : SUBSET (({"join", "verify"} \X {"fails"})
                           \cup (Ends \X {"expires", "hangs_up"}))]
-----------------------------------------------------------------------------
(* ProposeTransition and ApplyTransition of the two generated sessions: what  *)
(* a packet from an end does to the session of the end that has written or    *)
(* read it.                                                                  *)
Transition(session, packet, from) ==
  CASE packet = "set_compression" -> [session EXCEPT !.compressed = TRUE]
    [] packet = "login_success" /\ ~Acknowledged ->
         [session EXCEPT !.state = "play"]
    [] packet = "login_acknowledged" -> [session EXCEPT !.state = "configuration"]
    [] packet = "configuration_finished" /\ from = "client" ->
         [session EXCEPT !.state = "play"]
    [] OTHER -> session

(* EncodeFrame: a packet of another state is refused. *)
Encodable(session, packet) == StateOf(packet) = session.state

(* DecodeFrame: the frame must be under the envelope the session expects, and *)
(* its ID is looked up in the table of the session's state.                   *)
Legible(session, frame) ==
  /\ frame # Garbage
  /\ frame.compressed = session.compressed
  /\ StateOf(frame.packet) = session.state
-----------------------------------------------------------------------------
(* The steps of a login function.  What it still has to do is a sequence of   *)
(* them; an empty one has returned.                                          *)
Write(p)   == <<"write", p>>
Control(h) == <<"control", h>>
Read(p)    == <<"read", p>>
Snapshot   == <<"snapshot", "play">>
Join       == <<"service", "join">>
Verify     == <<"service", "verify">>
Return     == <<"return", "ok">>

(* Faulty: the response is written before the inbound cipher is installed. *)
NegotiatorAnswersFirst ==
  <<Join, Write("encryption_response"), Control("inbound"), Control("outbound")>>

(* Faulty: only the inbound half is switched. *)
NegotiatorSwitchesOneHalf ==
  <<Join, Control("inbound"), Write("encryption_response")>>

(* Negotiator.exchangeKeys. *)
NegotiatorKeys ==
  <<Join, Control("inbound"), Write("encryption_response"), Control("outbound")>>

(* Negotiate: the first packet, and what each packet it reads is followed by. *)
(* The game packet is the first one the caller writes once login is over.     *)
NegotiatorScript == <<Write("login_start"), Read("any")>>

Reached == <<Return, Write("game")>>

NegotiatorReads(p) ==
  CASE p = "encryption_request"     -> NegotiatorKeys \o <<Read("any")>>
    [] p = "known_packs"            -> <<Write("known_packs"), Read("any")>>
    [] p = "configuration_finished" -> <<Write("configuration_finished")>> \o Reached
    [] p = "login_success"          ->
         IF ~Acknowledged THEN Reached
         ELSE IF Terminal = "login" THEN <<Return>>
         ELSE <<Write("login_acknowledged"),
                IF Terminal = "configuration" THEN Return ELSE Read("any")>>
    [] OTHER                        -> <<Read("any")>>

(* Acceptor.exchangeKeys. *)
AcceptorKeys ==
  <<Write("encryption_request"), Read("encryption_response"), Control("both"),
    Verify>>

(* reachPlay where the protocol continues, with the configuration step of the *)
(* caller: registry data, after the answer to an offer of packs.              *)
ReachPlay ==
  <<Read("login_acknowledged")>>
    \o (IF Packs THEN <<Write("known_packs"), Read("known_packs")>> ELSE <<>>)
    \o <<Write("registry_data"), Write("configuration_finished"),
         Read("configuration_finished")>>

(* Accept. *)
AcceptorScript ==
  <<Read("login_start")>>
    \o (IF Online THEN AcceptorKeys ELSE <<>>)
    \o (IF Compresses THEN <<Write("set_compression")>> ELSE <<>>)
    \o <<Write("login_success")>>
    \o (IF Acknowledged THEN ReachPlay ELSE <<>>)
    \o <<Snapshot>> \o Reached

Refusal == <<Write("disconnect")>>
-----------------------------------------------------------------------------
VARIABLES
  conduit,      (* the conduit of each end                                   *)
  reader,       (* its read pump: "length", "payload", "handing", "exited"   *)
  framed,       (* the frame the pump hands over                             *)
  coordinator,  (* "select", "writing", "written", "over"                    *)
  job,          (* the frame being written                                   *)
  session,      (* the session of each end                                   *)
  queue,        (* packets waiting for Read                                  *)
  stopping,     (* the stream has been told to stop                          *)
  cause,        (* the first reason it was                                   *)
  todo,         (* the steps left to the login function                      *)
  answer,       (* its current call: "none" before it is made, "asked",      *)
                (* "taken" by the coordinator, then what it returned         *)
  expired,      (* the context given to the login function has ended         *)
  held,         (* the negotiator keeps an outbound switch that failed       *)
  outcome,      (* what the login function returned                          *)
  log           (* the frames each end has put on the wire, with the cipher  *)

pumps   == <<reader, framed>>
streams == <<conduit, pumps, coordinator, job, session, queue, stopping, cause, log>>
logins  == <<todo, answer, expired, held, outcome>>
vars    == <<setting, streams, logins>>

Init ==
  /\ setting \in Settings
  /\ conduit = [e \in Ends |-> NewConduit]
  /\ reader = [e \in Ends |-> "length"] /\ framed = [e \in Ends |-> NoFrame]
  /\ coordinator = [e \in Ends |-> "select"] /\ job = [e \in Ends |-> NoFrame]
  /\ session = [e \in Ends |-> [state |-> "login", compressed |-> FALSE]]
  /\ queue = [e \in Ends |-> <<>>]
  /\ stopping = [e \in Ends |-> FALSE] /\ cause = [e \in Ends |-> "none"]
  /\ todo = [e \in Ends |-> IF e = "client" THEN NegotiatorScript ELSE AcceptorScript]
  /\ answer = [e \in Ends |-> "none"]
  /\ expired = [e \in Ends |-> FALSE] /\ held = FALSE
  /\ outcome = [e \in Ends |-> "none"]
  /\ log = [e \in Ends |-> <<>>]

(* fail and stop. *)
Stop(e, why) ==
  /\ stopping' = [stopping EXCEPT ![e] = TRUE]
  /\ cause' = [cause EXCEPT ![e] = IF @ = "none" THEN why ELSE @]
-----------------------------------------------------------------------------
(* The read pump of an end: ReadFrame on its conduit. *)
ReadsTransport(e) ==
  /\ reader[e] \in {"length", "payload"} /\ CanRead(conduit[e])
  /\ \E n \in ReadAheads(conduit[e]) :
       conduit' = [conduit EXCEPT ![e] = BufferedRead(@, n)]
  /\ UNCHANGED <<pumps, coordinator, job, session, queue, stopping, cause, log, logins>>

(* A length under the wrong cipher ends the stream; a payload under the wrong *)
(* one makes a frame that does not decode.                                   *)
HandsOut(e) ==
  /\ reader[e] \in {"length", "payload"} /\ conduit[e].inHand # <<>>
  /\ conduit' = [conduit EXCEPT ![e] = HandOut(@)]
  /\ \/ /\ reader[e] = "length" /\ HandsOutClear(conduit[e])
        /\ reader' = [reader EXCEPT ![e] = "payload"]
        /\ UNCHANGED <<framed, stopping, cause>>
     \/ /\ reader[e] = "length" /\ ~HandsOutClear(conduit[e])
        /\ reader' = [reader EXCEPT ![e] = "exited"]
        /\ Stop(e, "garbled")
        /\ UNCHANGED framed
     \/ /\ reader[e] = "payload"
        /\ reader' = [reader EXCEPT ![e] = "handing"]
        /\ framed' = [framed EXCEPT ![e] =
             IF HandsOutClear(conduit[e]) THEN Head(conduit[e].inHand).frame
             ELSE Garbage]
        /\ UNCHANGED <<stopping, cause>>
  /\ UNCHANGED <<coordinator, job, session, queue, log, logins>>

(* A closed peer is noticed once everything it wrote has been read. *)
ReadFails(e) ==
  /\ reader[e] \in {"length", "payload"}
  /\ \/ stopping[e]
     \/ /\ stopping[Peer(e)] /\ conduit[e].wire = <<>>
        /\ conduit[e].buffered = <<>> /\ conduit[e].inHand = <<>>
  /\ reader' = [reader EXCEPT ![e] = "exited"]
  /\ Stop(e, "peer_closed")
  /\ UNCHANGED <<conduit, framed, coordinator, job, session, queue, log, logins>>
-----------------------------------------------------------------------------
Step(e)  == Head(todo[e])
Doing(e, call) == todo[e] # <<>> /\ Step(e)[1] = call
Asks(e, call)  == Doing(e, call) /\ answer[e] = "asked"

Answer(e, a) == answer' = [answer EXCEPT ![e] = a]

(* A call that was given up has nobody to take its answer. *)
AnswerTaken(e, a) ==
  answer' = [answer EXCEPT ![e] = IF @ = "taken" THEN a ELSE @]

(* The coordinator: decodeInbound. *)
TakesFrame(e) ==
  /\ coordinator[e] = "select" /\ reader[e] = "handing"
  /\ reader' = [reader EXCEPT ![e] = "length"]
  /\ IF Legible(session[e], framed[e])
     THEN /\ session' = [session EXCEPT ![e] =
                           Transition(@, framed[e].packet, framed[e].from)]
          /\ queue' = [queue EXCEPT ![e] = Append(@, framed[e].packet)]
          /\ UNCHANGED <<coordinator, stopping, cause>>
     ELSE /\ coordinator' = [coordinator EXCEPT ![e] = "over"]
          /\ Stop(e, "garbled")
          /\ UNCHANGED <<session, queue>>
  /\ UNCHANGED <<conduit, framed, job, log, logins>>

(* processWrite, up to the write pump. *)
TakesWrite(e) ==
  /\ coordinator[e] = "select" /\ Asks(e, "write")
  /\ IF Encodable(session[e], Step(e)[2])
     THEN /\ job' = [job EXCEPT ![e] =
               [packet |-> Step(e)[2], from |-> e,
                compressed |-> session[e].compressed]]
          /\ coordinator' = [coordinator EXCEPT ![e] = "writing"]
          /\ Answer(e, "taken")
     ELSE Answer(e, "unencodable") /\ UNCHANGED <<job, coordinator>>
  /\ UNCHANGED <<conduit, pumps, session, queue, stopping, cause, log, todo,
                 expired, held, outcome>>

(* The write pump.  A transport whose other end has gone may take the frame   *)
(* all the same.                                                             *)
Transmits(e) ==
  /\ coordinator[e] = "writing" /\ ~stopping[e]
  /\ Len(conduit[Peer(e)].wire) + 2 <= WireUnits
  /\ conduit' = [conduit EXCEPT ![Peer(e)] = Receive(@, conduit[e], job[e])]
  /\ log' = [log EXCEPT ![e] =
       Append(@, [frame |-> job[e], enciphered |-> conduit[e].encrypt])]
  /\ coordinator' = [coordinator EXCEPT ![e] = "written"]
  /\ UNCHANGED <<pumps, job, session, queue, stopping, cause, logins>>

WriteFails(e) ==
  /\ coordinator[e] = "writing" /\ (stopping[e] \/ stopping[Peer(e)])
  /\ coordinator' = [coordinator EXCEPT ![e] = "over"]
  /\ AnswerTaken(e, "failed")
  /\ Stop(e, "write")
  /\ UNCHANGED <<conduit, pumps, job, session, queue, log, todo, expired, held,
                 outcome>>

(* finishWrite: the transition is committed, then the caller is answered. *)
FinishesWrite(e) ==
  /\ coordinator[e] = "written"
  /\ session' = [session EXCEPT ![e] = Transition(@, job[e].packet, e)]
  /\ coordinator' = [coordinator EXCEPT ![e] = "select"]
  /\ AnswerTaken(e, "ok")
  /\ UNCHANGED <<conduit, pumps, job, queue, stopping, cause, log, todo, expired,
                 held, outcome>>

(* processControl with an EncryptionControl, and the snapshot of confirmPlay. *)
TakesControl(e) ==
  /\ coordinator[e] = "select" /\ Asks(e, "control")
  /\ conduit' = [conduit EXCEPT ![e] = Enable(@, Step(e)[2])]
  /\ Answer(e, EnableAnswer(conduit[e], Step(e)[2]))
  /\ UNCHANGED <<pumps, coordinator, job, session, queue, stopping, cause, log,
                 todo, expired, held, outcome>>

TakesSnapshot(e) ==
  /\ coordinator[e] = "select" /\ Asks(e, "snapshot")
  /\ Answer(e, IF session[e].state = Step(e)[2] THEN "ok" ELSE "not_in_play")
  /\ UNCHANGED <<streams, todo, expired, held, outcome>>

CoordinatorEnds(e) ==
  /\ coordinator[e] = "select" /\ stopping[e]
  /\ coordinator' = [coordinator EXCEPT ![e] = "over"]
  /\ UNCHANGED <<conduit, pumps, job, session, queue, stopping, cause, log, logins>>
-----------------------------------------------------------------------------
(* The calls of a login function.  A call is refused once the stream is told  *)
(* to stop (Snapshot alone does not ask first), and given up when its context *)
(* ends: before the coordinator has taken it, nothing happened; a write that  *)
(* it has taken ends the stream, even one whose answer is ready, when the      *)
(* select takes the context.                                                 *)
MakesCall(e) ==
  /\ todo[e] # <<>> /\ Step(e)[1] \in {"write", "control", "snapshot"} /\ answer[e] = "none"
  /\ Answer(e, IF stopping[e] /\ Step(e) # Snapshot THEN "rejected" ELSE "asked")
  /\ UNCHANGED <<streams, todo, expired, held, outcome>>

(* Faulty: a call that is waiting does not watch the stop. *)
CallUnwatched(e) ==
  /\ answer[e] = "asked" /\ stopping[e] /\ coordinator[e] = "select"
  /\ Answer(e, "rejected")
  /\ UNCHANGED <<streams, todo, expired, held, outcome>>

CallRejected(e) ==
  /\ answer[e] = "asked" /\ stopping[e]
  /\ Answer(e, "rejected")
  /\ UNCHANGED <<streams, todo, expired, held, outcome>>

CallExpires(e) ==
  /\ expired[e]
  /\ \/ answer[e] = "asked" /\ UNCHANGED <<stopping, cause>>
     \/ answer[e] = "taken" /\ Stop(e, "ambiguous")
     \/ answer[e] = "ok" /\ Doing(e, "write") /\ Stop(e, "ambiguous")
  /\ Answer(e, "expired")
  /\ UNCHANGED <<conduit, pumps, coordinator, job, session, queue, log, todo,
                 expired, held, outcome>>

(* Why a login function fails, by the answer of the call that failed. *)
Reason(a) ==
  CASE a \in {"rejected", "failed"} -> "ended"
    [] a \in {"overrun", "enabled"} -> "not_switched"
    [] OTHER -> a

(* The acceptor tells the client of a failure in its key exchange, and of no  *)
(* other; either way the login function returns the failure.                  *)
InKeyExchange(e) ==
  e = "server" /\ \E k \in 1..Len(AcceptorKeys) : AcceptorKeys[k] = Step(e)

Fails(e, why) ==
  /\ todo' = [todo EXCEPT ![e] = IF InKeyExchange(e) THEN Refusal ELSE <<>>]
  /\ outcome' = [outcome EXCEPT ![e] = IF @ = "none" THEN why ELSE @]

Goes(e) == todo' = [todo EXCEPT ![e] = Tail(@)] /\ UNCHANGED outcome

(* Faulty: the outbound switch that failed is returned at once. *)
OutboundSwitchFatal(e) == FALSE

(* outboundSwitchError is kept, and the next read decides. *)
OutboundSwitchLost(e) == e = "client" /\ Step(e) = Control("outbound")

CallReturns(e) ==
  /\ answer[e] \notin {"none", "asked", "taken"}
  /\ Answer(e, "none")
  /\ \/ answer[e] = "ok" /\ Goes(e) /\ UNCHANGED held
     \/ answer[e] # "ok" /\ OutboundSwitchLost(e) /\ Goes(e) /\ held' = TRUE
     \/ /\ answer[e] # "ok" /\ ~OutboundSwitchLost(e)
        /\ Fails(e, Reason(answer[e])) /\ UNCHANGED held
  /\ UNCHANGED <<streams, expired>>

(* Join and Verify, with the session service. *)
ServiceReturns(e) ==
  /\ Doing(e, "service")
  /\ \/ Goes(e)
     \/ <<Step(e)[2], "fails">> \in Faults /\ Fails(e, "authentication")
     \/ expired[e] /\ Fails(e, "expired")
  /\ UNCHANGED <<streams, answer, expired, held>>

(* What a read makes of a packet. *)
NegotiatorTakes(p) ==
  CASE p = "disconnect" -> Fails("client", "disconnected")
    [] p \in {"login_start", "encryption_response", "login_acknowledged"} ->
         Fails("client", "unexpected")
    [] p # "disconnect" /\ ~HasRole(p) /\ StateOf(p) # "configuration" ->
         Fails("client", "unexpected")
    [] OTHER -> todo' = [todo EXCEPT !["client"] = NegotiatorReads(p)] /\ UNCHANGED outcome

AcceptorTakes(p) ==
  IF p = Step("server")[2] THEN Goes("server")
  ELSE IF ~HasRole(p) /\ StateOf(p) = "configuration" THEN UNCHANGED <<todo, outcome>>
  ELSE Fails("server", "unexpected")

ReadReturns(e) ==
  /\ Doing(e, "read") /\ queue[e] # <<>>
  /\ queue' = [queue EXCEPT ![e] = Tail(@)]
  /\ IF e = "client" THEN NegotiatorTakes(Head(queue[e])) ELSE AcceptorTakes(Head(queue[e]))
  /\ UNCHANGED <<conduit, pumps, coordinator, job, session, stopping, cause, log,
                 answer, expired, held>>

(* The stream is done and its queue drained, or the context has ended. *)
ReadReturnsError(e) ==
  /\ Doing(e, "read")
  /\ \/ coordinator[e] = "over" /\ queue[e] = <<>> /\ Fails(e, "ended")
     \/ expired[e] /\ Fails(e, IF e = "client" /\ held THEN "ended" ELSE "expired")
  /\ UNCHANGED <<streams, answer, expired, held>>

LoginReturns(e) ==
  /\ Doing(e, "return")
  /\ todo' = [todo EXCEPT ![e] = Tail(@)]
  /\ outcome' = [outcome EXCEPT ![e] = "ok"]
  /\ UNCHANGED <<streams, answer, expired, held>>

(* The caller closes the stream of a login that failed. *)
CallerCloses(e) ==
  /\ todo[e] = <<>> /\ outcome[e] # "ok" /\ ~stopping[e]
  /\ Stop(e, "closed")
  /\ UNCHANGED <<conduit, pumps, coordinator, job, session, queue, log, logins>>
-----------------------------------------------------------------------------
(* What goes wrong outside of the login: the context of a login function      *)
(* ends, or an end is closed while it runs.                                  *)
Expires(e) ==
  /\ <<e, "expires">> \in Faults /\ todo[e] # <<>> /\ ~expired[e]
  /\ expired' = [expired EXCEPT ![e] = TRUE]
  /\ UNCHANGED <<streams, todo, answer, held, outcome>>

HangsUp(e) ==
  /\ <<e, "hangs_up">> \in Faults /\ ~stopping[e]
  /\ Stop(e, "closed")
  /\ UNCHANGED <<conduit, pumps, coordinator, job, session, queue, log, logins>>

StreamRuns(e) ==
  \/ ReadsTransport(e) \/ HandsOut(e) \/ ReadFails(e) \/ TakesFrame(e)
  \/ TakesWrite(e) \/ Transmits(e) \/ WriteFails(e) \/ FinishesWrite(e)
  \/ TakesControl(e) \/ TakesSnapshot(e) \/ CoordinatorEnds(e)

LoginRuns(e) ==
  \/ MakesCall(e) \/ CallRejected(e) \/ CallExpires(e) \/ CallReturns(e)
  \/ ServiceReturns(e) \/ ReadReturns(e) \/ ReadReturnsError(e)
  \/ LoginReturns(e) \/ CallerCloses(e)

Next ==
  /\ \E e \in Ends : StreamRuns(e) \/ LoginRuns(e) \/ Expires(e) \/ HangsUp(e)
  /\ UNCHANGED setting

Spec == Init /\ [][Next]_vars

(* Goroutines run, the session service answers, and the caller of a login     *)
(* that failed closes its stream.                                            *)
Fairness ==
  \A e \in Ends : WF_vars(StreamRuns(e) /\ UNCHANGED setting)
                /\ WF_vars(LoginRuns(e) /\ UNCHANGED setting)

FairSpec == Spec /\ Fairness
-----------------------------------------------------------------------------
Steps ==
  {Write(p) : p \in Packets} \cup {Read(p) : p \in Packets \cup {"any"}}
    \cup {Control(h) : h \in {"inbound", "outbound", "both"}}
    \cup {Snapshot, Join, Verify, Return}

TypeOK ==
  /\ \A e \in Ends :
       /\ conduit[e].pending \in 0..WireUnits
       /\ {conduit[e].decrypt, conduit[e].encrypt} \subseteq BOOLEAN
       /\ Len(conduit[e].wire) \in 0..WireUnits /\ Len(conduit[e].inHand) \in 0..1
  /\ reader \in [Ends -> {"length", "payload", "handing", "exited"}]
  /\ framed \in [Ends -> Frames \cup {NoFrame, Garbage}]
  /\ coordinator \in [Ends -> {"select", "writing", "written", "over"}]
  /\ job \in [Ends -> Frames \cup {NoFrame}]
  /\ session \in [Ends -> Sessions]
  /\ queue \in [Ends -> Seq(Packets)]
  /\ stopping \in [Ends -> BOOLEAN]
  /\ cause \in [Ends -> {"none", "garbled", "peer_closed", "write", "ambiguous",
                         "closed"}]
  /\ todo \in [Ends -> Seq(Steps)]
  /\ answer \in [Ends -> {"none", "asked", "taken", "ok", "unencodable", "failed",
                          "overrun", "enabled", "not_in_play", "rejected",
                          "expired"}]
  /\ expired \in [Ends -> BOOLEAN] /\ held \in BOOLEAN
  /\ outcome \in [Ends -> {"none", "ok", "ended", "not_switched", "unencodable",
                           "not_in_play", "expired", "authentication",
                           "disconnected", "unexpected"}]

(* Every byte is under the cipher it should be, whatever the transport delivers at   *)
(* once and however the switches of the two ends interleave with the read pumps: no   *)
(* end reads under another cipher, envelope or state than was written under, and an    *)
(* online login sends the exchange of the keys in the clear and nothing after it, not  *)
(* even while the verifier is asked (negotiator.go:331-334, 384-393, acceptor.go:      *)
(* 152-157, 370-373, conduit.go:14-19).  That is so while the contexts of both logins    *)
(* last: one that ends in the middle of the exchange leaves it half done.           *)
Clear == {"login_start", "encryption_request", "encryption_response"}

NeverGarbled ==
  (\A e \in Ends : ~expired[e]) =>
    \A e \in Ends :
      /\ cause[e] # "garbled"
      /\ \A k \in 1..Len(log[e]) :
           log[e][k].enciphered <=> Online /\ log[e][k].frame.packet \notin Clear

(* The two halves never surprise each other while their contexts last: no packet out    *)
(* of sequence, no write in a state the session has left, no switch refused for bytes   *)
(* the read pump is said to hold (negotiator.go:279-287, acceptor.go:281-298,        *)
(* conduit.go:28-37).                                                           *)
NeverSurprised ==
  (\A e \in Ends : ~expired[e]) =>
    \A e \in Ends :
      outcome[e] \notin {"unexpected", "not_switched", "unencodable", "not_in_play"}

(* "The reason outranks it" (negotiator.go:212-214) and "it learns why rather  *)
(* than watching the socket close" (acceptor.go:176-177): a client that was    *)
(* written a disconnect never returns anything else, unless its own context, or  *)
(* that of the server which then wrote it, has ended.                          *)
Refused ==
  \E k \in 1..Len(log["server"]) : log["server"][k].frame.packet = "disconnect"

RefusalIsLearned ==
  Refused /\ (\A e \in Ends : ~expired[e]) => outcome["client"] \in {"none", "disconnected"}

(* A login that both ends report as done leaves them in one state, under one    *)
(* envelope, with all four ciphers or none; and a server that reports it is in  *)
(* play (acceptor.go:303-308).                                                 *)
DoneMeansAgreed ==
  /\ outcome["server"] = "ok" => session["server"].state = "play"
  /\ (\A e \in Ends : outcome[e] = "ok") /\ Terminal = "play" =>
       /\ session["client"] = session["server"]
       /\ \A e \in Ends : conduit[e].decrypt = Online /\ conduit[e].encrypt = Online
=============================================================================
