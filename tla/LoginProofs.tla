----------------------------- MODULE LoginProofs -----------------------------
(* Proofs about a login of two ends, for any number of units on the wire, any        *)
(* settings and any of the faults a setting may have.                             *)
EXTENDS MCLogin, TLAPS, SequenceTheorems

(***************************************************************************)
(* What the ends understand of each other is not inductive: whether a frame can be   *)
(* read depends on how far both login functions have come.  Each of them is at a      *)
(* place of one fixed course, which the setting cuts short; the number of frames       *)
(* written and read before a place is a sum of what the setting asks for, and so is     *)
(* the packet, the envelope and the cipher of the i-th frame of an end.  The          *)
(* invariant says that an end is at some place, that what it has left to do, written,   *)
(* read and taken is what belongs there, and that everything on the way is what the     *)
(* peer has written and the end has not read.                                     *)
(***************************************************************************)
Keyed   == IF Online THEN 1 ELSE 0
Shrinks == IF Compresses THEN 1 ELSE 0
GoesOn  == IF Acknowledged THEN 1 ELSE 0
Offers  == IF Acknowledged /\ Packs THEN 1 ELSE 0

Past(n, l, one) == IF n > l THEN one ELSE 0

(* The places of the two courses, in order, and those the setting has.             *)
Places(e) == IF e = "client" THEN 0..20 ELSE 0..16

ClientMayBe(n) ==
  /\ n \in 1..5 => Online
  /\ n = 6 => Compresses
  /\ n \in 8..9 => Acknowledged /\ Terminal = "login"
  /\ n \in 10..17 => Acknowledged /\ Terminal # "login"
  /\ n \in 11..12 => Terminal = "configuration"
  /\ n \in 13..17 => Terminal # "configuration"
  /\ n \in 13..14 => Packs
  /\ n >= 18 /\ Acknowledged => Terminal \notin {"login", "configuration"}

ServerMayBe(n) ==
  /\ n \in 1..4 => Online
  /\ n = 5 => Compresses
  /\ n \in 7..12 => Acknowledged
  /\ n \in 8..9 => Packs

MayBe(e, n) == n \in Places(e) /\ (IF e = "client" THEN ClientMayBe(n) ELSE ServerMayBe(n))

(* The place behind a place, and what is left of the login function there.          *)
AfterKeys(compressed, plain) == IF Compresses THEN compressed ELSE plain

ClientNext(n) ==
  CASE n = 0 -> IF Online THEN 1 ELSE AfterKeys(6, 7)
    [] n = 5 -> AfterKeys(6, 7)
    [] n = 7 -> IF ~Acknowledged THEN 18 ELSE IF Terminal = "login" THEN 8 ELSE 10
    [] n = 10 -> IF Terminal = "configuration" THEN 11 ELSE IF Packs THEN 13 ELSE 15
    [] OTHER -> n + 1

ServerNext(n) ==
  CASE n = 0 -> IF Online THEN 1 ELSE AfterKeys(5, 6)
    [] n = 4 -> AfterKeys(5, 6)
    [] n = 6 -> IF Acknowledged THEN 7 ELSE 13
    [] n = 7 -> IF Packs THEN 8 ELSE 10
    [] OTHER -> n + 1

NextPlace(e, n) == IF e = "client" THEN ClientNext(n) ELSE ServerNext(n)

Nothing  == <<>>
Awaiting == <<Read("any")>>
Playing  == <<Write("game")>>
Returning == <<Return>>
Client18 == <<Return>> \o Playing
Client17 == <<Write("configuration_finished")>> \o Client18
Client14 == <<Write("known_packs")>> \o Awaiting
Behind10 == IF Terminal = "configuration" THEN Returning ELSE Awaiting
Client10 == <<Write("login_acknowledged")>> \o Behind10
Client5  == <<Control("outbound")>> \o Awaiting
Client4  == <<Write("encryption_response")>> \o Client5
Client3  == <<Control("inbound")>> \o Client4
Client2  == <<Join>> \o Client3
Client0  == <<Write("login_start")>> \o Awaiting

ClientRest(n) ==
  CASE n = 0 -> Client0 [] n = 2 -> Client2 [] n = 3 -> Client3 [] n = 4 -> Client4
    [] n = 5 -> Client5 [] n = 10 -> Client10 [] n = 14 -> Client14 [] n = 17 -> Client17
    [] n = 18 -> Client18 [] n = 19 -> Playing
    [] n \in {8, 11} -> Returning [] n \in {9, 12, 20} -> Nothing
    [] n \in {1, 6, 7, 13, 15, 16} -> Awaiting

Server14 == <<Return>> \o Playing
Server13 == <<Snapshot>> \o Server14
Server12 == <<Read("configuration_finished")>> \o Server13
Server11 == <<Write("configuration_finished")>> \o Server12
Server10 == <<Write("registry_data")>> \o Server11
Server9  == <<Read("known_packs")>> \o Server10
Server8  == <<Write("known_packs")>> \o Server9
Behind7  == IF Packs THEN Server8 ELSE Server10
Server7  == <<Read("login_acknowledged")>> \o Behind7
Behind6  == IF Acknowledged THEN Server7 ELSE Server13
Server6  == <<Write("login_success")>> \o Behind6
Server5  == <<Write("set_compression")>> \o Server6
Behind4  == IF Compresses THEN Server5 ELSE Server6
Server4  == <<Verify>> \o Behind4
Server3  == <<Control("both")>> \o Server4
Server2  == <<Read("encryption_response")>> \o Server3
Server1  == <<Write("encryption_request")>> \o Server2
Behind0  == IF Online THEN Server1 ELSE Behind4
Server0  == <<Read("login_start")>> \o Behind0

ServerRest(n) ==
  CASE n = 0 -> Server0 [] n = 1 -> Server1 [] n = 2 -> Server2 [] n = 3 -> Server3
    [] n = 4 -> Server4 [] n = 5 -> Server5 [] n = 6 -> Server6 [] n = 7 -> Server7
    [] n = 8 -> Server8 [] n = 9 -> Server9 [] n = 10 -> Server10 [] n = 11 -> Server11
    [] n = 12 -> Server12 [] n = 13 -> Server13
    [] n = 14 -> Server14 [] n = 15 -> Playing [] n = 16 -> Nothing

Rest(e, n) == IF e = "client" THEN ClientRest(n) ELSE ServerRest(n)

(* Where an end writes, and where its login is done.                              *)
WritesAt(e, n) ==
  n \in IF e = "client" THEN {0, 4, 10, 14, 17, 19} ELSE {1, 5, 6, 8, 10, 11, 15}
ReadsAt(e, n) ==
  n \in IF e = "client" THEN {1, 6, 7, 13, 15, 16} ELSE {0, 2, 7, 9, 12}
Finished(e, n) == n \in IF e = "client" THEN {9, 12, 19, 20} ELSE {15, 16}

(* The frames written, and read, before a place.                                 *)
Sent(e, n) ==
  IF e = "client"
  THEN Past(n, 0, 1) + Past(n, 4, Keyed) + Past(n, 10, GoesOn) + Past(n, 14, Offers)
         + Past(n, 17, GoesOn) + Past(n, 19, 1)
  ELSE Past(n, 1, Keyed) + Past(n, 5, Shrinks) + Past(n, 6, 1) + Past(n, 8, Offers)
         + Past(n, 10, GoesOn) + Past(n, 11, GoesOn) + Past(n, 15, 1)

Had(e, n) ==
  IF e = "client"
  THEN Past(n, 1, Keyed) + Past(n, 6, Shrinks) + Past(n, 7, 1) + Past(n, 13, Offers)
         + Past(n, 15, GoesOn) + Past(n, 16, GoesOn)
  ELSE Past(n, 0, 1) + Past(n, 2, Keyed) + Past(n, 7, GoesOn) + Past(n, 9, Offers)
         + Past(n, 12, GoesOn)

(* The i-th packet of an end; a server that has refused its client has written a      *)
(* disconnect in place of the second.                                            *)
PacketOf(e, i) ==
  IF e = "client"
  THEN CASE i = 1 -> "login_start"
         [] i = 1 + Keyed /\ Online -> "encryption_response"
         [] i = 2 + Keyed /\ Acknowledged -> "login_acknowledged"
         [] i = 3 + Keyed /\ Acknowledged /\ Packs -> "known_packs"
         [] i = 3 + Keyed + Offers /\ Acknowledged -> "configuration_finished"
         [] OTHER -> "game"
  ELSE CASE i = 1 /\ Online -> "encryption_request"
         [] i = 1 + Keyed /\ Compresses -> "set_compression"
         [] i = 1 + Keyed + Shrinks -> "login_success"
         [] i = 2 + Keyed + Shrinks /\ Acknowledged /\ Packs -> "known_packs"
         [] i = 2 + Keyed + Shrinks + Offers /\ Acknowledged -> "registry_data"
         [] i = 3 + Keyed + Shrinks + Offers /\ Acknowledged -> "configuration_finished"
         [] OTHER -> "game"

Denied == outcome["server"] = "authentication"

FrameOf(e, i) ==
  IF e = "server" /\ i = 2 /\ Denied
  THEN [packet |-> "disconnect", from |-> "server", compressed |-> FALSE]
  ELSE [packet |-> PacketOf(e, i), from |-> e, compressed |-> Compresses /\ i > 1 + Keyed]

CipherOf(e, i) == Online /\ (IF e = "client" THEN i > 2 /\ ~held ELSE i > 1)

(* The frames of an end that lead its peer on; those its own session has moved        *)
(* with; and those of its peer that it has.                                       *)
Good(e)  == IF e = "server" /\ Denied THEN 1 ELSE Len(log[e])
AtMost(i, j) == IF i <= j THEN i ELSE j
Said(e)  == AtMost(Len(log[e]) - (IF coordinator[e] = "written" THEN 1 ELSE 0), Good(e))
Heard(e, t) == AtMost(t, Good(Peer(e)))

(* What moves the state, and what the compression: in 775 the frames of the client,   *)
(* the others otherwise.                                                        *)
Moved(e, client, server) == IF e = "client" <=> Acknowledged THEN client ELSE server
StateAt(i) ==
  IF Acknowledged
  THEN IF i < 2 + Keyed THEN "login"
       ELSE IF i < 3 + Keyed + Offers THEN "configuration" ELSE "play"
  ELSE IF i < 1 + Keyed + Shrinks THEN "login" ELSE "play"

SessionAt(e, said, heard) ==
  [state      |-> StateAt(Moved(e, said, heard)),
   compressed |-> Compresses /\ (IF e = "client" THEN heard ELSE said) >= 1 + Keyed]

SessionOf(e, t) == SessionAt(e, Said(e), Heard(e, t))

(* What is on the way to an end, and the units of a frame its pump has already.       *)
Flow(e)  == conduit[e].inHand \o conduit[e].buffered \o conduit[e].wire
Begun(e) == CASE reader[e] = "length" -> 0 [] reader[e] = "payload" -> 1 [] OTHER -> 2

(* The frames written beyond those that belong before a place.                      *)
Extra(e, n) == Len(log[e]) - Sent(e, n)

(* What an end puts on the wire as its i-th frame.                                 *)
Word(e, i) == [frame |-> FrameOf(e, i), enciphered |-> CipherOf(e, i)]
-----------------------------------------------------------------------------
(* The parts of the invariant, of an end that is at place n, has read r packets and     *)
(* whose coordinator has decoded t frames.                                       *)
QueueInv(e, r, t) ==
  /\ r <= t /\ t <= Len(log[Peer(e)])
  /\ Len(queue[e]) = t - r
  /\ \A i \in 1..Len(queue[e]) : queue[e][i] = log[Peer(e)][r + i].frame.packet

Carries(unit, sent) == unit.frame = sent.frame /\ unit.enciphered = sent.enciphered

FlowInv(e, t) ==
  /\ conduit[e].inHand = <<>> => conduit[e].pending = Len(conduit[e].buffered)
  /\ Len(Flow(e)) <= 2 * (Len(log[Peer(e)]) - t)
  /\ coordinator[e] # "over" /\ reader[e] # "exited" =>
       LET had == 2 * t + Begun(e) IN
       /\ Len(Flow(e)) = 2 * Len(log[Peer(e)]) - had
       /\ \A i \in 1..Len(Flow(e)), j \in 1..Len(log[Peer(e)]) :
            had + i \in {2 * j - 1, 2 * j} => Carries(Flow(e)[i], log[Peer(e)][j])
       /\ reader[e] = "handing" => framed[e] = log[Peer(e)][t + 1].frame

LogInv(e) ==
  /\ \A i \in 1..Len(log[e]) : log[e][i] = Word(e, i)
  /\ coordinator[e] = "writing" => job[e] = FrameOf(e, Len(log[e]) + 1)
  /\ coordinator[e] = "written" => log[e] # <<>> /\ job[e] = FrameOf(e, Len(log[e]))

StopInv(e) ==
  /\ coordinator[e] = "over" \/ reader[e] = "exited" => stopping[e]
  /\ answer[e] \in {"rejected", "failed"} => stopping[e]
  /\ answer[e] = "expired" => expired[e]
  /\ cause[e] = "garbled" => expired["client"]
  /\ stopping[e] => cause[e] # "none"

CallInv(e) ==
  /\ answer[e] \in {"none", "asked", "taken", "ok", "failed", "rejected", "expired"}
  /\ answer[e] = "taken" => coordinator[e] \in {"writing", "written"}
  /\ coordinator[e] \in {"writing", "written"} =>
       todo[e] = <<>> \/ (Doing(e, "write") /\ answer[e] \in {"taken", "expired"})
  /\ coordinator[e] = "writing" => answer[e] = "taken" \/ stopping[e]

(* A login function that has failed has nothing left but, in a server, the refusal.    *)
Failed(e) == outcome[e] \notin {"none", "ok"}
Refusing  ==
  /\ todo["server"] = Refusal
  /\ Denied \/ (stopping["server"] /\ answer["server"] \in {"none", "rejected"})

PlaceInv(e, n, r) ==
  /\ MayBe(e, n)
  /\ outcome[e] \in {"none", "ok", "ended", "expired", "authentication", "disconnected"}
  /\ outcome[e] = "none" => todo[e] = Rest(e, n) /\ ~Finished(e, n)
  /\ outcome[e] = "ok" => todo[e] \in {<<>>, Rest(e, n)} /\ Finished(e, n)
  /\ Failed(e) => /\ ~Finished(e, n)
                  /\ todo[e] = <<>> \/ (e = "server" /\ Refusing /\ n \in 1..4)
  /\ outcome[e] = "disconnected" => e = "client" /\ Denied
  /\ e = "server" /\ Denied => n = 4
  /\ r = Had(e, n) + (IF outcome[e] = "disconnected" THEN 1 ELSE 0)
  /\ Had(e, n) <= Good(Peer(e))

SentInv(e, n) ==
  /\ Extra(e, n) \in {0, 1}
  /\ coordinator[e] = "writing" => Extra(e, n) = 0
  /\ coordinator[e] = "written" => Extra(e, n) = 1
  /\ Extra(e, n) = 1 \/ coordinator[e] = "writing" =>
       WritesAt(e, n) \/ (e = "server" /\ Denied)
  /\ todo[e] # <<>> /\ answer[e] \in {"none", "asked", "failed", "rejected"} => Extra(e, n) = 0
  /\ answer[e] = "ok" => (Extra(e, n) = 1 <=> Doing(e, "write"))

SessionInv(e, t) == session[e] = SessionOf(e, t)

(* A switch of a cipher is in force once its control has been answered.              *)
Switched(e, n, at) == Online /\ (n > at \/ (n = at /\ answer[e] = "ok"))

CipherInv(e, n) ==
  /\ conduit[e].decrypt <=> Switched(e, n, 3)
  /\ conduit[e].encrypt <=>
       Switched(e, n, IF e = "client" THEN 5 ELSE 3) /\ ~(e = "client" /\ held)

(* A client that goes on without its outbound cipher can still write only because its  *)
(* context has ended, and the server reads nothing of that.                        *)
HeldInv(c, t) ==
  held => /\ Online /\ c > 5
          /\ stopping["client"] \/ expired["client"]
          /\ Len(log["client"]) > 2 => expired["client"]
          /\ t <= 2
          /\ coordinator["server"] # "over" /\ reader["server"] # "exited" =>
               2 * t + Begun("server") <= 4

CoreOf(e, n, r, t) ==
  /\ QueueInv(e, r, t) /\ FlowInv(e, t) /\ LogInv(e) /\ StopInv(e) /\ CallInv(e)
  /\ PlaceInv(e, n, r) /\ SentInv(e, n) /\ SessionInv(e, t) /\ CipherInv(e, n)

Core(place, read, taken) ==
  /\ \A e \in Ends : CoreOf(e, place[e], read[e], taken[e])
  /\ HeldInv(place["client"], taken["server"])

(* A server whose context has ended and that has failed may tell its client anything.  *)
Astray == expired["server"] /\ Failed("server")
-----------------------------------------------------------------------------
(* The ends, and the numbers of a setting.                                       *)
LEMMA TwoEnds ==
  /\ \A e \in Ends : Peer(e) \in Ends /\ Peer(e) # e /\ Peer(Peer(e)) = e
  /\ Ends = {"client", "server"} /\ Peer("client") = "server" /\ Peer("server") = "client"
BY DEF Ends, Peer

LEMMA SettingNumbers ==
  /\ Keyed \in {0, 1} /\ Shrinks \in {0, 1} /\ GoesOn \in {0, 1} /\ Offers \in {0, 1}
  /\ (Online <=> Keyed = 1) /\ (Compresses <=> Shrinks = 1) /\ (Acknowledged <=> GoesOn = 1)
  /\ Acknowledged /\ Packs <=> Offers = 1
  /\ Offers <= GoesOn
BY DEF Keyed, Shrinks, GoesOn, Offers

(* What a setting says stays as it is.                                           *)
LEMMA SettingStays ==
  ASSUME UNCHANGED setting
  PROVE  /\ Keyed' = Keyed /\ Shrinks' = Shrinks /\ GoesOn' = GoesOn /\ Offers' = Offers
         /\ Online' = Online /\ Compresses' = Compresses /\ Acknowledged' = Acknowledged
         /\ Packs' = Packs /\ Terminal' = Terminal
BY DEF Keyed, Shrinks, GoesOn, Offers, Online, Compresses, Acknowledged, Packs, Terminal

LEMMA CourseStays ==
  ASSUME UNCHANGED setting
  PROVE  \A e, n : /\ MayBe(e, n)' = MayBe(e, n)
                   /\ Sent(e, n)' = Sent(e, n) /\ Had(e, n)' = Had(e, n)
                   /\ PacketOf(e, n)' = PacketOf(e, n) /\ StateAt(n)' = StateAt(n)
<1>1. \A e, n : MayBe(e, n)' = MayBe(e, n)
  BY SettingStays DEF MayBe, ClientMayBe, ServerMayBe
<1>2. \A e, n : Sent(e, n)' = Sent(e, n) /\ Had(e, n)' = Had(e, n)
  BY SettingStays DEF Sent, Had
<1>3. \A e, n : PacketOf(e, n)' = PacketOf(e, n)
  BY SettingStays DEF PacketOf
<1>4. \A n : StateAt(n)' = StateAt(n)
  BY SettingStays DEF StateAt
<1> QED BY <1>1, <1>2, <1>3, <1>4

LEMMA ServerRestStays ==
  ASSUME UNCHANGED setting
  PROVE  \A n : ServerRest(n)' = ServerRest(n)
<1>1. Server8' = Server8 /\ Server9' = Server9 /\ Server10' = Server10 /\ Server11' = Server11
      /\ Server12' = Server12 /\ Server13' = Server13 /\ Server14' = Server14
  BY DEF Server8, Server9, Server10, Server11, Server12, Server13, Server14
<1>2. Server7' = Server7
  BY <1>1 DEF Server7, Behind7, Packs
<1>3. Server6' = Server6
  BY <1>1, <1>2 DEF Server6, Behind6, Acknowledged
<1>4. Server5' = Server5
  BY <1>3 DEF Server5
<1>5. Behind4' = Behind4
  BY <1>3, <1>4 DEF Behind4, Compresses
<1>6. Server4' = Server4
  BY <1>5 DEF Server4
<1>7. Server3' = Server3
  BY <1>6 DEF Server3
<1>8. Server2' = Server2
  BY <1>7 DEF Server2
<1>9. Server1' = Server1
  BY <1>8 DEF Server1
<1>10. Server0' = Server0
  BY <1>9, <1>5 DEF Server0, Behind0, Online
<1> QED BY <1>1, <1>2, <1>3, <1>4, <1>6, <1>7, <1>8, <1>9, <1>10 DEF ServerRest

LEMMA RestStays ==
  ASSUME UNCHANGED setting
  PROVE  \A e, n : Rest(e, n)' = Rest(e, n)
<1>1. Client10' = Client10
  BY DEF Client10, Behind10, Terminal
<1>2. \A n : ClientRest(n)' = ClientRest(n)
  BY <1>1 DEF ClientRest
<1> QED BY <1>2, ServerRestStays DEF Rest

LEMMA FramesStay ==
  ASSUME UNCHANGED setting, Denied' <=> Denied
  PROVE  \A e, i : FrameOf(e, i)' = FrameOf(e, i)
BY CourseStays, SettingStays DEF FrameOf

LEMMA CiphersStay ==
  ASSUME UNCHANGED <<setting, held>>
  PROVE  \A e, i : CipherOf(e, i)' = CipherOf(e, i)
BY SettingStays DEF CipherOf
-----------------------------------------------------------------------------
(* Sequences.                                                                  *)
LEMMA Appended ==
  ASSUME NEW S, NEW s \in Seq(S), NEW x \in S
  PROVE  /\ Append(s, x) \in Seq(S) /\ Len(Append(s, x)) = Len(s) + 1
         /\ \A i \in 1..Len(s) : Append(s, x)[i] = s[i]
         /\ Append(s, x)[Len(s) + 1] = x
OBVIOUS

LEMMA RestOf ==
  ASSUME NEW S, NEW s \in Seq(S), s # <<>>
  PROVE  /\ Tail(s) \in Seq(S) /\ Len(Tail(s)) = Len(s) - 1 /\ Len(s) \in Nat \ {0}
         /\ \A i \in 1..(Len(s) - 1) : Tail(s)[i] = s[i + 1]
         /\ Head(s) = s[1] /\ Head(s) \in S
OBVIOUS

LEMMA Chained ==
  ASSUME NEW S, NEW s \in Seq(S), NEW t \in Seq(S)
  PROVE  /\ s \o t \in Seq(S) /\ Len(s \o t) = Len(s) + Len(t)
         /\ \A i \in 1..Len(s) : (s \o t)[i] = s[i]
         /\ \A i \in 1..Len(t) : (s \o t)[Len(s) + i] = t[i]
OBVIOUS

LEMMA OneFirst ==
  ASSUME NEW S, NEW x \in S, NEW s \in Seq(S)
  PROVE  <<x>> \o s # <<>> /\ Head(<<x>> \o s) = x /\ Tail(<<x>> \o s) = s /\ <<x>> \o s \in Seq(S)
<1> DEFINE u == <<x>> \o s
<1>1. u \in Seq(S) /\ Len(u) = Len(s) + 1 /\ u[1] = x
  OBVIOUS
<1>2. \A i \in 1..Len(s) : u[i + 1] = s[i]
  OBVIOUS
<1> HIDE DEF u
<1>3. u # <<>>
  BY <1>1
<1>4. Tail(u) \in Seq(S) /\ Len(Tail(u)) = Len(s) /\ \A i \in 1..Len(s) : Tail(u)[i] = s[i]
  BY <1>1, <1>2, <1>3, RestOf
<1>5. Tail(u) = s
  BY <1>4
<1> QED BY <1>1, <1>3, <1>5, RestOf DEF u

LEMMA OneLast ==
  /\ \A x : <<x>> # <<>> /\ Head(<<x>>) = x /\ Tail(<<x>>) = <<>>
  /\ \A S, x : x \in S => <<x>> \in Seq(S)
OBVIOUS

LEMMA Regrouped ==
  ASSUME NEW S, NEW r \in Seq(S), NEW s \in Seq(S), NEW t \in Seq(S)
  PROVE  (r \o s) \o t = r \o (s \o t)
OBVIOUS

One(a)           == <<a>>
Two(a, b)        == <<a, b>>
Three(a, b, c)   == <<a, b, c>>
Four(a, b, c, d) == <<a, b, c, d>>

LEMMA OneByOne ==
  ASSUME NEW S
  PROVE  /\ \A a \in S : One(a) \in Seq(S)
         /\ \A a, b \in S : Two(a, b) \in Seq(S) /\ Two(a, b) = One(a) \o One(b)
         /\ \A a, b, c \in S : Three(a, b, c) \in Seq(S) /\ Three(a, b, c) = One(a) \o Two(b, c)
<1>1. \A a \in S : One(a) \in Seq(S)
  BY DEF One
<1>2. ASSUME NEW a \in S, NEW b \in S PROVE Two(a, b) \in Seq(S) /\ Two(a, b) = One(a) \o One(b)
  <2> DEFINE v == Two(a, b)  w == One(a) \o One(b)
  <2>1. v \in Seq(S) /\ Len(v) = 2 /\ v[1] = a /\ v[2] = b
    BY DEF Two
  <2>2. w \in Seq(S) /\ Len(w) = 2 /\ w[1] = a /\ w[2] = b
    BY DEF One
  <2> HIDE DEF v, w
  <2>3. v = w
    BY <2>1, <2>2
  <2> QED BY <2>1, <2>3 DEF v, w
<1>3. ASSUME NEW a \in S, NEW b \in S, NEW c \in S PROVE Three(a, b, c) \in Seq(S) /\ Three(a, b, c) = One(a) \o Two(b, c)
  <2> DEFINE v == Three(a, b, c)  w == One(a) \o Two(b, c)
  <2>1. v \in Seq(S) /\ Len(v) = 3 /\ v[1] = a /\ v[2] = b /\ v[3] = c
    BY DEF Three
  <2>2. w \in Seq(S) /\ Len(w) = 3 /\ w[1] = a /\ w[2] = b /\ w[3] = c
    BY DEF One, Two
  <2> HIDE DEF v, w
  <2>3. v = w
    BY <2>1, <2>2
  <2> QED BY <2>1, <2>3 DEF v, w
<1> QED BY <1>1, <1>2, <1>3
-----------------------------------------------------------------------------
(* The courses.  First the numbers: the place behind a place is one the setting has,   *)
(* and one more frame has been written, or read, where one is.                       *)
Last(e) == IF e = "client" THEN {9, 12, 20} ELSE {16}

LEMMA PlacesAreNumbers ==
  ASSUME NEW e \in Ends, NEW n, MayBe(e, n)
  PROVE  /\ n \in Nat /\ n \in Places(e)
         /\ Sent(e, n) \in Nat /\ Had(e, n) \in Nat
BY SettingNumbers DEF MayBe, Places, Sent, Had, Past, Ends

LEMMA Onward ==
  ASSUME NEW e \in Ends, NEW n, MayBe(e, n), n \notin Last(e)
  PROVE  LET m == NextPlace(e, n) IN
         /\ MayBe(e, m) /\ m > n
         /\ Sent(e, m) = Sent(e, n) + (IF WritesAt(e, n) THEN 1 ELSE 0)
         /\ Had(e, m) = Had(e, n) + (IF ReadsAt(e, n) THEN 1 ELSE 0)
         /\ Online => (m > 3 <=> n >= 3)
         /\ Online /\ e = "client" => (m > 5 <=> n >= 5)
<1> DEFINE m == NextPlace(e, n)
<1>1. CASE e = "client"
  <2>1. n \in 0..20 /\ n \notin {9, 12, 20} /\ ClientMayBe(n) /\ m = ClientNext(n)
    BY <1>1 DEF MayBe, Places, Last, NextPlace
  <2>2. m \in 0..20 /\ ClientMayBe(m) /\ m > n
    BY <2>1, <1>1 DEF ClientMayBe, ClientNext, AfterKeys
  <2>3. Sent(e, m) = Sent(e, n) + (IF WritesAt(e, n) THEN 1 ELSE 0)
    BY <2>1, <1>1, SettingNumbers DEF ClientMayBe, ClientNext, AfterKeys, Sent, Past, WritesAt
  <2>4. Had(e, m) = Had(e, n) + (IF ReadsAt(e, n) THEN 1 ELSE 0)
    BY <2>1, <1>1, SettingNumbers DEF ClientMayBe, ClientNext, AfterKeys, Had, Past, ReadsAt
  <2>5. Online => (m > 3 <=> n >= 3) /\ (m > 5 <=> n >= 5)
    BY <2>1, <1>1 DEF ClientMayBe, ClientNext, AfterKeys
  <2> QED BY <2>2, <2>3, <2>4, <2>5, <1>1 DEF MayBe, Places
<1>2. CASE e = "server"
  <2>1. n \in 0..16 /\ n # 16 /\ ServerMayBe(n) /\ m = ServerNext(n)
    BY <1>2 DEF MayBe, Places, Last, NextPlace
  <2>2. m \in 0..16 /\ ServerMayBe(m) /\ m > n
    BY <2>1, <1>2 DEF ServerMayBe, ServerNext, AfterKeys
  <2>3. Sent(e, m) = Sent(e, n) + (IF WritesAt(e, n) THEN 1 ELSE 0)
    BY <2>1, <1>2, SettingNumbers DEF ServerMayBe, ServerNext, AfterKeys, Sent, Past, WritesAt
  <2>4. Had(e, m) = Had(e, n) + (IF ReadsAt(e, n) THEN 1 ELSE 0)
    BY <2>1, <1>2, SettingNumbers DEF ServerMayBe, ServerNext, AfterKeys, Had, Past, ReadsAt
  <2>5. Online => (m > 3 <=> n >= 3)
    BY <2>1, <1>2 DEF ServerMayBe, ServerNext, AfterKeys
  <2> QED BY <2>2, <2>3, <2>4, <2>5, <1>2 DEF MayBe, Places
<1> QED BY <1>1, <1>2 DEF Ends

(* Which packet is the next one of an end at a place where it writes.                *)
ClientWrites(n) ==
  CASE n = 0 -> "login_start" [] n = 4 -> "encryption_response"
    [] n = 10 -> "login_acknowledged" [] n = 14 -> "known_packs"
    [] n = 17 -> "configuration_finished" [] n = 19 -> "game"

ServerWrites(n) ==
  CASE n = 1 -> "encryption_request" [] n = 5 -> "set_compression" [] n = 6 -> "login_success"
    [] n = 8 -> "known_packs" [] n = 10 -> "registry_data" [] n = 11 -> "configuration_finished"
    [] n = 15 -> "game"

(* And which packet of its peer belongs to a place where it reads.                   *)
ClientAwaits(n) ==
  CASE n = 1 -> "encryption_request" [] n = 6 -> "set_compression" [] n = 7 -> "login_success"
    [] n = 13 -> "known_packs" [] n = 15 -> "registry_data" [] n = 16 -> "configuration_finished"

ServerAwaits(n) ==
  CASE n = 0 -> "login_start" [] n = 2 -> "encryption_response" [] n = 7 -> "login_acknowledged"
    [] n = 9 -> "known_packs" [] n = 12 -> "configuration_finished"

LEMMA NextPacket ==
  /\ \A n : MayBe("client", n) /\ WritesAt("client", n) =>
       PacketOf("client", Sent("client", n) + 1) = ClientWrites(n)
  /\ \A n : MayBe("server", n) /\ WritesAt("server", n) =>
       PacketOf("server", Sent("server", n) + 1) = ServerWrites(n)
<1>1. ASSUME NEW n, MayBe("client", n), WritesAt("client", n)
      PROVE  PacketOf("client", Sent("client", n) + 1) = ClientWrites(n)
  <2>1. n \in {0, 4, 10, 14, 17, 19} /\ ClientMayBe(n)
    BY <1>1 DEF MayBe, WritesAt
  <2>2. CASE n = 0
    BY <2>1, <2>2, SettingNumbers DEF ClientMayBe, PacketOf, ClientWrites, Sent, Past
  <2>3. CASE n = 4
    BY <2>1, <2>3, SettingNumbers DEF ClientMayBe, PacketOf, ClientWrites, Sent, Past
  <2>4. CASE n = 10
    BY <2>1, <2>4, SettingNumbers DEF ClientMayBe, PacketOf, ClientWrites, Sent, Past
  <2>5. CASE n = 14
    BY <2>1, <2>5, SettingNumbers DEF ClientMayBe, PacketOf, ClientWrites, Sent, Past
  <2>6. CASE n = 17
    BY <2>1, <2>6, SettingNumbers DEF ClientMayBe, PacketOf, ClientWrites, Sent, Past
  <2>7. CASE n = 19
    BY <2>1, <2>7, SettingNumbers DEF ClientMayBe, PacketOf, ClientWrites, Sent, Past
  <2> QED BY <2>1, <2>2, <2>3, <2>4, <2>5, <2>6, <2>7
<1>2. ASSUME NEW n, MayBe("server", n), WritesAt("server", n)
      PROVE  PacketOf("server", Sent("server", n) + 1) = ServerWrites(n)
  <2>1. n \in {1, 5, 6, 8, 10, 11, 15} /\ ServerMayBe(n)
    BY <1>2 DEF MayBe, WritesAt
  <2>2. CASE n = 1
    BY <2>1, <2>2, SettingNumbers DEF ServerMayBe, PacketOf, ServerWrites, Sent, Past
  <2>3. CASE n = 5
    BY <2>1, <2>3, SettingNumbers DEF ServerMayBe, PacketOf, ServerWrites, Sent, Past
  <2>4. CASE n = 6
    BY <2>1, <2>4, SettingNumbers DEF ServerMayBe, PacketOf, ServerWrites, Sent, Past
  <2>5. CASE n = 8
    BY <2>1, <2>5, SettingNumbers DEF ServerMayBe, PacketOf, ServerWrites, Sent, Past
  <2>6. CASE n = 10
    BY <2>1, <2>6, SettingNumbers DEF ServerMayBe, PacketOf, ServerWrites, Sent, Past
  <2>7. CASE n = 11
    BY <2>1, <2>7, SettingNumbers DEF ServerMayBe, PacketOf, ServerWrites, Sent, Past
  <2>8. CASE n = 15
    BY <2>1, <2>8, SettingNumbers DEF ServerMayBe, PacketOf, ServerWrites, Sent, Past
  <2> QED BY <2>1, <2>2, <2>3, <2>4, <2>5, <2>6, <2>7, <2>8
<1> QED BY <1>1, <1>2

LEMMA AwaitedPacket ==
  /\ \A n : MayBe("client", n) /\ ReadsAt("client", n) =>
       PacketOf("server", Had("client", n) + 1) = ClientAwaits(n)
  /\ \A n : MayBe("server", n) /\ ReadsAt("server", n) =>
       PacketOf("client", Had("server", n) + 1) = ServerAwaits(n)
<1>1. ASSUME NEW n, MayBe("client", n), ReadsAt("client", n)
      PROVE  PacketOf("server", Had("client", n) + 1) = ClientAwaits(n)
  <2>1. n \in {1, 6, 7, 13, 15, 16} /\ ClientMayBe(n)
    BY <1>1 DEF MayBe, ReadsAt
  <2>2. CASE n = 1
    BY <2>1, <2>2, SettingNumbers DEF ClientMayBe, PacketOf, ClientAwaits, Had, Past
  <2>3. CASE n = 6
    BY <2>1, <2>3, SettingNumbers DEF ClientMayBe, PacketOf, ClientAwaits, Had, Past
  <2>4. CASE n = 7
    BY <2>1, <2>4, SettingNumbers DEF ClientMayBe, PacketOf, ClientAwaits, Had, Past
  <2>5. CASE n = 13
    BY <2>1, <2>5, SettingNumbers DEF ClientMayBe, PacketOf, ClientAwaits, Had, Past
  <2>6. CASE n = 15
    BY <2>1, <2>6, SettingNumbers DEF ClientMayBe, PacketOf, ClientAwaits, Had, Past
  <2>7. CASE n = 16
    BY <2>1, <2>7, SettingNumbers DEF ClientMayBe, PacketOf, ClientAwaits, Had, Past
  <2> QED BY <2>1, <2>2, <2>3, <2>4, <2>5, <2>6, <2>7
<1>2. ASSUME NEW n, MayBe("server", n), ReadsAt("server", n)
      PROVE  PacketOf("client", Had("server", n) + 1) = ServerAwaits(n)
  <2>1. n \in {0, 2, 7, 9, 12} /\ ServerMayBe(n)
    BY <1>2 DEF MayBe, ReadsAt
  <2>2. CASE n = 0
    BY <2>1, <2>2, SettingNumbers DEF ServerMayBe, PacketOf, ServerAwaits, Had, Past
  <2>3. CASE n = 2
    BY <2>1, <2>3, SettingNumbers DEF ServerMayBe, PacketOf, ServerAwaits, Had, Past
  <2>4. CASE n = 7
    BY <2>1, <2>4, SettingNumbers DEF ServerMayBe, PacketOf, ServerAwaits, Had, Past
  <2>5. CASE n = 9
    BY <2>1, <2>5, SettingNumbers DEF ServerMayBe, PacketOf, ServerAwaits, Had, Past
  <2>6. CASE n = 12
    BY <2>1, <2>6, SettingNumbers DEF ServerMayBe, PacketOf, ServerAwaits, Had, Past
  <2> QED BY <2>1, <2>2, <2>3, <2>4, <2>5, <2>6
<1> QED BY <1>1, <1>2

(* Then the steps: what an end does at a place, and that it goes on behind it.        *)
LEMMA StepsAre ==
  /\ \A p \in Packets : Write(p) \in Steps /\ Read(p) \in Steps
  /\ Read("any") \in Steps /\ \A h \in {"inbound", "outbound", "both"} : Control(h) \in Steps
  /\ Snapshot \in Steps /\ Join \in Steps /\ Verify \in Steps /\ Return \in Steps
BY DEF Steps

LEMMA PacketsAre ==
  {"login_start", "encryption_request", "encryption_response", "set_compression",
   "login_success", "login_acknowledged", "disconnect", "known_packs", "registry_data",
   "configuration_finished", "game"} \subseteq Packets
BY DEF Packets, LoginPackets, ConfigurationPackets

(* What an end does at a place.                                                 *)
ClientStep(n) ==
  CASE n = 0 -> Write("login_start") [] n = 2 -> Join
    [] n = 3 -> Control("inbound") [] n = 4 -> Write("encryption_response")
    [] n = 5 -> Control("outbound") [] n = 8 -> Return
    [] n = 10 -> Write("login_acknowledged") [] n = 11 -> Return
    [] n = 14 -> Write("known_packs")
    [] n = 17 -> Write("configuration_finished") [] n = 18 -> Return
    [] n = 19 -> Write("game")
    [] n \in {1, 6, 7, 13, 15, 16} -> Read("any")

ServerStep(n) ==
  CASE n = 0 -> Read("login_start") [] n = 1 -> Write("encryption_request")
    [] n = 2 -> Read("encryption_response") [] n = 3 -> Control("both")
    [] n = 4 -> Verify [] n = 5 -> Write("set_compression")
    [] n = 6 -> Write("login_success") [] n = 7 -> Read("login_acknowledged")
    [] n = 8 -> Write("known_packs") [] n = 9 -> Read("known_packs")
    [] n = 10 -> Write("registry_data")
    [] n = 11 -> Write("configuration_finished")
    [] n = 12 -> Read("configuration_finished") [] n = 13 -> Snapshot
    [] n = 14 -> Return [] n = 15 -> Write("game")

StepAt(e, n) == IF e = "client" THEN ClientStep(n) ELSE ServerStep(n)

(* An x with s behind it: what is then to be done is x, and s is left.               *)
Leads(r, x, s) == r \in Seq(Steps) /\ r # <<>> /\ Head(r) = x /\ Tail(r) = s

LEMMA Led ==
  /\ \A x \in Steps, s \in Seq(Steps) : Leads(<<x>> \o s, x, s)
  /\ \A x \in Steps : Leads(<<x>>, x, Nothing)
  /\ \A r, x, s : Leads(r, x, s) => r \in Seq(Steps)
<1>1. ASSUME NEW x \in Steps, NEW s \in Seq(Steps) PROVE Leads(<<x>> \o s, x, s)
  BY OneFirst DEF Leads
<1>2. ASSUME NEW x \in Steps PROVE Leads(<<x>>, x, Nothing)
  BY OneLast DEF Leads, Nothing
<1>3. \A r, x, s : Leads(r, x, s) => r \in Seq(Steps)
  BY DEF Leads
<1> QED BY <1>1, <1>2, <1>3

LEMMA ServerSteps ==
  ASSUME NEW n, MayBe("server", n), n \notin Last("server")
  PROVE  Leads(ServerRest(n), ServerStep(n), ServerRest(ServerNext(n)))
<1>0. n \in 0..15 /\ ServerMayBe(n)
  BY DEF MayBe, Places, Last
<1>1. Leads(Playing, Write("game"), Nothing)
  <2>1. Write("game") \in Steps
    BY StepsAre, PacketsAre
  <2> QED BY <2>1, Led DEF Playing
<1>2. Leads(Server14, Return, Playing)
  <2>1. Playing \in Seq(Steps)
    BY Led, <1>1
  <2>2. Return \in Steps
    BY StepsAre, PacketsAre
  <2> QED BY <2>1, <2>2, Led DEF Server14
<1>3. Leads(Server13, Snapshot, Server14)
  <2>1. Server14 \in Seq(Steps)
    BY Led, <1>2
  <2>2. Snapshot \in Steps
    BY StepsAre, PacketsAre
  <2> QED BY <2>1, <2>2, Led DEF Server13
<1>4. Leads(Server12, Read("configuration_finished"), Server13)
  <2>1. Server13 \in Seq(Steps)
    BY Led, <1>3
  <2>2. Read("configuration_finished") \in Steps
    BY StepsAre, PacketsAre
  <2> QED BY <2>1, <2>2, Led DEF Server12
<1>5. Leads(Server11, Write("configuration_finished"), Server12)
  <2>1. Server12 \in Seq(Steps)
    BY Led, <1>4
  <2>2. Write("configuration_finished") \in Steps
    BY StepsAre, PacketsAre
  <2> QED BY <2>1, <2>2, Led DEF Server11
<1>6. Leads(Server10, Write("registry_data"), Server11)
  <2>1. Server11 \in Seq(Steps)
    BY Led, <1>5
  <2>2. Write("registry_data") \in Steps
    BY StepsAre, PacketsAre
  <2> QED BY <2>1, <2>2, Led DEF Server10
<1>7. Leads(Server9, Read("known_packs"), Server10)
  <2>1. Server10 \in Seq(Steps)
    BY Led, <1>6
  <2>2. Read("known_packs") \in Steps
    BY StepsAre, PacketsAre
  <2> QED BY <2>1, <2>2, Led DEF Server9
<1>8. Leads(Server8, Write("known_packs"), Server9)
  <2>1. Server9 \in Seq(Steps)
    BY Led, <1>7
  <2>2. Write("known_packs") \in Steps
    BY StepsAre, PacketsAre
  <2> QED BY <2>1, <2>2, Led DEF Server8
<1>9. Leads(Server7, Read("login_acknowledged"), Behind7)
  <2>1. Behind7 \in Seq(Steps)
    BY Led, <1>8, <1>6 DEF Behind7
  <2>2. Read("login_acknowledged") \in Steps
    BY StepsAre, PacketsAre
  <2> QED BY <2>1, <2>2, Led DEF Server7
<1>10. Leads(Server6, Write("login_success"), Behind6)
  <2>1. Behind6 \in Seq(Steps)
    BY Led, <1>9, <1>3 DEF Behind6
  <2>2. Write("login_success") \in Steps
    BY StepsAre, PacketsAre
  <2> QED BY <2>1, <2>2, Led DEF Server6
<1>11. Leads(Server5, Write("set_compression"), Server6)
  <2>1. Server6 \in Seq(Steps)
    BY Led, <1>10
  <2>2. Write("set_compression") \in Steps
    BY StepsAre, PacketsAre
  <2> QED BY <2>1, <2>2, Led DEF Server5
<1>12. Leads(Server4, Verify, Behind4)
  <2>1. Behind4 \in Seq(Steps)
    BY Led, <1>11, <1>10 DEF Behind4
  <2>2. Verify \in Steps
    BY StepsAre, PacketsAre
  <2> QED BY <2>1, <2>2, Led DEF Server4
<1>13. Leads(Server3, Control("both"), Server4)
  <2>1. Server4 \in Seq(Steps)
    BY Led, <1>12
  <2>2. Control("both") \in Steps
    BY StepsAre, PacketsAre
  <2> QED BY <2>1, <2>2, Led DEF Server3
<1>14. Leads(Server2, Read("encryption_response"), Server3)
  <2>1. Server3 \in Seq(Steps)
    BY Led, <1>13
  <2>2. Read("encryption_response") \in Steps
    BY StepsAre, PacketsAre
  <2> QED BY <2>1, <2>2, Led DEF Server2
<1>15. Leads(Server1, Write("encryption_request"), Server2)
  <2>1. Server2 \in Seq(Steps)
    BY Led, <1>14
  <2>2. Write("encryption_request") \in Steps
    BY StepsAre, PacketsAre
  <2> QED BY <2>1, <2>2, Led DEF Server1
<1>16. Leads(Server0, Read("login_start"), Behind0)
  <2>1. Behind0 \in Seq(Steps)
    BY Led, <1>15, <1>11, <1>10 DEF Behind0, Behind4
  <2>2. Read("login_start") \in Steps
    BY StepsAre, PacketsAre
  <2> QED BY <2>1, <2>2, Led DEF Server0
<1>17. CASE n = 0
  <2>1. ServerRest(n) = Server0 /\ ServerStep(n) = Read("login_start")
    BY <1>17 DEF ServerRest, ServerStep
  <2>2. ServerRest(ServerNext(n)) = Behind0
    BY <1>17 DEF ServerRest, ServerNext, Behind0, Behind4, AfterKeys
  <2> QED BY <2>1, <2>2, <1>16, Zenon
<1>18. CASE n = 1
  <2>1. ServerRest(n) = Server1 /\ ServerStep(n) = Write("encryption_request")
    BY <1>18 DEF ServerRest, ServerStep
  <2>2. ServerRest(ServerNext(n)) = Server2
    BY <1>18 DEF ServerRest, ServerNext
  <2> QED BY <2>1, <2>2, <1>15, Zenon
<1>19. CASE n = 2
  <2>1. ServerRest(n) = Server2 /\ ServerStep(n) = Read("encryption_response")
    BY <1>19 DEF ServerRest, ServerStep
  <2>2. ServerRest(ServerNext(n)) = Server3
    BY <1>19 DEF ServerRest, ServerNext
  <2> QED BY <2>1, <2>2, <1>14, Zenon
<1>20. CASE n = 3
  <2>1. ServerRest(n) = Server3 /\ ServerStep(n) = Control("both")
    BY <1>20 DEF ServerRest, ServerStep
  <2>2. ServerRest(ServerNext(n)) = Server4
    BY <1>20 DEF ServerRest, ServerNext
  <2> QED BY <2>1, <2>2, <1>13, Zenon
<1>21. CASE n = 4
  <2>1. ServerRest(n) = Server4 /\ ServerStep(n) = Verify
    BY <1>21 DEF ServerRest, ServerStep
  <2>2. ServerRest(ServerNext(n)) = Behind4
    BY <1>21 DEF ServerRest, ServerNext, Behind4, AfterKeys
  <2> QED BY <2>1, <2>2, <1>12, Zenon
<1>22. CASE n = 5
  <2>1. ServerRest(n) = Server5 /\ ServerStep(n) = Write("set_compression")
    BY <1>22 DEF ServerRest, ServerStep
  <2>2. ServerRest(ServerNext(n)) = Server6
    BY <1>22 DEF ServerRest, ServerNext
  <2> QED BY <2>1, <2>2, <1>11, Zenon
<1>23. CASE n = 6
  <2>1. ServerRest(n) = Server6 /\ ServerStep(n) = Write("login_success")
    BY <1>23 DEF ServerRest, ServerStep
  <2>2. ServerRest(ServerNext(n)) = Behind6
    BY <1>23 DEF ServerRest, ServerNext, Behind6
  <2> QED BY <2>1, <2>2, <1>10, Zenon
<1>24. CASE n = 7
  <2>1. ServerRest(n) = Server7 /\ ServerStep(n) = Read("login_acknowledged")
    BY <1>24 DEF ServerRest, ServerStep
  <2>2. ServerRest(ServerNext(n)) = Behind7
    BY <1>24 DEF ServerRest, ServerNext, Behind7
  <2> QED BY <2>1, <2>2, <1>9, Zenon
<1>25. CASE n = 8
  <2>1. ServerRest(n) = Server8 /\ ServerStep(n) = Write("known_packs")
    BY <1>25 DEF ServerRest, ServerStep
  <2>2. ServerRest(ServerNext(n)) = Server9
    BY <1>25 DEF ServerRest, ServerNext
  <2> QED BY <2>1, <2>2, <1>8, Zenon
<1>26. CASE n = 9
  <2>1. ServerRest(n) = Server9 /\ ServerStep(n) = Read("known_packs")
    BY <1>26 DEF ServerRest, ServerStep
  <2>2. ServerRest(ServerNext(n)) = Server10
    BY <1>26 DEF ServerRest, ServerNext
  <2> QED BY <2>1, <2>2, <1>7, Zenon
<1>27. CASE n = 10
  <2>1. ServerRest(n) = Server10 /\ ServerStep(n) = Write("registry_data")
    BY <1>27 DEF ServerRest, ServerStep
  <2>2. ServerRest(ServerNext(n)) = Server11
    BY <1>27 DEF ServerRest, ServerNext
  <2> QED BY <2>1, <2>2, <1>6, Zenon
<1>28. CASE n = 11
  <2>1. ServerRest(n) = Server11 /\ ServerStep(n) = Write("configuration_finished")
    BY <1>28 DEF ServerRest, ServerStep
  <2>2. ServerRest(ServerNext(n)) = Server12
    BY <1>28 DEF ServerRest, ServerNext
  <2> QED BY <2>1, <2>2, <1>5, Zenon
<1>29. CASE n = 12
  <2>1. ServerRest(n) = Server12 /\ ServerStep(n) = Read("configuration_finished")
    BY <1>29 DEF ServerRest, ServerStep
  <2>2. ServerRest(ServerNext(n)) = Server13
    BY <1>29 DEF ServerRest, ServerNext
  <2> QED BY <2>1, <2>2, <1>4, Zenon
<1>30. CASE n = 13
  <2>1. ServerRest(n) = Server13 /\ ServerStep(n) = Snapshot
    BY <1>30 DEF ServerRest, ServerStep
  <2>2. ServerRest(ServerNext(n)) = Server14
    BY <1>30 DEF ServerRest, ServerNext
  <2> QED BY <2>1, <2>2, <1>3, Zenon
<1>31. CASE n = 14
  <2>1. ServerRest(n) = Server14 /\ ServerStep(n) = Return
    BY <1>31 DEF ServerRest, ServerStep
  <2>2. ServerRest(ServerNext(n)) = Playing
    BY <1>31 DEF ServerRest, ServerNext
  <2> QED BY <2>1, <2>2, <1>2, Zenon
<1>32. CASE n = 15
  <2>1. ServerRest(n) = Playing /\ ServerStep(n) = Write("game")
    BY <1>32 DEF ServerRest, ServerStep
  <2>2. ServerRest(ServerNext(n)) = Nothing
    BY <1>32 DEF ServerRest, ServerNext
  <2> QED BY <2>1, <2>2, <1>1, Zenon
<1> QED BY <1>0, <1>17, <1>18, <1>19, <1>20, <1>21, <1>22, <1>23, <1>24, <1>25, <1>26,
           <1>27, <1>28, <1>29, <1>30, <1>31, <1>32

LEMMA NegotiatorAnswers ==
  /\ NegotiatorReads("encryption_request") = Client2
  /\ NegotiatorReads("known_packs") = Client14
  /\ NegotiatorReads("configuration_finished") = Client17
  /\ NegotiatorReads("login_success") =
       IF ~Acknowledged THEN Client18
       ELSE IF Terminal = "login" THEN Returning ELSE Client10
  /\ NegotiatorReads("set_compression") = Awaiting /\ NegotiatorReads("registry_data") = Awaiting
<1> DEFINE game == Write("game") any == Read("any")
<1>0. game \in Steps /\ any \in Steps
  BY StepsAre, PacketsAre
<1>1. Reached = Client18
  <2>1. Reached = Two(Return, game)
    BY DEF Reached, Two
  <2>2. Client18 = One(Return) \o One(game)
    BY DEF Client18, Playing, One
  <2> HIDE DEF game
  <2> QED BY <1>0, <2>1, <2>2, OneByOne, StepsAre
<1>2. NegotiatorReads("encryption_request") = Client2
  <2> DEFINE i == Control("inbound") o == Control("outbound") w == Write("encryption_response")
  <2>1. i \in Steps /\ o \in Steps /\ w \in Steps /\ Join \in Steps
    BY StepsAre, PacketsAre
  <2>2. NegotiatorReads("encryption_request") = Four(Join, i, w, o) \o One(any)
    BY DEF NegotiatorReads, NegotiatorKeys, One, Four
  <2>3. Client2 = One(Join) \o (One(i) \o (One(w) \o (One(o) \o One(any))))
    BY DEF Client2, Client3, Client4, Client5, Awaiting, One
  <2> HIDE DEF i, o, w, any
  <2> DEFINE J == One(Join) I == One(i) O == One(o) W == One(w) A == One(any)
             WO == Two(w, o) IWO == Three(i, w, o) all == Four(Join, i, w, o)
  <2>4. J \in Seq(Steps) /\ I \in Seq(Steps) /\ O \in Seq(Steps) /\ W \in Seq(Steps)
        /\ A \in Seq(Steps) /\ WO \in Seq(Steps) /\ IWO \in Seq(Steps)
    BY <1>0, <2>1, OneByOne, Zenon
  <2>5. WO = W \o O
    BY <2>1, OneByOne, Zenon
  <2>6. IWO = I \o WO
    BY <2>1, OneByOne, ZenonT(60)
  <2>7. all = J \o IWO
    <3> DEFINE v == all  u == J \o IWO
    <3>1. v \in Seq(Steps) /\ Len(v) = 4 /\ v[1] = Join /\ v[2] = i /\ v[3] = w /\ v[4] = o
      BY <2>1 DEF Four
    <3>2. u \in Seq(Steps) /\ Len(u) = 4 /\ u[1] = Join /\ u[2] = i /\ u[3] = w /\ u[4] = o
      BY <2>1 DEF One, Three
    <3> HIDE DEF v, u
    <3>3. v = u
      BY <3>1, <3>2
    <3> QED BY <3>3 DEF v, u
  <2> HIDE DEF J, I, O, W, A, WO, IWO, all
  <2>8. (J \o IWO) \o A = J \o (IWO \o A)
    BY SMTT(60), <2>4
  <2>9. (I \o WO) \o A = I \o (WO \o A)
    BY SMTT(60), <2>4
  <2>10. (W \o O) \o A = W \o (O \o A)
    BY <2>4
  <2>11. all \o A = J \o (I \o (W \o (O \o A)))
    BY <2>5, <2>6, <2>7, <2>8, <2>9, <2>10, Zenon
  <2> QED BY <2>2, <2>3, <2>11, Zenon DEF all, J, I, O, W, A
<1>3. NegotiatorReads("known_packs") = Client14
  <2> DEFINE w == Write("known_packs")
  <2>1. w \in Steps /\ NegotiatorReads("known_packs") = Two(w, any)
    BY StepsAre, PacketsAre DEF NegotiatorReads, Two
  <2>2. Client14 = One(w) \o One(any)
    BY DEF Client14, Awaiting, One
  <2> HIDE DEF w, any
  <2> QED BY <1>0, <2>1, <2>2, OneByOne
<1>4. NegotiatorReads("configuration_finished") = Client17
  BY <1>1 DEF NegotiatorReads, Client17
<1>5. NegotiatorReads("login_success") =
        IF ~Acknowledged THEN Client18 ELSE IF Terminal = "login" THEN Returning ELSE Client10
  <2> DEFINE w == Write("login_acknowledged") x == IF Terminal = "configuration" THEN Return ELSE any
  <2>1. w \in Steps /\ x \in Steps
    BY <1>0, StepsAre, PacketsAre
  <2>2. NegotiatorReads("login_success") =
          IF ~Acknowledged THEN Reached ELSE IF Terminal = "login" THEN Returning ELSE Two(w, x)
    BY DEF NegotiatorReads, Two, Returning
  <2>3. Client10 = One(w) \o One(x)
    BY DEF Client10, Behind10, Awaiting, Returning, One
  <2> HIDE DEF w, x
  <2> QED BY <1>1, <2>1, <2>2, <2>3, OneByOne
<1>6. NegotiatorReads("set_compression") = Awaiting /\ NegotiatorReads("registry_data") = Awaiting
  BY DEF NegotiatorReads, Awaiting
<1> QED BY <1>2, <1>3, <1>4, <1>5, <1>6

(* A read is answered by what is done next, whatever was left behind it.             *)
LEMMA ClientSteps ==
  ASSUME NEW n, MayBe("client", n), n \notin Last("client")
  PROVE  /\ ~ReadsAt("client", n) => Leads(ClientRest(n), ClientStep(n), ClientRest(ClientNext(n)))
         /\ ReadsAt("client", n) =>
              /\ Leads(ClientRest(n), Read("any"), Nothing) /\ ClientStep(n) = Read("any")
              /\ NegotiatorReads(ClientAwaits(n)) = ClientRest(ClientNext(n))
<1>0. n \in 0..19 /\ n \notin {9, 12} /\ ClientMayBe(n)
  BY DEF MayBe, Places, Last
<1>1. Leads(Awaiting, Read("any"), Nothing)
  BY StepsAre, Led DEF Awaiting
<1>2. Leads(Returning, Return, Nothing)
  BY StepsAre, Led DEF Returning
<1>3. Leads(Playing, Write("game"), Nothing)
  <2>1. Write("game") \in Steps
    BY StepsAre, PacketsAre
  <2> QED BY <2>1, Led DEF Playing
<1>4. Leads(Client18, Return, Playing)
  <2>1. Playing \in Seq(Steps)
    BY Led, <1>3
  <2>2. Return \in Steps
    BY StepsAre, PacketsAre
  <2> QED BY <2>1, <2>2, Led DEF Client18
<1>5. Leads(Client17, Write("configuration_finished"), Client18)
  <2>1. Client18 \in Seq(Steps)
    BY Led, <1>4
  <2>2. Write("configuration_finished") \in Steps
    BY StepsAre, PacketsAre
  <2> QED BY <2>1, <2>2, Led DEF Client17
<1>6. Leads(Client14, Write("known_packs"), Awaiting)
  <2>1. Awaiting \in Seq(Steps)
    BY Led, <1>1
  <2>2. Write("known_packs") \in Steps
    BY StepsAre, PacketsAre
  <2> QED BY <2>1, <2>2, Led DEF Client14
<1>7. Leads(Client10, Write("login_acknowledged"), Behind10)
  <2>1. Behind10 \in Seq(Steps)
    BY Led, <1>1, <1>2 DEF Behind10
  <2>2. Write("login_acknowledged") \in Steps
    BY StepsAre, PacketsAre
  <2> QED BY <2>1, <2>2, Led DEF Client10
<1>8. Leads(Client5, Control("outbound"), Awaiting)
  <2>1. Awaiting \in Seq(Steps)
    BY Led, <1>1
  <2>2. Control("outbound") \in Steps
    BY StepsAre, PacketsAre
  <2> QED BY <2>1, <2>2, Led DEF Client5
<1>9. Leads(Client4, Write("encryption_response"), Client5)
  <2>1. Client5 \in Seq(Steps)
    BY Led, <1>8
  <2>2. Write("encryption_response") \in Steps
    BY StepsAre, PacketsAre
  <2> QED BY <2>1, <2>2, Led DEF Client4
<1>10. Leads(Client3, Control("inbound"), Client4)
  <2>1. Client4 \in Seq(Steps)
    BY Led, <1>9
  <2>2. Control("inbound") \in Steps
    BY StepsAre, PacketsAre
  <2> QED BY <2>1, <2>2, Led DEF Client3
<1>11. Leads(Client2, Join, Client3)
  <2>1. Client3 \in Seq(Steps)
    BY Led, <1>10
  <2>2. Join \in Steps
    BY StepsAre, PacketsAre
  <2> QED BY <2>1, <2>2, Led DEF Client2
<1>12. Leads(Client0, Write("login_start"), Awaiting)
  <2>1. Awaiting \in Seq(Steps)
    BY Led, <1>1
  <2>2. Write("login_start") \in Steps
    BY StepsAre, PacketsAre
  <2> QED BY <2>1, <2>2, Led DEF Client0
<1>13. CASE n = 0
  <2>1. ClientRest(n) = Client0 /\ ClientStep(n) = Write("login_start")
    BY <1>13 DEF ClientRest, ClientStep
  <2>2. ClientRest(ClientNext(n)) = Awaiting /\ ~ReadsAt("client", n)
    BY <1>0, <1>13 DEF ClientMayBe, ClientRest, ClientNext, ReadsAt, AfterKeys
  <2> QED BY <2>1, <2>2, <1>12, Zenon
<1>14. CASE n = 1
  <2>1. ReadsAt("client", n) /\ ClientStep(n) = Read("any") /\ ClientAwaits(n) = "encryption_request"
    BY <1>14 DEF ReadsAt, ClientStep, ClientAwaits
  <2>2. ClientRest(n) = Awaiting
    BY <1>14 DEF ClientRest
  <2>3. NegotiatorReads("encryption_request") = Client2
    BY NegotiatorAnswers, Zenon
  <2>4. ClientRest(ClientNext(n)) = Client2
    BY <1>0, <1>14 DEF ClientMayBe, ClientRest, ClientNext
  <2> QED BY <1>1, <2>1, <2>2, <2>3, <2>4, Zenon
<1>15. CASE n = 2
  <2>1. ClientRest(n) = Client2 /\ ClientStep(n) = Join
    BY <1>15 DEF ClientRest, ClientStep
  <2>2. ClientRest(ClientNext(n)) = Client3 /\ ~ReadsAt("client", n)
    BY <1>0, <1>15 DEF ClientMayBe, ClientRest, ClientNext, ReadsAt
  <2> QED BY <2>1, <2>2, <1>11, Zenon
<1>16. CASE n = 3
  <2>1. ClientRest(n) = Client3 /\ ClientStep(n) = Control("inbound")
    BY <1>16 DEF ClientRest, ClientStep
  <2>2. ClientRest(ClientNext(n)) = Client4 /\ ~ReadsAt("client", n)
    BY <1>0, <1>16 DEF ClientMayBe, ClientRest, ClientNext, ReadsAt
  <2> QED BY <2>1, <2>2, <1>10, Zenon
<1>17. CASE n = 4
  <2>1. ClientRest(n) = Client4 /\ ClientStep(n) = Write("encryption_response")
    BY <1>17 DEF ClientRest, ClientStep
  <2>2. ClientRest(ClientNext(n)) = Client5 /\ ~ReadsAt("client", n)
    BY <1>0, <1>17 DEF ClientMayBe, ClientRest, ClientNext, ReadsAt
  <2> QED BY <2>1, <2>2, <1>9, Zenon
<1>18. CASE n = 5
  <2>1. ClientRest(n) = Client5 /\ ClientStep(n) = Control("outbound")
    BY <1>18 DEF ClientRest, ClientStep
  <2>2. ClientRest(ClientNext(n)) = Awaiting /\ ~ReadsAt("client", n)
    BY <1>0, <1>18 DEF ClientMayBe, ClientRest, ClientNext, ReadsAt, AfterKeys
  <2> QED BY <2>1, <2>2, <1>8, Zenon
<1>19. CASE n = 6
  <2>1. ReadsAt("client", n) /\ ClientStep(n) = Read("any") /\ ClientAwaits(n) = "set_compression"
    BY <1>19 DEF ReadsAt, ClientStep, ClientAwaits
  <2>2. ClientRest(n) = Awaiting
    BY <1>19 DEF ClientRest
  <2>3. NegotiatorReads("set_compression") = Awaiting
    BY NegotiatorAnswers, Zenon
  <2>4. ClientRest(ClientNext(n)) = Awaiting
    BY <1>0, <1>19 DEF ClientMayBe, ClientRest, ClientNext
  <2> QED BY <1>1, <2>1, <2>2, <2>3, <2>4, Zenon
<1>20. CASE n = 7
  <2>1. ReadsAt("client", n) /\ ClientStep(n) = Read("any") /\ ClientAwaits(n) = "login_success"
    BY <1>20 DEF ReadsAt, ClientStep, ClientAwaits
  <2>2. ClientRest(n) = Awaiting
    BY <1>20 DEF ClientRest
  <2>3. NegotiatorReads("login_success") = (IF ~Acknowledged THEN Client18 ELSE IF Terminal = "login" THEN Returning ELSE Client10)
    BY NegotiatorAnswers, Zenon
  <2>4. ClientRest(ClientNext(n)) = (IF ~Acknowledged THEN Client18 ELSE IF Terminal = "login" THEN Returning ELSE Client10)
    BY <1>0, <1>20 DEF ClientMayBe, ClientRest, ClientNext
  <2> QED BY <1>1, <2>1, <2>2, <2>3, <2>4, Zenon
<1>21. CASE n = 8
  <2>1. ClientRest(n) = Returning /\ ClientStep(n) = Return
    BY <1>21 DEF ClientRest, ClientStep
  <2>2. ClientRest(ClientNext(n)) = Nothing /\ ~ReadsAt("client", n)
    BY <1>0, <1>21 DEF ClientMayBe, ClientRest, ClientNext, ReadsAt
  <2> QED BY <2>1, <2>2, <1>2, Zenon
<1>22. CASE n = 10
  <2>1. ClientRest(n) = Client10 /\ ClientStep(n) = Write("login_acknowledged")
    BY <1>22 DEF ClientRest, ClientStep
  <2>2. ClientRest(ClientNext(n)) = Behind10 /\ ~ReadsAt("client", n)
    BY <1>0, <1>22 DEF ClientMayBe, ClientRest, ClientNext, ReadsAt, Behind10
  <2> QED BY <2>1, <2>2, <1>7, Zenon
<1>23. CASE n = 11
  <2>1. ClientRest(n) = Returning /\ ClientStep(n) = Return
    BY <1>23 DEF ClientRest, ClientStep
  <2>2. ClientRest(ClientNext(n)) = Nothing /\ ~ReadsAt("client", n)
    BY <1>0, <1>23 DEF ClientMayBe, ClientRest, ClientNext, ReadsAt
  <2> QED BY <2>1, <2>2, <1>2, Zenon
<1>24. CASE n = 13
  <2>1. ReadsAt("client", n) /\ ClientStep(n) = Read("any") /\ ClientAwaits(n) = "known_packs"
    BY <1>24 DEF ReadsAt, ClientStep, ClientAwaits
  <2>2. ClientRest(n) = Awaiting
    BY <1>24 DEF ClientRest
  <2>3. NegotiatorReads("known_packs") = Client14
    BY NegotiatorAnswers, Zenon
  <2>4. ClientRest(ClientNext(n)) = Client14
    BY <1>0, <1>24 DEF ClientMayBe, ClientRest, ClientNext
  <2> QED BY <1>1, <2>1, <2>2, <2>3, <2>4, Zenon
<1>25. CASE n = 14
  <2>1. ClientRest(n) = Client14 /\ ClientStep(n) = Write("known_packs")
    BY <1>25 DEF ClientRest, ClientStep
  <2>2. ClientRest(ClientNext(n)) = Awaiting /\ ~ReadsAt("client", n)
    BY <1>0, <1>25 DEF ClientMayBe, ClientRest, ClientNext, ReadsAt
  <2> QED BY <2>1, <2>2, <1>6, Zenon
<1>26. CASE n = 15
  <2>1. ReadsAt("client", n) /\ ClientStep(n) = Read("any") /\ ClientAwaits(n) = "registry_data"
    BY <1>26 DEF ReadsAt, ClientStep, ClientAwaits
  <2>2. ClientRest(n) = Awaiting
    BY <1>26 DEF ClientRest
  <2>3. NegotiatorReads("registry_data") = Awaiting
    BY NegotiatorAnswers, Zenon
  <2>4. ClientRest(ClientNext(n)) = Awaiting
    BY <1>0, <1>26 DEF ClientMayBe, ClientRest, ClientNext
  <2> QED BY <1>1, <2>1, <2>2, <2>3, <2>4, Zenon
<1>27. CASE n = 16
  <2>1. ReadsAt("client", n) /\ ClientStep(n) = Read("any") /\ ClientAwaits(n) = "configuration_finished"
    BY <1>27 DEF ReadsAt, ClientStep, ClientAwaits
  <2>2. ClientRest(n) = Awaiting
    BY <1>27 DEF ClientRest
  <2>3. NegotiatorReads("configuration_finished") = Client17
    BY NegotiatorAnswers, Zenon
  <2>4. ClientRest(ClientNext(n)) = Client17
    BY <1>0, <1>27 DEF ClientMayBe, ClientRest, ClientNext
  <2> QED BY <1>1, <2>1, <2>2, <2>3, <2>4, Zenon
<1>28. CASE n = 17
  <2>1. ClientRest(n) = Client17 /\ ClientStep(n) = Write("configuration_finished")
    BY <1>28 DEF ClientRest, ClientStep
  <2>2. ClientRest(ClientNext(n)) = Client18 /\ ~ReadsAt("client", n)
    BY <1>0, <1>28 DEF ClientMayBe, ClientRest, ClientNext, ReadsAt
  <2> QED BY <2>1, <2>2, <1>5, Zenon
<1>29. CASE n = 18
  <2>1. ClientRest(n) = Client18 /\ ClientStep(n) = Return
    BY <1>29 DEF ClientRest, ClientStep
  <2>2. ClientRest(ClientNext(n)) = Playing /\ ~ReadsAt("client", n)
    BY <1>0, <1>29 DEF ClientMayBe, ClientRest, ClientNext, ReadsAt
  <2> QED BY <2>1, <2>2, <1>4, Zenon
<1>30. CASE n = 19
  <2>1. ClientRest(n) = Playing /\ ClientStep(n) = Write("game")
    BY <1>30 DEF ClientRest, ClientStep
  <2>2. ClientRest(ClientNext(n)) = Nothing /\ ~ReadsAt("client", n)
    BY <1>0, <1>30 DEF ClientMayBe, ClientRest, ClientNext, ReadsAt
  <2> QED BY <2>1, <2>2, <1>3, Zenon
<1> QED BY <1>0, <1>13, <1>14, <1>15, <1>16, <1>17, <1>18, <1>19, <1>20, <1>21,
           <1>22, <1>23, <1>24, <1>25, <1>26, <1>27, <1>28, <1>29, <1>30

-----------------------------------------------------------------------------
(* How far an end has come shows how much it has written and read, and the other way   *)
(* round.                                                                     *)
Top(e, n) == Sent(e, n) + (IF WritesAt(e, n) THEN 1 ELSE 0)

LEMMA ClientProfile ==
  ASSUME NEW n, MayBe("client", n)
  PROVE  LET x == Had("client", n)  y == Sent("client", n)  z == Top("client", n) IN
         /\ x \in Nat /\ y \in Nat /\ z \in {y, y + 1}
         /\ Online /\ n <= 3 => z <= 1
         /\ Online /\ n >= 2 => x >= 1
         /\ Online /\ n = 3 => x = 1
         /\ Online /\ n = 5 => y = 2 /\ z = 2
         /\ Online /\ z >= 3 => n >= 10
         /\ Online /\ WritesAt("client", n) => (y >= 2 <=> n > 5)
         /\ x < 1 + Keyed + Shrinks => n <= 7 /\ z <= 1 + Keyed
         /\ Acknowledged /\ x < 3 + Keyed + Shrinks + Offers => n <= 16 /\ z <= 2 + Keyed + Offers
         /\ n >= 8 => x >= 1 + Keyed + Shrinks
         /\ z >= 2 + Keyed => n >= 10
         /\ ~Acknowledged /\ z >= 2 + Keyed => n >= 18
         /\ WritesAt("client", n) => (y >= 1 + Keyed <=> n >= 10)
         /\ Finished("client", n) => n >= 8
         /\ Finished("client", n) /\ Acknowledged /\ Terminal = "play" => x = 3 + Keyed + Shrinks + Offers /\ y >= 3 + Keyed + Offers
<1>0. n \in 0..20 /\ ClientMayBe(n)
  BY DEF MayBe, Places
<1>1. CASE n = 0
  BY <1>0, <1>1, SettingNumbers DEF ClientMayBe, Had, Sent, Top, Past, WritesAt, Finished
<1>2. CASE n = 1
  BY <1>0, <1>2, SettingNumbers DEF ClientMayBe, Had, Sent, Top, Past, WritesAt, Finished
<1>3. CASE n = 2
  BY <1>0, <1>3, SettingNumbers DEF ClientMayBe, Had, Sent, Top, Past, WritesAt, Finished
<1>4. CASE n = 3
  BY <1>0, <1>4, SettingNumbers DEF ClientMayBe, Had, Sent, Top, Past, WritesAt, Finished
<1>5. CASE n = 4
  BY <1>0, <1>5, SettingNumbers DEF ClientMayBe, Had, Sent, Top, Past, WritesAt, Finished
<1>6. CASE n = 5
  BY <1>0, <1>6, SettingNumbers DEF ClientMayBe, Had, Sent, Top, Past, WritesAt, Finished
<1>7. CASE n = 6
  BY <1>0, <1>7, SettingNumbers DEF ClientMayBe, Had, Sent, Top, Past, WritesAt, Finished
<1>8. CASE n = 7
  BY <1>0, <1>8, SettingNumbers DEF ClientMayBe, Had, Sent, Top, Past, WritesAt, Finished
<1>9. CASE n = 8
  BY <1>0, <1>9, SettingNumbers DEF ClientMayBe, Had, Sent, Top, Past, WritesAt, Finished
<1>10. CASE n = 9
  BY <1>0, <1>10, SettingNumbers DEF ClientMayBe, Had, Sent, Top, Past, WritesAt, Finished
<1>11. CASE n = 10
  BY <1>0, <1>11, SettingNumbers DEF ClientMayBe, Had, Sent, Top, Past, WritesAt, Finished
<1>12. CASE n = 11
  BY <1>0, <1>12, SettingNumbers DEF ClientMayBe, Had, Sent, Top, Past, WritesAt, Finished
<1>13. CASE n = 12
  BY <1>0, <1>13, SettingNumbers DEF ClientMayBe, Had, Sent, Top, Past, WritesAt, Finished
<1>14. CASE n = 13
  BY <1>0, <1>14, SettingNumbers DEF ClientMayBe, Had, Sent, Top, Past, WritesAt, Finished
<1>15. CASE n = 14
  BY <1>0, <1>15, SettingNumbers DEF ClientMayBe, Had, Sent, Top, Past, WritesAt, Finished
<1>16. CASE n = 15
  BY <1>0, <1>16, SettingNumbers DEF ClientMayBe, Had, Sent, Top, Past, WritesAt, Finished
<1>17. CASE n = 16
  BY <1>0, <1>17, SettingNumbers DEF ClientMayBe, Had, Sent, Top, Past, WritesAt, Finished
<1>18. CASE n = 17
  BY <1>0, <1>18, SettingNumbers DEF ClientMayBe, Had, Sent, Top, Past, WritesAt, Finished
<1>19. CASE n = 18
  BY <1>0, <1>19, SettingNumbers DEF ClientMayBe, Had, Sent, Top, Past, WritesAt, Finished
<1>20. CASE n = 19
  BY <1>0, <1>20, SettingNumbers DEF ClientMayBe, Had, Sent, Top, Past, WritesAt, Finished
<1>21. CASE n = 20
  BY <1>0, <1>21, SettingNumbers DEF ClientMayBe, Had, Sent, Top, Past, WritesAt, Finished
<1>22. \/ n = 0 \/ n = 1 \/ n = 2 \/ n = 3 \/ n = 4 \/ n = 5 \/ n = 6 \/ n = 7 \/ n = 8 \/ n = 9 \/ n = 10
       \/ n = 11 \/ n = 12 \/ n = 13 \/ n = 14 \/ n = 15 \/ n = 16 \/ n = 17 \/ n = 18 \/ n = 19 \/ n = 20
  BY <1>0
<1> QED BY ZenonT(60), <1>1, <1>2, <1>3, <1>4, <1>5, <1>6, <1>7, <1>8, <1>9, <1>10,
           <1>11, <1>12, <1>13, <1>14, <1>15, <1>16, <1>17, <1>18, <1>19, <1>20,
           <1>21, <1>22

LEMMA ServerProfile ==
  ASSUME NEW n, MayBe("server", n)
  PROVE  LET x == Had("server", n)  y == Sent("server", n)  z == Top("server", n) IN
         /\ x \in Nat /\ y \in Nat /\ z \in {y, y + 1}
         /\ Online /\ n >= 3 => x >= 2
         /\ Online /\ n = 3 => x = 2 /\ z = 1
         /\ n = 4 => Online /\ x = 2 /\ y = 1 /\ z = 1
         /\ Online /\ z >= 2 => n >= 5
         /\ Online /\ WritesAt("server", n) => (y >= 1 <=> n > 3)
         /\ x <= Keyed => z <= Keyed
         /\ Acknowledged /\ x < 2 + Keyed => z <= 1 + Keyed + Shrinks
         /\ Acknowledged /\ x < 3 + Keyed + Offers => z <= 3 + Keyed + Shrinks + Offers
         /\ Acknowledged /\ WritesAt("server", n) /\ y >= 1 + Keyed + Shrinks => x >= 2 + Keyed
         /\ Acknowledged /\ WritesAt("server", n) /\ y >= 3 + Keyed + Shrinks + Offers => x >= 3 + Keyed + Offers
         /\ Acknowledged /\ n >= 13 => x >= 3 + Keyed + Offers
         /\ n >= 13 => y >= 1 + Keyed + Shrinks
         /\ ~Acknowledged => x <= 1 + Keyed
<1>0. n \in 0..16 /\ ServerMayBe(n)
  BY DEF MayBe, Places
<1>1. CASE n = 0
  BY <1>0, <1>1, SettingNumbers DEF ServerMayBe, Had, Sent, Top, Past, WritesAt, Finished
<1>2. CASE n = 1
  BY <1>0, <1>2, SettingNumbers DEF ServerMayBe, Had, Sent, Top, Past, WritesAt, Finished
<1>3. CASE n = 2
  BY <1>0, <1>3, SettingNumbers DEF ServerMayBe, Had, Sent, Top, Past, WritesAt, Finished
<1>4. CASE n = 3
  BY <1>0, <1>4, SettingNumbers DEF ServerMayBe, Had, Sent, Top, Past, WritesAt, Finished
<1>5. CASE n = 4
  BY <1>0, <1>5, SettingNumbers DEF ServerMayBe, Had, Sent, Top, Past, WritesAt, Finished
<1>6. CASE n = 5
  BY <1>0, <1>6, SettingNumbers DEF ServerMayBe, Had, Sent, Top, Past, WritesAt, Finished
<1>7. CASE n = 6
  BY <1>0, <1>7, SettingNumbers DEF ServerMayBe, Had, Sent, Top, Past, WritesAt, Finished
<1>8. CASE n = 7
  BY <1>0, <1>8, SettingNumbers DEF ServerMayBe, Had, Sent, Top, Past, WritesAt, Finished
<1>9. CASE n = 8
  BY <1>0, <1>9, SettingNumbers DEF ServerMayBe, Had, Sent, Top, Past, WritesAt, Finished
<1>10. CASE n = 9
  BY <1>0, <1>10, SettingNumbers DEF ServerMayBe, Had, Sent, Top, Past, WritesAt, Finished
<1>11. CASE n = 10
  BY <1>0, <1>11, SettingNumbers DEF ServerMayBe, Had, Sent, Top, Past, WritesAt, Finished
<1>12. CASE n = 11
  BY <1>0, <1>12, SettingNumbers DEF ServerMayBe, Had, Sent, Top, Past, WritesAt, Finished
<1>13. CASE n = 12
  BY <1>0, <1>13, SettingNumbers DEF ServerMayBe, Had, Sent, Top, Past, WritesAt, Finished
<1>14. CASE n = 13
  BY <1>0, <1>14, SettingNumbers DEF ServerMayBe, Had, Sent, Top, Past, WritesAt, Finished
<1>15. CASE n = 14
  BY <1>0, <1>15, SettingNumbers DEF ServerMayBe, Had, Sent, Top, Past, WritesAt, Finished
<1>16. CASE n = 15
  BY <1>0, <1>16, SettingNumbers DEF ServerMayBe, Had, Sent, Top, Past, WritesAt, Finished
<1>17. CASE n = 16
  BY <1>0, <1>17, SettingNumbers DEF ServerMayBe, Had, Sent, Top, Past, WritesAt, Finished
<1>18. \/ n = 0 \/ n = 1 \/ n = 2 \/ n = 3 \/ n = 4 \/ n = 5 \/ n = 6 \/ n = 7 \/ n = 8 \/ n = 9 \/ n = 10
       \/ n = 11 \/ n = 12 \/ n = 13 \/ n = 14 \/ n = 15 \/ n = 16
  BY <1>0
<1> QED BY ZenonT(60), <1>1, <1>2, <1>3, <1>4, <1>5, <1>6, <1>7, <1>8, <1>9, <1>10,
           <1>11, <1>12, <1>13, <1>14, <1>15, <1>16, <1>17, <1>18

(* What the places of both ends say about how far the other can be: a and b are the     *)
(* frames that the client and the server have written, i and j those that each has       *)
(* decoded of the other's.                                                       *)
Between(c, s, a, b, i, j) ==
  /\ MayBe("client", c) /\ MayBe("server", s)
  /\ a \in Nat /\ b \in Nat /\ i \in Nat /\ j \in Nat
  /\ Sent("client", c) <= a /\ a <= Top("client", c)
  /\ Sent("server", s) <= b /\ (b <= Top("server", s) \/ (Denied /\ b <= 2))
  /\ Denied => s = 4
  /\ Had("client", c) <= i /\ i <= b /\ Had("client", c) <= (IF Denied THEN 1 ELSE b)
  /\ Had("server", s) <= j /\ j <= a

LEMMA InStep ==
  ASSUME NEW c, NEW s, NEW a, NEW b, NEW i, NEW j, Between(c, s, a, b, i, j)
  PROVE
    LET k == Keyed  z == Shrinks  o == Offers  g == IF Denied THEN 1 ELSE b IN
    /\ Online /\ i < b => (i >= 1 <=> c > 3) /\ c # 3
    /\ Online /\ j < a => (j >= 2 <=> s > 3) /\ s # 3
    /\ Acknowledged /\ i < b /\ ~(Denied /\ i = 1) =>
         (i < 1 + k + z <=> a < 2 + k) /\ (i < 3 + k + z + o <=> a < 3 + k + o)
    /\ j < a => (j < 1 + k <=> g < 1 + k + z) /\ (j < 1 + k <=> g < 1 + k)
    /\ WritesAt("client", c) /\ a = Sent("client", c) =>
         (a < 1 + k <=> AtMost(i, g) < 1 + k) /\ (a < 1 + k <=> AtMost(i, g) < 1 + k + z)
    /\ Acknowledged /\ WritesAt("server", s) /\ b = Sent("server", s) =>
         (b < 1 + k + z <=> j < 2 + k) /\ (b < 3 + k + z + o <=> j < 3 + k + o)
    /\ Online /\ c = 3 => i = b
    /\ Online /\ s = 3 => j = a
    /\ Denied => a <= 2 /\ c <= 7 /\ b >= 1 /\ Online
    /\ s >= 13 => (Acknowledged => j >= 3 + k + o) /\ b >= 1 + k + z /\ ~Denied
<1> DEFINE k == Keyed  z == Shrinks  o == Offers  g == IF Denied THEN 1 ELSE b
           x == Had("client", c)  y == Sent("client", c)  t == Top("client", c)
           u == Had("server", s)  v == Sent("server", s)  w == Top("server", s)
<1>0. /\ a \in Nat /\ b \in Nat /\ i \in Nat /\ j \in Nat
      /\ y <= a /\ a <= t /\ v <= b /\ (b <= w \/ (Denied /\ b <= 2)) /\ (Denied => s = 4)
      /\ x <= i /\ i <= b /\ x <= g /\ u <= j /\ j <= a
      /\ MayBe("client", c) /\ MayBe("server", s)
  BY DEF Between
<1>1. /\ x \in Nat /\ y \in Nat /\ t \in {y, y + 1} /\ c \in 0..20
      /\ Online /\ c <= 3 => t <= 1
      /\ Online /\ c >= 2 => x >= 1
      /\ Online /\ c = 3 => x = 1
      /\ Online /\ t >= 3 => c >= 10
      /\ x < 1 + k + z => c <= 7 /\ t <= 1 + k
      /\ Acknowledged /\ x < 3 + k + z + o => c <= 16 /\ t <= 2 + k + o
      /\ c >= 8 => x >= 1 + k + z
      /\ t >= 2 + k => c >= 10
      /\ ~Acknowledged /\ t >= 2 + k => c >= 18
      /\ WritesAt("client", c) => (y >= 1 + k <=> c >= 10)
  BY <1>0, ClientProfile DEF MayBe, Places
<1>2. /\ u \in Nat /\ v \in Nat /\ w \in {v, v + 1} /\ s \in 0..16
      /\ Online /\ s >= 3 => u >= 2
      /\ Online /\ s = 3 => u = 2 /\ w = 1
      /\ s = 4 => Online /\ u = 2 /\ v = 1 /\ w = 1
      /\ Online /\ w >= 2 => s >= 5
      /\ u <= k => w <= k
      /\ Acknowledged /\ u < 2 + k => w <= 1 + k + z
      /\ Acknowledged /\ u < 3 + k + o => w <= 3 + k + z + o
      /\ Acknowledged /\ WritesAt("server", s) /\ v >= 1 + k + z => u >= 2 + k
      /\ Acknowledged /\ WritesAt("server", s) /\ v >= 3 + k + z + o => u >= 3 + k + o
      /\ Acknowledged /\ s >= 13 => u >= 3 + k + o
      /\ s >= 13 => v >= 1 + k + z
  BY <1>0, ServerProfile DEF MayBe, Places
<1>3. /\ k \in {0, 1} /\ z \in {0, 1} /\ o \in {0, 1} /\ (Online <=> k = 1)
  BY SettingNumbers
<1> HIDE DEF k, z, o, x, y, t, u, v, w
<1>5. Online /\ i < b => (i >= 1 <=> c > 3) /\ c # 3
  BY <1>0, <1>1, <1>2, <1>3
<1>6. Online /\ j < a => (j >= 2 <=> s > 3) /\ s # 3
  BY <1>0, <1>1, <1>2, <1>3
<1>7. Acknowledged /\ i < b /\ ~(Denied /\ i = 1) =>
        (i < 1 + k + z <=> a < 2 + k) /\ (i < 3 + k + z + o <=> a < 3 + k + o)
  BY <1>0, <1>1, <1>2, <1>3
<1>8. j < a => (j < 1 + k <=> g < 1 + k + z) /\ (j < 1 + k <=> g < 1 + k)
  BY <1>0, <1>1, <1>2, <1>3
<1>9. WritesAt("client", c) /\ a = y =>
        (a < 1 + k <=> AtMost(i, g) < 1 + k) /\ (a < 1 + k <=> AtMost(i, g) < 1 + k + z)
  BY <1>0, <1>1, <1>2, <1>3 DEF AtMost
<1>10. Acknowledged /\ WritesAt("server", s) /\ b = v =>
         (b < 1 + k + z <=> j < 2 + k) /\ (b < 3 + k + z + o <=> j < 3 + k + o)
  BY <1>0, <1>1, <1>2, <1>3
<1>11. (Online /\ c = 3 => i = b) /\ (Online /\ s = 3 => j = a)
  BY <1>0, <1>1, <1>2, <1>3
<1>12. Denied => a <= 2 /\ c <= 7 /\ b >= 1 /\ Online
  BY <1>0, <1>1, <1>2, <1>3
<1>13. s >= 13 => (Acknowledged => j >= 3 + k + o) /\ b >= 1 + k + z /\ ~Denied
  BY <1>0, <1>1, <1>2, <1>3
<1> QED BY <1>5, <1>6, <1>7, <1>8, <1>9, <1>10, <1>11, <1>12, <1>13 DEF k, z, o, y, v
-----------------------------------------------------------------------------
(* Packets and sessions: the state that a packet belongs to, and where a packet moves   *)
(* the session of an end that has written, or read, all before it.                   *)
LEMMA PacketStates ==
  ASSUME NEW i \in Nat, i >= 1
  PROVE  /\ PacketOf("client", i) \in Packets \ {"disconnect"}
         /\ PacketOf("server", i) \in Packets \ {"disconnect"}
         /\ StateOf(PacketOf("client", i)) =
              IF Acknowledged
              THEN IF i <= 2 + Keyed THEN "login"
                   ELSE IF i <= 3 + Keyed + Offers THEN "configuration" ELSE "play"
              ELSE IF i <= 1 + Keyed THEN "login" ELSE "play"
         /\ StateOf(PacketOf("server", i)) =
              IF i <= 1 + Keyed + Shrinks THEN "login"
              ELSE IF Acknowledged /\ i <= 3 + Keyed + Shrinks + Offers THEN "configuration" ELSE "play"
<1>1. /\ PacketOf("client", i) \in Packets \ {"disconnect"}
      /\ PacketOf("server", i) \in Packets \ {"disconnect"}
  BY PacketsAre DEF PacketOf
<1>2. /\ \A p \in LoginPackets : StateOf(p) = "login"
      /\ \A p \in ConfigurationPackets : StateOf(p) = "configuration"
      /\ StateOf("game") = "play"
  BY DEF StateOf, LoginPackets, ConfigurationPackets
<1>3. LET q == PacketOf("client", i) IN
      /\ q \in LoginPackets <=> i <= (IF Acknowledged THEN 2 ELSE 1) + Keyed
      /\ q \in ConfigurationPackets <=> Acknowledged /\ i > 2 + Keyed /\ i <= 3 + Keyed + Offers
      /\ q \notin LoginPackets \cup ConfigurationPackets => q = "game"
  BY SettingNumbers DEF PacketOf, LoginPackets, ConfigurationPackets
<1>4. LET q == PacketOf("server", i) IN
      /\ q \in LoginPackets <=> i <= 1 + Keyed + Shrinks
      /\ q \in ConfigurationPackets <=>
           Acknowledged /\ i > 1 + Keyed + Shrinks /\ i <= 3 + Keyed + Shrinks + Offers
      /\ q \notin LoginPackets \cup ConfigurationPackets => q = "game"
  BY SettingNumbers DEF PacketOf, LoginPackets, ConfigurationPackets
<1> QED BY <1>1, <1>2, <1>3, <1>4, SettingNumbers

LEMMA MovingPackets ==
  ASSUME NEW i \in Nat, i >= 1
  PROVE  /\ PacketOf("client", i) \notin {"set_compression", "login_success"}
         /\ PacketOf("client", i) = "login_acknowledged" <=> Acknowledged /\ i = 2 + Keyed
         /\ PacketOf("client", i) = "configuration_finished" <=>
              Acknowledged /\ i = 3 + Keyed + Offers
         /\ PacketOf("server", i) # "login_acknowledged"
         /\ PacketOf("server", i) = "set_compression" <=> Compresses /\ i = 1 + Keyed
         /\ PacketOf("server", i) = "login_success" <=> i = 1 + Keyed + Shrinks
BY SettingNumbers DEF PacketOf

LEMMA SessionStates ==
  ASSUME NEW e, NEW said, NEW heard
  PROVE  /\ SessionAt(e, said, heard) \in Sessions
         /\ SessionAt(e, said, heard).state = StateAt(Moved(e, said, heard))
         /\ (SessionAt(e, said, heard).compressed <=> Compresses /\ (IF e = "client" THEN heard ELSE said) >= 1 + Keyed)
<1>1. StateAt(Moved(e, said, heard)) \in States
  BY DEF StateAt, States
<1> QED BY <1>1 DEF SessionAt, Sessions

LEMMA Transitions ==
  ASSUME NEW x \in Sessions, NEW p, NEW from
  PROVE  /\ Transition(x, p, from) \in Sessions
         /\ (Transition(x, p, from).compressed <=> x.compressed \/ p = "set_compression")
         /\ p = "login_success" /\ ~Acknowledged => Transition(x, p, from).state = "play"
         /\ p = "login_acknowledged" => Transition(x, p, from).state = "configuration"
         /\ p = "configuration_finished" /\ from = "client" => Transition(x, p, from).state = "play"
         /\ ~(p = "login_success" /\ ~Acknowledged) /\ p # "login_acknowledged"
              /\ ~(p = "configuration_finished" /\ from = "client") => Transition(x, p, from).state = x.state
BY DEF Transition, Sessions, States

LEMMA SameSession ==
  ASSUME NEW x \in Sessions, NEW y \in Sessions, x.state = y.state, x.compressed <=> y.compressed
  PROVE  x = y
BY DEF Sessions

LEMMA Committed ==
  ASSUME NEW x \in Sessions, NEW z \in Sessions, NEW p, NEW from,
         (z.compressed <=> x.compressed \/ p = "set_compression"),
         p = "login_success" /\ ~Acknowledged => z.state = "play",
         p = "login_acknowledged" => z.state = "configuration",
         p = "configuration_finished" /\ from = "client" => z.state = "play",
         ~(p = "login_success" /\ ~Acknowledged) /\ p # "login_acknowledged"
           /\ ~(p = "configuration_finished" /\ from = "client") => z.state = x.state
  PROVE  Transition(x, p, from) = z
<1> DEFINE y == Transition(x, p, from)  ys == y.state  xs == x.state  zs == z.state
<1>1. y \in Sessions /\ (y.compressed <=> z.compressed)
  BY Transitions DEF Sessions
<1>2. /\ p = "login_success" /\ ~Acknowledged => ys = "play"
      /\ p = "login_acknowledged" => ys = "configuration"
      /\ p = "configuration_finished" /\ from = "client" => ys = "play"
      /\ ~(p = "login_success" /\ ~Acknowledged) /\ p # "login_acknowledged"
           /\ ~(p = "configuration_finished" /\ from = "client") => ys = xs
  BY Transitions, Zenon
<1>3. /\ p = "login_success" /\ ~Acknowledged => zs = "play"
      /\ p = "login_acknowledged" => zs = "configuration"
      /\ p = "configuration_finished" /\ from = "client" => zs = "play"
      /\ ~(p = "login_success" /\ ~Acknowledged) /\ p # "login_acknowledged"
           /\ ~(p = "configuration_finished" /\ from = "client") => zs = xs
  BY Zenon
<1>4. ys = zs
  <2> HIDE DEF y, ys, xs, zs
  <2> QED BY <1>2, <1>3
<1> QED BY <1>1, <1>4, SameSession, Zenon

LEMMA TheSessions ==
  ASSUME NEW said \in Nat, NEW heard \in Nat
  PROVE  /\ SessionAt("client", said, heard) \in Sessions
         /\ Acknowledged => SessionAt("client", said, heard).state = StateAt(said)
         /\ ~Acknowledged => SessionAt("client", said, heard).state = StateAt(heard)
         /\ (SessionAt("client", said, heard).compressed <=> Compresses /\ heard >= 1 + Keyed)
         /\ SessionAt("server", said, heard) \in Sessions
         /\ Acknowledged => SessionAt("server", said, heard).state = StateAt(heard)
         /\ ~Acknowledged => SessionAt("server", said, heard).state = StateAt(said)
         /\ (SessionAt("server", said, heard).compressed <=> Compresses /\ said >= 1 + Keyed)
<1>1. SessionAt("client", said, heard) \in Sessions /\ SessionAt("server", said, heard) \in Sessions
  BY SessionStates
<1>2. (SessionAt("client", said, heard).compressed <=> Compresses /\ heard >= 1 + Keyed)
  BY SessionStates
<1>3. (SessionAt("server", said, heard).compressed <=> Compresses /\ said >= 1 + Keyed)
  BY SessionStates
<1>4. Moved("client", said, heard) = (IF Acknowledged THEN said ELSE heard)
  BY DEF Moved
<1>5. Moved("server", said, heard) = (IF Acknowledged THEN heard ELSE said)
  BY DEF Moved
<1>6. SessionAt("client", said, heard).state = StateAt(Moved("client", said, heard))
  BY DEF SessionAt
<1>7. SessionAt("server", said, heard).state = StateAt(Moved("server", said, heard))
  BY DEF SessionAt
<1> QED BY <1>1, <1>2, <1>3, <1>4, <1>5, <1>6, <1>7, Zenon

LEMMA SessionMoves ==
  ASSUME NEW said \in Nat, NEW heard \in Nat
  PROVE  /\ Transition(SessionAt("client", said, heard), PacketOf("server", heard + 1), "server") =
              SessionAt("client", said, heard + 1)
         /\ Transition(SessionAt("server", said, heard), PacketOf("client", heard + 1), "client") =
              SessionAt("server", said, heard + 1)
         /\ Transition(SessionAt("client", said, heard), PacketOf("client", said + 1), "client") =
              SessionAt("client", said + 1, heard)
         /\ Transition(SessionAt("server", said, heard), PacketOf("server", said + 1), "server") =
              SessionAt("server", said + 1, heard)
<1>1. Transition(SessionAt("client", said, heard), PacketOf("server", heard + 1), "server") =
        SessionAt("client", said, heard + 1)
  <2> DEFINE x == SessionAt("client", said, heard)  p == PacketOf("server", heard + 1)
             z == SessionAt("client", said, heard + 1)  xs == x.state  zs == z.state
  <2>1. /\ x \in Sessions /\ (Acknowledged => xs = StateAt(said)) /\ (~Acknowledged => xs = StateAt(heard))
        /\ (x.compressed <=> Compresses /\ heard >= 1 + Keyed)
    BY TheSessions, Zenon
  <2>2. /\ p # "login_acknowledged"
        /\ p = "set_compression" <=> Compresses /\ heard + 1 = 1 + Keyed
        /\ p = "login_success" <=> heard + 1 = 1 + Keyed + Shrinks
    <3>1. heard + 1 \in Nat /\ heard + 1 >= 1
      OBVIOUS
    <3> QED BY <3>1, MovingPackets, Zenon
  <2>3. /\ z \in Sessions /\ (Acknowledged => zs = StateAt(said)) /\ (~Acknowledged => zs = StateAt(heard + 1))
        /\ (z.compressed <=> Compresses /\ heard + 1 >= 1 + Keyed)
    <3>1. said + 1 \in Nat /\ heard + 1 \in Nat
      OBVIOUS
    <3> QED BY <3>1, TheSessions, Zenon
  <2> HIDE DEF x, p, z, xs, zs
  <2>4. (z.compressed <=> x.compressed \/ p = "set_compression")
    BY <2>1, <2>2, <2>3, SettingNumbers DEF Sessions
  <2>5. /\ p = "login_success" /\ ~Acknowledged => zs = "play"
        /\ p = "login_acknowledged" => zs = "configuration"
        /\ p = "configuration_finished" /\ "server" = "client" => zs = "play"
    BY <2>1, <2>2, <2>3, SettingNumbers DEF StateAt, Sessions
  <2>6. ~(p = "login_success" /\ ~Acknowledged) /\ p # "login_acknowledged"
           /\ ~(p = "configuration_finished" /\ "server" = "client") => zs = xs
    BY <2>1, <2>2, <2>3, SettingNumbers DEF StateAt, Sessions
  <2>7. Transition(x, p, "server") = z
    BY <2>1, <2>3, <2>4, <2>5, <2>6, Committed, Zenon DEF xs, zs
  <2> QED BY <2>7 DEF x, p, z
<1>2. Transition(SessionAt("server", said, heard), PacketOf("client", heard + 1), "client") =
        SessionAt("server", said, heard + 1)
  <2> DEFINE x == SessionAt("server", said, heard)  p == PacketOf("client", heard + 1)
             z == SessionAt("server", said, heard + 1)  xs == x.state  zs == z.state
  <2>1. /\ x \in Sessions /\ (Acknowledged => xs = StateAt(heard)) /\ (~Acknowledged => xs = StateAt(said))
        /\ (x.compressed <=> Compresses /\ said >= 1 + Keyed)
    BY TheSessions, Zenon
  <2>2. /\ p \notin {"set_compression", "login_success"}
        /\ p = "login_acknowledged" <=> Acknowledged /\ heard + 1 = 2 + Keyed
        /\ p = "configuration_finished" <=> Acknowledged /\ heard + 1 = 3 + Keyed + Offers
    <3>1. heard + 1 \in Nat /\ heard + 1 >= 1
      OBVIOUS
    <3> QED BY <3>1, MovingPackets, Zenon
  <2>3. /\ z \in Sessions /\ (Acknowledged => zs = StateAt(heard + 1)) /\ (~Acknowledged => zs = StateAt(said))
        /\ (z.compressed <=> Compresses /\ said >= 1 + Keyed)
    <3>1. said + 1 \in Nat /\ heard + 1 \in Nat
      OBVIOUS
    <3> QED BY <3>1, TheSessions, Zenon
  <2> HIDE DEF x, p, z, xs, zs
  <2>4. (z.compressed <=> x.compressed \/ p = "set_compression")
    BY <2>1, <2>2, <2>3, SettingNumbers DEF Sessions
  <2>5. /\ p = "login_success" /\ ~Acknowledged => zs = "play"
        /\ p = "login_acknowledged" => zs = "configuration"
        /\ p = "configuration_finished" /\ "client" = "client" => zs = "play"
    BY <2>1, <2>2, <2>3, SettingNumbers DEF StateAt, Sessions
  <2>6. ~(p = "login_success" /\ ~Acknowledged) /\ p # "login_acknowledged"
           /\ ~(p = "configuration_finished" /\ "client" = "client") => zs = xs
    BY <2>1, <2>2, <2>3, SettingNumbers DEF StateAt, Sessions
  <2>7. Transition(x, p, "client") = z
    BY <2>1, <2>3, <2>4, <2>5, <2>6, Committed, Zenon DEF xs, zs
  <2> QED BY <2>7 DEF x, p, z
<1>3. Transition(SessionAt("client", said, heard), PacketOf("client", said + 1), "client") =
        SessionAt("client", said + 1, heard)
  <2> DEFINE x == SessionAt("client", said, heard)  p == PacketOf("client", said + 1)
             z == SessionAt("client", said + 1, heard)  xs == x.state  zs == z.state
  <2>1. /\ x \in Sessions /\ (Acknowledged => xs = StateAt(said)) /\ (~Acknowledged => xs = StateAt(heard))
        /\ (x.compressed <=> Compresses /\ heard >= 1 + Keyed)
    BY TheSessions, Zenon
  <2>2. /\ p \notin {"set_compression", "login_success"}
        /\ p = "login_acknowledged" <=> Acknowledged /\ said + 1 = 2 + Keyed
        /\ p = "configuration_finished" <=> Acknowledged /\ said + 1 = 3 + Keyed + Offers
    <3>1. said + 1 \in Nat /\ said + 1 >= 1
      OBVIOUS
    <3> QED BY <3>1, MovingPackets, Zenon
  <2>3. /\ z \in Sessions /\ (Acknowledged => zs = StateAt(said + 1)) /\ (~Acknowledged => zs = StateAt(heard))
        /\ (z.compressed <=> Compresses /\ heard >= 1 + Keyed)
    <3>1. said + 1 \in Nat /\ heard + 1 \in Nat
      OBVIOUS
    <3> QED BY <3>1, TheSessions, Zenon
  <2> HIDE DEF x, p, z, xs, zs
  <2>4. (z.compressed <=> x.compressed \/ p = "set_compression")
    BY <2>1, <2>2, <2>3, SettingNumbers DEF Sessions
  <2>5. /\ p = "login_success" /\ ~Acknowledged => zs = "play"
        /\ p = "login_acknowledged" => zs = "configuration"
        /\ p = "configuration_finished" /\ "client" = "client" => zs = "play"
    BY <2>1, <2>2, <2>3, SettingNumbers DEF StateAt, Sessions
  <2>6. ~(p = "login_success" /\ ~Acknowledged) /\ p # "login_acknowledged"
           /\ ~(p = "configuration_finished" /\ "client" = "client") => zs = xs
    BY <2>1, <2>2, <2>3, SettingNumbers DEF StateAt, Sessions
  <2>7. Transition(x, p, "client") = z
    BY <2>1, <2>3, <2>4, <2>5, <2>6, Committed, Zenon DEF xs, zs
  <2> QED BY <2>7 DEF x, p, z
<1>4. Transition(SessionAt("server", said, heard), PacketOf("server", said + 1), "server") =
        SessionAt("server", said + 1, heard)
  <2> DEFINE x == SessionAt("server", said, heard)  p == PacketOf("server", said + 1)
             z == SessionAt("server", said + 1, heard)  xs == x.state  zs == z.state
  <2>1. /\ x \in Sessions /\ (Acknowledged => xs = StateAt(heard)) /\ (~Acknowledged => xs = StateAt(said))
        /\ (x.compressed <=> Compresses /\ said >= 1 + Keyed)
    BY TheSessions, Zenon
  <2>2. /\ p # "login_acknowledged"
        /\ p = "set_compression" <=> Compresses /\ said + 1 = 1 + Keyed
        /\ p = "login_success" <=> said + 1 = 1 + Keyed + Shrinks
    <3>1. said + 1 \in Nat /\ said + 1 >= 1
      OBVIOUS
    <3> QED BY <3>1, MovingPackets, Zenon
  <2>3. /\ z \in Sessions /\ (Acknowledged => zs = StateAt(heard)) /\ (~Acknowledged => zs = StateAt(said + 1))
        /\ (z.compressed <=> Compresses /\ said + 1 >= 1 + Keyed)
    <3>1. said + 1 \in Nat /\ heard + 1 \in Nat
      OBVIOUS
    <3> QED BY <3>1, TheSessions, Zenon
  <2> HIDE DEF x, p, z, xs, zs
  <2>4. (z.compressed <=> x.compressed \/ p = "set_compression")
    BY <2>1, <2>2, <2>3, SettingNumbers DEF Sessions
  <2>5. /\ p = "login_success" /\ ~Acknowledged => zs = "play"
        /\ p = "login_acknowledged" => zs = "configuration"
        /\ p = "configuration_finished" /\ "server" = "client" => zs = "play"
    BY <2>1, <2>2, <2>3, SettingNumbers DEF StateAt, Sessions
  <2>6. ~(p = "login_success" /\ ~Acknowledged) /\ p # "login_acknowledged"
           /\ ~(p = "configuration_finished" /\ "server" = "client") => zs = xs
    BY <2>1, <2>2, <2>3, SettingNumbers DEF StateAt, Sessions
  <2>7. Transition(x, p, "server") = z
    BY <2>1, <2>3, <2>4, <2>5, <2>6, Committed, Zenon DEF xs, zs
  <2> QED BY <2>7 DEF x, p, z
<1> QED BY <1>1, <1>2, <1>3, <1>4

LEMMA RefusalMovesNothing ==
  ASSUME NEW x, NEW from
  PROVE  Transition(x, "disconnect", from) = x
BY DEF Transition
-----------------------------------------------------------------------------
(* The types of what a login is made of, which hold whatever its ends do.            *)
UnitSet  == [frame : Frames, part : {"length", "payload"}, enciphered : BOOLEAN]
Words    == [frame : Frames, enciphered : BOOLEAN]
Conduits == [wire : Seq(UnitSet), buffered : Seq(UnitSet), inHand : Seq(UnitSet),
             pending : Nat, decrypt : BOOLEAN, encrypt : BOOLEAN]

Fits(c) ==
  Len(c.wire) <= WireUnits /\ Len(c.buffered) <= WireUnits /\ Len(c.inHand) <= 1
    /\ c.pending <= WireUnits

Answers ==
  {"none", "asked", "taken", "ok", "unencodable", "failed", "overrun", "enabled",
   "not_in_play", "rejected", "expired"}
Outcomes ==
  {"none", "ok", "ended", "not_switched", "unencodable", "not_in_play", "expired",
   "authentication", "disconnected", "unexpected"}
Causes == {"none", "garbled", "peer_closed", "write", "ambiguous", "closed"}

StreamsTyped ==
  /\ conduit \in [Ends -> Conduits] /\ \A e \in Ends : Fits(conduit[e])
  /\ reader \in [Ends -> {"length", "payload", "handing", "exited"}]
  /\ framed \in [Ends -> Frames \cup {NoFrame, Garbage}]
  /\ \A e \in Ends : reader[e] = "handing" => framed[e] \in Frames \cup {Garbage}
  /\ coordinator \in [Ends -> {"select", "writing", "written", "over"}]
  /\ job \in [Ends -> Frames \cup {NoFrame}]
  /\ \A e \in Ends : coordinator[e] \in {"writing", "written"} => job[e] \in Frames
  /\ session \in [Ends -> Sessions]
  /\ queue \in [Ends -> Seq(Packets)]
  /\ stopping \in [Ends -> BOOLEAN] /\ cause \in [Ends -> Causes]
  /\ log \in [Ends -> Seq(Words)]

(* An end whose call has an answer, or waits for one, is at that call.                  *)
Calling(e) == todo[e] # <<>> /\ Step(e)[1] \in {"write", "control", "snapshot"}

LoginsTyped ==
  /\ todo \in [Ends -> Seq(Steps)] /\ answer \in [Ends -> Answers]
  /\ expired \in [Ends -> BOOLEAN] /\ held \in BOOLEAN
  /\ outcome \in [Ends -> Outcomes]
  /\ Failed("server") => todo["server"] \in {<<>>, Refusal}
  /\ \A e \in Ends : answer[e] # "none" => Calling(e)

Typed == setting \in Settings /\ StreamsTyped /\ LoginsTyped

(* The first step of what is left, and what is left behind it.                       *)
LEMMA StepKinds ==
  /\ \A s \in Steps : s[1] = "write" => s[2] \in Packets /\ s = Write(s[2])
  /\ \A s \in Steps : s[1] = "control" => s[2] \in {"inbound", "outbound", "both"}
  /\ \A s \in Steps : s[1] \in {"write", "read", "control", "snapshot", "service", "return"}
BY DEF Steps, Write, Read, Control, Snapshot, Join, Verify, Return

LEMMA Kinds ==
  /\ \A p : Write(p)[1] = "write" /\ Read(p)[1] = "read" /\ Control(p)[1] = "control"
  /\ Join[1] = "service" /\ Verify[1] = "service" /\ Snapshot[1] = "snapshot" /\ Return[1] = "return"
BY DEF Write, Read, Control, Snapshot, Join, Verify, Return

LEMMA ClientKinds ==
  ASSUME NEW n \in 0..20 \ {9, 12, 20}
  PROVE  /\ ClientStep(n)[1] = "write" <=> WritesAt("client", n)
         /\ ClientStep(n)[1] = "read" <=> ReadsAt("client", n)
         /\ ClientStep(n)[1] = "control" <=> n \in {3, 5}
         /\ ClientStep(n)[1] = "service" <=> n = 2
         /\ ClientStep(n)[1] = "return" <=> n \in {8, 11, 18}
         /\ ClientStep(n)[1] # "snapshot"
BY Kinds DEF ClientStep, WritesAt, ReadsAt

LEMMA ServerKinds ==
  ASSUME NEW n \in 0..15
  PROVE  /\ ServerStep(n)[1] = "write" <=> WritesAt("server", n)
         /\ ServerStep(n)[1] = "read" <=> ReadsAt("server", n)
         /\ ServerStep(n)[1] = "control" <=> n = 3
         /\ ServerStep(n)[1] = "service" <=> n = 4
         /\ ServerStep(n)[1] = "return" <=> n = 14
         /\ ServerStep(n)[1] = "snapshot" <=> n = 13
BY Kinds DEF ServerStep, WritesAt, ReadsAt

LEMMA KindsOfSteps ==
  ASSUME NEW e \in Ends, NEW n, MayBe(e, n), n \notin Last(e)
  PROVE  /\ StepAt(e, n)[1] = "write" <=> WritesAt(e, n)
         /\ StepAt(e, n)[1] = "read" <=> ReadsAt(e, n)
         /\ StepAt(e, n)[1] = "control" <=> n = 3 \/ (e = "client" /\ n = 5)
         /\ StepAt(e, n)[1] = "service" <=> n = IF e = "client" THEN 2 ELSE 4
         /\ StepAt(e, n)[1] = "return" <=> n \in IF e = "client" THEN {8, 11, 18} ELSE {14}
         /\ StepAt(e, n)[1] = "snapshot" <=> e = "server" /\ n = 13
<1>1. CASE e = "client"
  <2>1. n \in 0..20 \ {9, 12, 20} /\ StepAt(e, n) = ClientStep(n)
    BY <1>1 DEF MayBe, Places, Last, StepAt
  <2> QED BY <1>1, <2>1, ClientKinds
<1>2. CASE e = "server"
  <2>1. n \in 0..15 /\ StepAt(e, n) = ServerStep(n)
    BY <1>2 DEF MayBe, Places, Last, StepAt
  <2> QED BY <1>2, <2>1, ServerKinds
<1> QED BY <1>1, <1>2 DEF Ends

LEMMA WritesTheNext ==
  ASSUME NEW e \in Ends, NEW n, MayBe(e, n), WritesAt(e, n)
  PROVE  StepAt(e, n) = Write(PacketOf(e, Sent(e, n) + 1))
<1>1. CASE e = "client"
  <2>1. n \in {0, 4, 10, 14, 17, 19} /\ StepAt(e, n) = ClientStep(n)
    BY <1>1 DEF WritesAt, StepAt
  <2>2. ClientStep(n) = Write(ClientWrites(n))
    BY <2>1 DEF ClientStep, ClientWrites
  <2>3. PacketOf(e, Sent(e, n) + 1) = ClientWrites(n)
    BY <1>1, NextPacket
  <2> QED BY <2>1, <2>2, <2>3
<1>2. CASE e = "server"
  <2>1. n \in {1, 5, 6, 8, 10, 11, 15} /\ StepAt(e, n) = ServerStep(n)
    BY <1>2 DEF WritesAt, StepAt
  <2>2. ServerStep(n) = Write(ServerWrites(n))
    BY <2>1 DEF ServerStep, ServerWrites
  <2>3. PacketOf(e, Sent(e, n) + 1) = ServerWrites(n)
    BY <1>2, NextPacket
  <2> QED BY <2>1, <2>2, <2>3
<1> QED BY <1>1, <1>2 DEF Ends

LEMMA Ahead ==
  ASSUME NEW e \in Ends, NEW n, NEW r, PlaceInv(e, n, r), todo[e] # <<>>
  PROVE
    \/ /\ outcome[e] \in {"none", "ok"} /\ n \notin Last(e)
       /\ todo[e] = Rest(e, n) /\ Step(e) = StepAt(e, n)
       /\ ~(e = "client" /\ ReadsAt(e, n)) => Tail(todo[e]) = Rest(e, NextPlace(e, n))
    \/ /\ Failed(e) /\ e = "server" /\ Refusing /\ n \in 1..4
       /\ Step(e) = Write("disconnect") /\ Tail(todo[e]) = <<>>
<1>1. CASE Failed(e)
  <2>1. e = "server" /\ Refusing /\ n \in 1..4
    BY <1>1 DEF PlaceInv
  <2>2. Head(Refusal) = Write("disconnect") /\ Tail(Refusal) = <<>>
    BY OneLast DEF Refusal
  <2>3. todo[e] = Refusal
    BY <2>1 DEF Refusing
  <2> QED BY <1>1, <2>1, <2>2, <2>3 DEF Step
<1>2. CASE ~Failed(e)
  <2>1. outcome[e] \in {"none", "ok"} /\ todo[e] = Rest(e, n) /\ MayBe(e, n)
    BY <1>2 DEF PlaceInv, Failed
  <2>2. n \notin Last(e)
    <3>1. n \in Last(e) => Rest(e, n) = <<>>
      BY DEF Last, Rest, ClientRest, ServerRest, Nothing, Ends
    <3> QED BY <3>1, <2>1
  <2>3. CASE e = "client"
    <3>1. Rest(e, n) = ClientRest(n) /\ StepAt(e, n) = ClientStep(n) /\ NextPlace(e, n) = ClientNext(n)
      BY <2>3 DEF Rest, StepAt, NextPlace
    <3>2. /\ Head(ClientRest(n)) = ClientStep(n)
          /\ ~ReadsAt("client", n) => Tail(ClientRest(n)) = ClientRest(ClientNext(n))
      BY <2>1, <2>2, <2>3, ClientSteps, Zenon DEF Leads
    <3>3. Rest(e, NextPlace(e, n)) = ClientRest(ClientNext(n))
      BY <2>3, <3>1 DEF Rest
    <3> QED BY <2>1, <2>2, <2>3, <3>1, <3>2, <3>3, Zenon DEF Step
  <2>4. CASE e = "server"
    <3>1. Rest(e, n) = ServerRest(n) /\ StepAt(e, n) = ServerStep(n) /\ NextPlace(e, n) = ServerNext(n)
      BY <2>4 DEF Rest, StepAt, NextPlace
    <3>2. Head(ServerRest(n)) = ServerStep(n) /\ Tail(ServerRest(n)) = ServerRest(ServerNext(n))
      BY <2>1, <2>2, <2>4, ServerSteps, Zenon DEF Leads
    <3>3. Rest(e, NextPlace(e, n)) = ServerRest(ServerNext(n))
      BY <2>4, <3>1 DEF Rest
    <3> QED BY <2>1, <2>2, <2>4, <3>1, <3>2, <3>3, Zenon DEF Step
  <2> QED BY <2>3, <2>4 DEF Ends
<1> QED BY <1>1, <1>2
-----------------------------------------------------------------------------
(* What the invariant says of both ends together.                                   *)
Ghosts(place, read, taken) ==
  place \in [Ends -> Nat] /\ read \in [Ends -> Nat] /\ taken \in [Ends -> Nat]

LEMMA LogsAreLong ==
  ASSUME Typed, NEW e \in Ends
  PROVE  Len(log[e]) \in Nat /\ log[e] \in Seq(Words) /\ Peer(e) \in Ends
BY DEF Typed, StreamsTyped, Ends, Peer

LEMMA HowFar ==
  ASSUME Typed, NEW e \in Ends, NEW n, NEW r \in Nat, NEW t \in Nat, CoreOf(e, n, r, t)
  PROVE  /\ MayBe(e, n) /\ Sent(e, n) \in Nat
         /\ Sent(e, n) <= Len(log[e])
         /\ Len(log[e]) <= Top(e, n) \/ (e = "server" /\ Denied /\ Len(log[e]) <= 2)
         /\ e = "server" /\ Denied => n = 4
         /\ Had(e, n) <= t /\ t <= Len(log[Peer(e)]) /\ Had(e, n) <= Good(Peer(e))
<1>1. MayBe(e, n) /\ (e = "server" /\ Denied => n = 4) /\ Had(e, n) <= Good(Peer(e))
  BY DEF CoreOf, PlaceInv
<1>2. Sent(e, n) \in Nat /\ Had(e, n) \in Nat
  BY <1>1, PlacesAreNumbers
<1>3. Len(log[e]) \in Nat
  BY LogsAreLong
<1>4. Len(log[e]) - Sent(e, n) \in {0, 1}
  BY DEF CoreOf, SentInv, Extra
<1>5. Len(log[e]) - Sent(e, n) = 1 => WritesAt(e, n) \/ (e = "server" /\ Denied)
  BY DEF CoreOf, SentInv, Extra
<1>6. Sent("server", 4) \in {0, 1}
  BY SettingNumbers DEF Sent, Past
<1>7. Had(e, n) <= r /\ r <= t /\ t <= Len(log[Peer(e)])
  BY <1>2 DEF CoreOf, PlaceInv, QueueInv
<1>8. CASE Len(log[e]) = Sent(e, n) \/ WritesAt(e, n)
  BY <1>1, <1>2, <1>3, <1>4, <1>7, <1>8, LogsAreLong DEF Top
<1>9. CASE e = "server" /\ Denied
  BY <1>1, <1>2, <1>3, <1>4, <1>6, <1>7, <1>9, LogsAreLong
<1> QED BY <1>2, <1>3, <1>4, <1>5, <1>8, <1>9

LEMMA Standing ==
  ASSUME Typed, NEW place, NEW read, NEW taken, Ghosts(place, read, taken), Core(place, read, taken)
  PROVE  /\ Between(place["client"], place["server"], Len(log["client"]), Len(log["server"]),
                    taken["client"], taken["server"])
         /\ \A e \in Ends : CoreOf(e, place[e], read[e], taken[e])
         /\ HeldInv(place["client"], taken["server"])
<1>1. \A e \in Ends : /\ CoreOf(e, place[e], read[e], taken[e])
                      /\ read[e] \in Nat /\ taken[e] \in Nat /\ place[e] \in Nat
  BY DEF Core, Ghosts
<1>2. CoreOf("client", place["client"], read["client"], taken["client"])
  BY <1>1, TwoEnds
<1>3. CoreOf("server", place["server"], read["server"], taken["server"])
  BY <1>1, TwoEnds
<1>4. Good("client") = Len(log["client"]) /\ Good("server") = IF Denied THEN 1 ELSE Len(log["server"])
  BY DEF Good
<1> DEFINE c == place["client"]  s == place["server"]  a == Len(log["client"])  b == Len(log["server"])
           i == taken["client"]  j == taken["server"]
<1>5. a \in Nat /\ b \in Nat /\ i \in Nat /\ j \in Nat
  BY <1>1, LogsAreLong, TwoEnds
<1>6. /\ MayBe("client", c) /\ Sent("client", c) <= a /\ a <= Top("client", c)
      /\ Had("client", c) <= i /\ i <= b /\ Had("client", c) <= Good("server")
  BY <1>1, <1>2, HowFar, TwoEnds
<1>7. /\ MayBe("server", s) /\ Sent("server", s) <= b /\ (b <= Top("server", s) \/ (Denied /\ b <= 2))
      /\ (Denied => s = 4) /\ Had("server", s) <= j /\ j <= a
  BY <1>1, <1>3, HowFar, TwoEnds
<1> HIDE DEF c, s, a, b, i, j
<1>8. Between(c, s, a, b, i, j)
  BY <1>4, <1>5, <1>6, <1>7 DEF Between, b
<1> QED BY <1>1, <1>8 DEF c, s, a, b, i, j, Core

(* The sessions of two ends that are not in the middle of a write.                    *)
LEMMA Reckoned ==
  ASSUME NEW c, NEW s, NEW i, NEW j,
         Between(c, s, Len(log["client"]), Len(log["server"]), i, j),
         \A e \in Ends : coordinator[e] = "written" => Len(log[e]) >= 1
  PROVE  LET g == IF Denied THEN 1 ELSE Len(log["server"]) IN
         /\ coordinator["client"] # "written" => Said("client") = Len(log["client"])
         /\ coordinator["server"] # "written" => Said("server") = g
         /\ Heard("client", i) = AtMost(i, g) /\ Heard("server", j) = j
         /\ Said("client") \in Nat /\ Said("server") \in Nat /\ AtMost(i, g) \in Nat /\ g \in Nat
         /\ Said("client") <= Len(log["client"])
<1> DEFINE a == Len(log["client"])  b == Len(log["server"])  g == IF Denied THEN 1 ELSE b
<1>1. a \in Nat /\ b \in Nat /\ i \in Nat /\ j \in Nat /\ j <= a /\ (Denied => b >= 1)
      /\ (coordinator["client"] = "written" => a >= 1) /\ (coordinator["server"] = "written" => b >= 1)
  BY InStep, TwoEnds DEF Between
<1>2. Good("client") = a /\ Good("server") = g
  BY DEF Good
<1>3. /\ Said("client") = AtMost(a - (IF coordinator["client"] = "written" THEN 1 ELSE 0), a)
      /\ Said("server") = AtMost(b - (IF coordinator["server"] = "written" THEN 1 ELSE 0), g)
      /\ Heard("client", i) = AtMost(i, g) /\ Heard("server", j) = AtMost(j, a)
  BY <1>2, TwoEnds DEF Said, Heard
<1> HIDE DEF a, b
<1>4. /\ coordinator["client"] # "written" => Said("client") = a
      /\ Said("client") \in Nat /\ Said("client") <= a
  BY <1>1, <1>3 DEF AtMost
<1>5. g \in Nat /\ (coordinator["server"] # "written" => Said("server") = g) /\ Said("server") \in Nat
  BY <1>1, <1>3 DEF AtMost
<1>6. Heard("server", j) = j /\ AtMost(i, g) \in Nat
  BY <1>1, <1>3, <1>5 DEF AtMost
<1> QED BY <1>3, <1>4, <1>5, <1>6 DEF a, b
-----------------------------------------------------------------------------
(* The frames of an end.                                                          *)
LEMMA FramesAre ==
  ASSUME NEW e \in Ends, NEW i \in Nat, i >= 1
  PROVE  /\ FrameOf(e, i) \in Frames /\ FrameOf(e, i).from = e
         /\ e = "server" /\ i = 2 /\ Denied =>
              FrameOf(e, i).packet = "disconnect" /\ FrameOf(e, i).compressed = FALSE
         /\ ~(e = "server" /\ i = 2 /\ Denied) =>
              /\ FrameOf(e, i).packet = PacketOf(e, i)
              /\ FrameOf(e, i).compressed <=> Compresses /\ i > 1 + Keyed
<1>1. PacketOf(e, i) \in Packets /\ "disconnect" \in Packets
  BY PacketStates, PacketsAre DEF Ends
<1>2. CASE e = "server" /\ i = 2 /\ Denied
  BY <1>1, <1>2 DEF FrameOf, Frames
<1>3. CASE ~(e = "server" /\ i = 2 /\ Denied)
  BY <1>1, <1>3 DEF FrameOf, Frames
<1> QED BY <1>2, <1>3

LEMMA NotGarbage ==
  ASSUME NEW f \in Frames
  PROVE  f # Garbage /\ f # NoFrame
<1>1. f.packet \in Packets
  BY DEF Frames
<1>2. "garbage" \notin Packets /\ "none" \notin Packets
  BY DEF Packets, LoginPackets, ConfigurationPackets
<1>3. Garbage.packet = "garbage" /\ NoFrame.packet = "none"
  BY DEF Garbage, NoFrame
<1> QED BY <1>1, <1>2, <1>3

Alert(c, s, i, j) ==
  /\ Between(c, s, Len(log["client"]), Len(log["server"]), i, j)
  /\ \A e \in Ends : coordinator[e] = "written" => Len(log[e]) >= 1

(* An end that takes a frame of its peer is in the session it was written in, and moves  *)
(* on with it.                                                                  *)
LEMMA ClientUnderstands ==
  ASSUME NEW c, NEW s, NEW i, NEW j, Alert(c, s, i, j),
         coordinator["client"] = "select", i < Len(log["server"])
  PROVE  LET x == SessionOf("client", i)  f == FrameOf("server", i + 1) IN
         /\ Legible(x, f) /\ f \in Frames
         /\ Transition(x, f.packet, "server") = SessionOf("client", i + 1)
<1> DEFINE a == Len(log["client"])  b == Len(log["server"])  g == IF Denied THEN 1 ELSE b
           x == SessionOf("client", i)  f == FrameOf("server", i + 1)  p == f.packet  said == Said("client")
           k == Keyed  z == Shrinks  o == Offers
<1>1. /\ a \in Nat /\ b \in Nat /\ i \in Nat /\ j \in Nat
      /\ Acknowledged /\ ~(Denied /\ i = 1) =>
           (i < 1 + k + z <=> a < 2 + k) /\ (i < 3 + k + z + o <=> a < 3 + k + o)
      /\ Denied => a <= 2 /\ b >= 1 /\ Online
      /\ i < b /\ (Denied => i < 2)
  <2>1. Between(c, s, a, b, i, j)
    BY DEF Alert
  <2>2. Top("server", 4) \in {0, 1, 2}
    BY SettingNumbers DEF Top, Sent, Past, WritesAt
  <2>3. a \in Nat /\ b \in Nat /\ i \in Nat /\ j \in Nat
    BY <2>1 DEF Between
  <2>4. Denied => s = 4 /\ b <= 2
    <3>1. Denied => s = 4 /\ (b <= Top("server", s) \/ b <= 2)
      BY <2>1 DEF Between
    <3> QED BY <2>2, <2>3, <3>1
  <2>5. Denied => i < 2
    BY <2>3, <2>4
  <2> QED BY <2>1, <2>3, <2>5, InStep
<1>2. said = a /\ Heard("client", i) = AtMost(i, g)
  BY Reckoned DEF Alert
<1>3. Heard("client", i + 1) = AtMost(i + 1, g)
  BY TwoEnds DEF Heard, Good
<1>4. i + 1 \in Nat /\ i + 1 >= 1 /\ AtMost(i, g) \in Nat
  BY <1>1 DEF AtMost
<1>5. /\ x = SessionAt("client", said, AtMost(i, g))
      /\ SessionOf("client", i + 1) = SessionAt("client", said, AtMost(i + 1, g))
  BY <1>2, <1>3 DEF SessionOf
<1>6. /\ x \in Sessions
      /\ Acknowledged => x.state = StateAt(said)
      /\ ~Acknowledged => x.state = StateAt(AtMost(i, g))
      /\ x.compressed <=> Compresses /\ AtMost(i, g) >= 1 + k
  BY <1>1, <1>2, <1>4, <1>5, TheSessions
<1>7. f \in Frames /\ f # Garbage
  BY <1>4, FramesAre, NotGarbage, TwoEnds
<1>8. k \in {0, 1} /\ z \in {0, 1} /\ o \in {0, 1} /\ (Online <=> k = 1)
  BY SettingNumbers
<1>11. /\ Denied /\ i = 1 => p = "disconnect" /\ f.compressed = FALSE
       /\ ~(Denied /\ i = 1) =>
            p = PacketOf("server", i + 1) /\ (f.compressed <=> Compresses /\ i + 1 > 1 + k)
  <2>1. i = 1 <=> i + 1 = 2
    BY <1>1
  <2> QED BY <1>4, <2>1, FramesAre, TwoEnds
<1> HIDE DEF a, b, g, x, f, p, said, k, z, o
<1>12. Legible(x, f) /\ Transition(x, p, "server") = SessionOf("client", i + 1)
  <2>1. CASE Denied /\ i = 1
    <3>1. p = "disconnect" /\ f.compressed = FALSE
      BY <2>1, <1>11
    <3>2. StateOf(p) = "login"
      BY <3>1 DEF StateOf, LoginPackets
    <3>3. AtMost(i, g) = 1 /\ AtMost(i + 1, g) = 1 /\ k = 1
      BY <1>1, <1>8, <2>1 DEF AtMost, g
    <3>4. x.state = "login"
      BY <1>1, <1>2, <1>6, <1>8, <2>1, <3>3 DEF StateAt, k, z, o
    <3>5. x.compressed = FALSE
      BY <1>6, <3>3 DEF Sessions
    <3>6. Transition(x, p, "server") = SessionOf("client", i + 1)
      BY <3>1, <3>3, <1>5, RefusalMovesNothing
    <3> QED BY <1>7, <3>1, <3>2, <3>4, <3>5, <3>6 DEF Legible, p
  <2>2. CASE ~(Denied /\ i = 1)
    <3>1. p = PacketOf("server", i + 1) /\ (f.compressed <=> Compresses /\ i + 1 > 1 + k)
      BY <2>2, <1>11
    <3>2. AtMost(i, g) = i /\ AtMost(i + 1, g) = i + 1
      BY <1>1, <2>2 DEF AtMost, g, b
    <3>3. StateOf(p) = IF i + 1 <= 1 + k + z THEN "login"
            ELSE IF Acknowledged /\ i + 1 <= 3 + k + z + o THEN "configuration" ELSE "play"
      BY <3>1, <1>4, PacketStates DEF k, z, o
    <3>4. x.state = StateOf(p)
      BY <1>1, <1>2, <1>6, <1>8, <2>2, <3>2, <3>3 DEF StateAt, k, z, o
    <3>5. x.compressed = f.compressed
      BY <1>1, <1>6, <1>7, <3>1, <3>2, <1>8 DEF Sessions, Frames
    <3>6. Transition(x, p, "server") = SessionOf("client", i + 1)
      BY <3>1, <3>2, <1>1, <1>2, <1>5, SessionMoves
    <3> QED BY <1>7, <3>4, <3>5, <3>6 DEF Legible, p
  <2> QED BY <2>1, <2>2
<1> QED BY <1>7, <1>12 DEF x, f, p

LEMMA ServerUnderstands ==
  ASSUME NEW c, NEW s, NEW i, NEW j, Alert(c, s, i, j),
         coordinator["server"] = "select", j < Len(log["client"])
  PROVE  LET x == SessionOf("server", j)  f == FrameOf("client", j + 1) IN
         /\ Legible(x, f) /\ f \in Frames
         /\ Transition(x, f.packet, "client") = SessionOf("server", j + 1)
<1> DEFINE a == Len(log["client"])  b == Len(log["server"])  g == IF Denied THEN 1 ELSE b
           x == SessionOf("server", j)  f == FrameOf("client", j + 1)  p == f.packet  said == Said("server")
           k == Keyed  z == Shrinks  o == Offers
<1>1. /\ a \in Nat /\ b \in Nat /\ g \in Nat /\ j \in Nat
      /\ (j < 1 + k <=> g < 1 + k + z) /\ (j < 1 + k <=> g < 1 + k)
  <2>1. Between(c, s, a, b, i, j)
    BY DEF Alert
  <2> QED BY <2>1, InStep DEF Between
<1>2. said = g /\ Heard("server", j) = j /\ Heard("server", j + 1) = j + 1
  <2>1. said = g /\ Heard("server", j) = j
    BY Reckoned DEF Alert
  <2>2. Heard("server", j + 1) = j + 1
    BY <1>1, TwoEnds DEF Heard, Good, AtMost
  <2> QED BY <2>1, <2>2
<1>4. j + 1 \in Nat /\ j + 1 >= 1
  BY <1>1
<1>5. x = SessionAt("server", said, j) /\ SessionOf("server", j + 1) = SessionAt("server", said, j + 1)
  BY <1>2 DEF SessionOf
<1>6. /\ x \in Sessions
      /\ Acknowledged => x.state = StateAt(j)
      /\ ~Acknowledged => x.state = StateAt(said)
      /\ x.compressed <=> Compresses /\ said >= 1 + k
  BY <1>1, <1>2, <1>5, TheSessions
<1>7. f \in Frames /\ f # Garbage
  BY <1>4, FramesAre, NotGarbage, TwoEnds
<1>8. k \in {0, 1} /\ z \in {0, 1} /\ o \in {0, 1}
  BY SettingNumbers
<1>9. p = PacketOf("client", j + 1) /\ (f.compressed <=> Compresses /\ j + 1 > 1 + k)
  BY <1>4, FramesAre, TwoEnds
<1> HIDE DEF a, b, g, x, f, p, said, k, z, o
<1>10. StateOf(p) =
         IF Acknowledged
         THEN IF j + 1 <= 2 + k THEN "login" ELSE IF j + 1 <= 3 + k + o THEN "configuration" ELSE "play"
         ELSE IF j + 1 <= 1 + k THEN "login" ELSE "play"
  BY <1>4, <1>9, PacketStates DEF k, z, o
<1>11. x.state = StateOf(p)
  BY <1>1, <1>2, <1>6, <1>8, <1>10 DEF StateAt, k, z, o
<1>12. x.compressed = f.compressed
  BY <1>1, <1>2, <1>6, <1>7, <1>8, <1>9 DEF Sessions, Frames
<1>13. Transition(x, p, "client") = SessionOf("server", j + 1)
  BY <1>1, <1>2, <1>5, <1>9, SessionMoves
<1> QED BY <1>7, <1>11, <1>12, <1>13 DEF Legible, x, f, p

(* And an end that writes is in a session that its next packet belongs to.             *)
LEMMA ClientMayWrite ==
  ASSUME NEW c, NEW s, NEW i, NEW j, Alert(c, s, i, j), coordinator["client"] = "select",
         WritesAt("client", c), Len(log["client"]) = Sent("client", c)
  PROVE  LET x == SessionOf("client", i)  p == PacketOf("client", Len(log["client"]) + 1) IN
         /\ Encodable(x, p) /\ p \in Packets
         /\ FrameOf("client", Len(log["client"]) + 1) =
              [packet |-> p, from |-> "client", compressed |-> x.compressed]
<1> DEFINE a == Len(log["client"])  b == Len(log["server"])  g == IF Denied THEN 1 ELSE b
           x == SessionOf("client", i)  p == PacketOf("client", a + 1)  said == Said("client")
           k == Keyed  z == Shrinks  o == Offers  h == AtMost(i, g)
<1>1. /\ a \in Nat /\ (a < 1 + k <=> h < 1 + k) /\ (a < 1 + k <=> h < 1 + k + z)
  <2>1. Between(c, s, a, b, i, j)
    BY DEF Alert
  <2> QED BY <2>1, InStep DEF Between
<1>2. said = a /\ Heard("client", i) = h /\ h \in Nat
  BY Reckoned DEF Alert
<1>3. a + 1 \in Nat /\ a + 1 >= 1
  BY <1>1
<1>4. x = SessionAt("client", said, h)
  BY <1>2 DEF SessionOf
<1>5. /\ x \in Sessions
      /\ Acknowledged => x.state = StateAt(said)
      /\ ~Acknowledged => x.state = StateAt(h)
      /\ x.compressed <=> Compresses /\ h >= 1 + k
  BY <1>1, <1>2, <1>4, TheSessions
<1>6. p \in Packets
  BY <1>3, PacketStates
<1>7. FrameOf("client", a + 1) =
        [packet |-> p, from |-> "client", compressed |-> Compresses /\ a + 1 > 1 + k]
  BY DEF FrameOf
<1>8. k \in {0, 1} /\ z \in {0, 1} /\ o \in {0, 1}
  BY SettingNumbers
<1>9. StateOf(p) =
         IF Acknowledged
         THEN IF a + 1 <= 2 + k THEN "login" ELSE IF a + 1 <= 3 + k + o THEN "configuration" ELSE "play"
         ELSE IF a + 1 <= 1 + k THEN "login" ELSE "play"
  BY <1>3, PacketStates
<1> HIDE DEF a, b, g, x, p, said, k, z, o, h
<1>10. StateOf(p) = x.state
  BY <1>1, <1>2, <1>5, <1>8, <1>9 DEF StateAt, k, z, o
<1>11. x.compressed = (Compresses /\ a + 1 > 1 + k)
  BY <1>1, <1>2, <1>5, <1>8 DEF Sessions
<1> QED BY <1>6, <1>7, <1>10, <1>11, Zenon DEF Encodable, x, p, a

LEMMA ServerMayWrite ==
  ASSUME NEW c, NEW s, NEW i, NEW j, Alert(c, s, i, j), coordinator["server"] = "select",
         WritesAt("server", s), Len(log["server"]) = Sent("server", s)
  PROVE  LET x == SessionOf("server", j)  p == PacketOf("server", Len(log["server"]) + 1) IN
         /\ Encodable(x, p) /\ p \in Packets
         /\ FrameOf("server", Len(log["server"]) + 1) =
              [packet |-> p, from |-> "server", compressed |-> x.compressed]
<1> DEFINE a == Len(log["client"])  b == Len(log["server"])
           x == SessionOf("server", j)  p == PacketOf("server", b + 1)  said == Said("server")
           k == Keyed  z == Shrinks  o == Offers
<1>1. /\ b \in Nat /\ j \in Nat /\ ~Denied
      /\ Acknowledged => (b < 1 + k + z <=> j < 2 + k) /\ (b < 3 + k + z + o <=> j < 3 + k + o)
  <2>1. Between(c, s, a, b, i, j)
    BY DEF Alert
  <2>2. ~Denied
    BY <2>1 DEF Between, WritesAt
  <2> QED BY <2>1, <2>2, InStep DEF Between
<1>2. said = b /\ Heard("server", j) = j
  BY <1>1, Reckoned DEF Alert
<1>3. b + 1 \in Nat /\ b + 1 >= 1
  BY <1>1
<1>4. x = SessionAt("server", said, j)
  BY <1>2 DEF SessionOf
<1>5. /\ x \in Sessions
      /\ Acknowledged => x.state = StateAt(j)
      /\ ~Acknowledged => x.state = StateAt(said)
      /\ x.compressed <=> Compresses /\ said >= 1 + k
  BY <1>1, <1>2, <1>4, TheSessions
<1>6. p \in Packets
  BY <1>3, PacketStates
<1>7. FrameOf("server", b + 1) =
        [packet |-> p, from |-> "server", compressed |-> Compresses /\ b + 1 > 1 + k]
  BY <1>1 DEF FrameOf
<1>8. k \in {0, 1} /\ z \in {0, 1} /\ o \in {0, 1}
  BY SettingNumbers
<1>9. StateOf(p) =
        IF b + 1 <= 1 + k + z THEN "login"
        ELSE IF Acknowledged /\ b + 1 <= 3 + k + z + o THEN "configuration" ELSE "play"
  BY <1>3, PacketStates
<1> HIDE DEF a, b, x, p, said, k, z, o
<1>10. StateOf(p) = x.state
  BY <1>1, <1>2, <1>5, <1>8, <1>9 DEF StateAt, k, z, o
<1>11. x.compressed = (Compresses /\ b + 1 > 1 + k)
  BY <1>1, <1>2, <1>5, <1>8 DEF Sessions
<1> QED BY <1>6, <1>7, <1>10, <1>11, Zenon DEF Encodable, x, p, b

(* A server that refuses its client writes the disconnect in the session of its first   *)
(* frame, and one that is behind its course is in play.                              *)
LEMMA ServerMayRefuse ==
  ASSUME NEW c, NEW s, NEW i, NEW j, Alert(c, s, i, j), coordinator["server"] = "select",
         Denied, Len(log["server"]) = Sent("server", s)
  PROVE  LET x == SessionOf("server", j) IN
         /\ Encodable(x, "disconnect")
         /\ FrameOf("server", Len(log["server"]) + 1) =
              [packet |-> "disconnect", from |-> "server", compressed |-> x.compressed]
<1> DEFINE a == Len(log["client"])  b == Len(log["server"])
           x == SessionOf("server", j)  said == Said("server")
           k == Keyed  z == Shrinks  o == Offers
<1>1. b = 1 /\ j \in Nat /\ j <= 2 /\ k = 1
  <2>1. Between(c, s, a, b, i, j)
    BY DEF Alert
  <2>2. s = 4 /\ j \in Nat /\ j <= a /\ a \in Nat
    BY <2>1 DEF Between
  <2>3. a <= 2 /\ Online
    BY <2>1, InStep
  <2>4. Sent("server", 4) = 1
    BY <2>3, SettingNumbers DEF Sent, Past
  <2> QED BY <2>2, <2>3, <2>4, SettingNumbers
<1>2. said = 1 /\ Heard("server", j) = j
  <2>1. said = (IF Denied THEN 1 ELSE b) /\ Heard("server", j) = j
    BY Reckoned DEF Alert
  <2> QED BY <2>1
<1>3. x = SessionAt("server", said, j)
  BY <1>2 DEF SessionOf
<1>4. /\ x \in Sessions
      /\ Acknowledged => x.state = StateAt(j)
      /\ ~Acknowledged => x.state = StateAt(said)
      /\ x.compressed <=> Compresses /\ said >= 1 + k
  BY <1>1, <1>2, <1>3, TheSessions
<1>6. StateOf("disconnect") = "login"
  BY DEF StateOf, LoginPackets
<1>8. k \in {0, 1} /\ z \in {0, 1} /\ o \in {0, 1}
  BY SettingNumbers
<1> HIDE DEF a, b, x, said, k, z, o
<1>5. FrameOf("server", b + 1) = [packet |-> "disconnect", from |-> "server", compressed |-> FALSE]
  <2> DEFINE f == FrameOf("server", b + 1)
  <2>1. b + 1 \in Nat /\ b + 1 >= 1 /\ b + 1 = 2 /\ Denied
    BY <1>1
  <2>2. f \in Frames /\ f.from = "server" /\ f.packet = "disconnect" /\ f.compressed = FALSE
    BY <2>1, FramesAre, TwoEnds
  <2> HIDE DEF f
  <2>3. f = [packet |-> "disconnect", from |-> "server", compressed |-> FALSE]
    BY <2>2 DEF Frames
  <2> QED BY <2>3 DEF f
<1>9. x.state = "login"
  BY <1>1, <1>2, <1>4, <1>8 DEF StateAt, k, z, o
<1>10. x.compressed = FALSE
  BY <1>1, <1>2, <1>4 DEF Sessions
<1> QED BY <1>5, <1>6, <1>9, <1>10, Zenon DEF Encodable, x, b

LEMMA ServerInPlay ==
  ASSUME NEW c, NEW s, NEW i, NEW j, Alert(c, s, i, j), coordinator["server"] = "select", s >= 13
  PROVE  SessionOf("server", j).state = "play"
<1> DEFINE a == Len(log["client"])  b == Len(log["server"])
           x == SessionOf("server", j)  said == Said("server")
           k == Keyed  z == Shrinks  o == Offers
<1>1. /\ b \in Nat /\ j \in Nat /\ ~Denied
      /\ (Acknowledged => j >= 3 + k + o) /\ b >= 1 + k + z
  <2>1. Between(c, s, a, b, i, j)
    BY DEF Alert
  <2> QED BY <2>1, InStep DEF Between
<1>2. said = b /\ Heard("server", j) = j
  BY <1>1, Reckoned DEF Alert
<1>3. x = SessionAt("server", said, j)
  BY <1>2 DEF SessionOf
<1>4. (Acknowledged => x.state = StateAt(j)) /\ (~Acknowledged => x.state = StateAt(said))
  BY <1>1, <1>2, <1>3, TheSessions
<1>5. k \in {0, 1} /\ z \in {0, 1} /\ o \in {0, 1}
  BY SettingNumbers
<1> HIDE DEF a, b, x, said, k, z, o
<1>6. x.state = "play"
  BY <1>1, <1>2, <1>4, <1>5 DEF StateAt, k, z, o
<1> QED BY <1>6 DEF x
-----------------------------------------------------------------------------
LEMMA Split ==
  ASSUME NEW S, NEW w \in Seq(S), NEW n \in 0..Len(w)
  PROVE  /\ SubSeq(w, 1, n) \in Seq(S) /\ Len(SubSeq(w, 1, n)) = n
         /\ SubSeq(w, n + 1, Len(w)) \in Seq(S) /\ Len(SubSeq(w, n + 1, Len(w))) = Len(w) - n
         /\ SubSeq(w, 1, n) \o SubSeq(w, n + 1, Len(w)) = w
<1>1. SubSeq(w, 1, n) \in Seq(S) /\ Len(SubSeq(w, 1, n)) = n
  OBVIOUS
<1>2. SubSeq(w, n + 1, Len(w)) \in Seq(S) /\ Len(SubSeq(w, n + 1, Len(w))) = Len(w) - n
  OBVIOUS
<1>3. SubSeq(w, 1, n) \o SubSeq(w, n + 1, Len(w)) = SubSeq(w, 1, Len(w))
  <2>1. Len(w) \in Nat
    OBVIOUS
  <2>2. 1 \in 1..(Len(w) + 1) /\ n \in (1 - 1)..Len(w) /\ Len(w) \in n..Len(w)
    BY <2>1
  <2> QED BY <2>2, ConcatAdjacentSubSeq, Zenon
<1>4. SubSeq(w, 1, Len(w)) = w
  BY SubSeqFull
<1> QED BY <1>1, <1>2, <1>3, <1>4

LEMMA HeadFirst ==
  ASSUME NEW S, NEW s \in Seq(S), s # <<>>
  PROVE  <<Head(s)>> \o Tail(s) = s /\ <<Head(s)>> \in Seq(S) /\ Len(<<Head(s)>>) = 1
OBVIOUS

LEMMA OneInFront ==
  ASSUME NEW S, NEW x \in Seq(S), x # <<>>, Len(x) <= 1, NEW t \in Seq(S)
  PROVE  /\ Tail(x \o t) = t /\ Head(x \o t) = Head(x) /\ x \o t # <<>>
         /\ x \o t \in Seq(S) /\ Head(x) \in S
<1> DEFINE n == Len(x)  m == Len(t)  f == x \o t
<1>1. n \in Nat /\ n <= 1 /\ m \in Nat /\ n # 0
  BY EmptySeq
<1>2. /\ f \in Seq(S) /\ Len(f) = n + m
      /\ \A i \in 1..n + m : f[i] = IF i <= n THEN x[i] ELSE t[i - n]
  BY ConcatProperties
<1>3. Head(x) = x[1] /\ Head(x) \in S
  BY HeadTailProperties
<1> HIDE DEF f, n
<1>4. f # <<>> /\ Head(f) = f[1] /\ Tail(f) \in Seq(S) /\ Len(Tail(f)) = m
      /\ \A i \in 1..m : Tail(f)[i] = f[i + 1]
  <2>1. Len(f) # 0
    BY <1>1, <1>2
  <2>2. f # <<>>
    BY <1>2, <2>1
  <2>3. Tail(f) \in Seq(S) /\ Len(Tail(f)) = Len(f) - 1 /\ \A i \in 1..Len(Tail(f)) : Tail(f)[i] = f[i + 1]
    BY <1>2, <2>2, HeadTailProperties
  <2>4. Len(Tail(f)) = m
    BY <1>1, <1>2, <2>3
  <2> QED BY <1>2, <2>2, <2>3, <2>4
<1>5. f[1] = x[1] /\ \A i \in 1..m : f[i + 1] = t[i]
  <2> HIDE DEF m
  <2> QED BY <1>1, <1>2
<1>6. \A i \in 1..m : Tail(f)[i] = t[i]
  BY <1>4, <1>5
<1>7. Tail(f) = t
  BY <1>4, <1>6, SeqEqual
<1> QED BY <1>2, <1>3, <1>4, <1>5, <1>7 DEF f

(* What each step of a conduit does to what it holds.                               *)
FlowOf(c) == c.inHand \o c.buffered \o c.wire

LEMMA FlowsAre ==
  ASSUME NEW c \in Conduits
  PROVE  /\ FlowOf(c) \in Seq(UnitSet) /\ Len(FlowOf(c)) = Len(c.inHand) + Len(c.buffered) + Len(c.wire)
         /\ c.inHand \in Seq(UnitSet) /\ c.buffered \in Seq(UnitSet) /\ c.wire \in Seq(UnitSet)
         /\ c.pending \in Nat /\ c.decrypt \in BOOLEAN /\ c.encrypt \in BOOLEAN
<1>1. /\ c.inHand \in Seq(UnitSet) /\ c.buffered \in Seq(UnitSet) /\ c.wire \in Seq(UnitSet)
      /\ c.pending \in Nat /\ c.decrypt \in BOOLEAN /\ c.encrypt \in BOOLEAN
  BY DEF Conduits
<1>2. c.inHand \o c.buffered \in Seq(UnitSet) /\ Len(c.inHand \o c.buffered) = Len(c.inHand) + Len(c.buffered)
  BY <1>1, Chained
<1>3. /\ (c.inHand \o c.buffered) \o c.wire \in Seq(UnitSet)
      /\ Len((c.inHand \o c.buffered) \o c.wire) = Len(c.inHand \o c.buffered) + Len(c.wire)
  BY <1>1, <1>2, Chained
<1> QED BY <1>1, <1>2, <1>3 DEF FlowOf

LEMMA ReadingAhead ==
  ASSUME NEW c \in Conduits, Fits(c), CanRead(c), NEW n \in ReadAheads(c)
  PROVE  LET d == BufferedRead(c, n) IN
         /\ d \in Conduits /\ Fits(d) /\ FlowOf(d) = FlowOf(c) /\ d.inHand # <<>>
         /\ d.decrypt = c.decrypt /\ d.encrypt = c.encrypt /\ d.pending = c.pending
<1> DEFINE w == c.wire  b == c.buffered  m == SubSeq(w, 1, n)  l == SubSeq(w, n + 1, Len(w))
           h == b \o m  d == BufferedRead(c, n)  u == <<Head(h)>>  v == Tail(h)
<1>1. w \in Seq(UnitSet) /\ b \in Seq(UnitSet) /\ c.inHand = <<>> /\ (b # <<>> \/ w # <<>>)
      /\ c.pending \in Nat /\ c.decrypt \in BOOLEAN /\ c.encrypt \in BOOLEAN
  BY DEF Conduits, CanRead
<1>2. n \in 0..Len(w) /\ (b = <<>> => n >= 1) /\ (b # <<>> => n = 0) /\ Len(w) \in Nat
  BY <1>1 DEF ReadAheads
<1>3. Len(w) <= WireUnits /\ Len(b) <= WireUnits /\ c.pending <= WireUnits /\ WireUnits \in Nat /\ Len(b) \in Nat
  BY <1>1, LoginAssumption DEF Fits
<1>4. d = [c EXCEPT !.wire = l, !.inHand = u, !.buffered = v]
  BY DEF BufferedRead
<1>5. FlowOf(c) = b \o w
  <2>1. <<>> \o b = b
    BY <1>1
  <2> QED BY <2>1, <1>1 DEF FlowOf
<1> HIDE DEF w, b, d
<1>6. m \in Seq(UnitSet) /\ l \in Seq(UnitSet) /\ Len(m) = n /\ Len(l) = Len(w) - n /\ m \o l = w
  BY <1>1, <1>2, Split, Zenon
<1> HIDE DEF m, l
<1>7. h \in Seq(UnitSet) /\ Len(h) = Len(b) + Len(m)
  BY <1>1, <1>6, Chained, Zenon
<1>8. h \o l = b \o w
  <2>1. m \in Seq(UnitSet) /\ l \in Seq(UnitSet) /\ b \in Seq(UnitSet)
    BY <1>1, <1>6
  <2>2. (b \o m) \o l = b \o (m \o l)
    BY <2>1, Regrouped
  <2> QED BY <1>6, <2>2, Zenon
<1>9. Len(h) = Len(b) + n /\ h # <<>> /\ Len(b) + n - 1 <= WireUnits
  <2>1. b = <<>> => Len(b) = 0
    BY EmptySeq
  <2>2. Len(h) # 0
    <3>1. b # <<>> => Len(b) # 0
      BY <1>1
    <3> HIDE DEF h
    <3> QED BY <1>2, <1>3, <1>6, <1>7, <3>1
  <2>3. h # <<>>
    BY <2>2, EmptySeq
  <2> HIDE DEF h
  <2> QED BY <2>1, <2>3, <1>2, <1>3, <1>6, <1>7
<1> HIDE DEF h
<1>10. u \o v = h /\ u \in Seq(UnitSet) /\ Len(u) = 1
  BY <1>7, <1>9, HeadFirst, Zenon
<1>11. v \in Seq(UnitSet) /\ Len(v) = Len(h) - 1
  BY <1>7, <1>9, RestOf, Zenon
<1>12. u # <<>>
  BY DEF u
<1> HIDE DEF u, v
<1>13. /\ d.wire = l /\ d.inHand = u /\ d.buffered = v
       /\ d.decrypt = c.decrypt /\ d.encrypt = c.encrypt /\ d.pending = c.pending
  BY <1>4 DEF Conduits
<1>14. d \in Conduits
  BY <1>4, <1>6, <1>10, <1>11 DEF Conduits
<1>15. FlowOf(d) = FlowOf(c)
  BY <1>5, <1>8, <1>10, <1>13, Zenon DEF FlowOf
<1>16. Fits(d)
  <2>1. Len(l) <= WireUnits /\ Len(v) <= WireUnits /\ Len(u) <= 1
    BY <1>2, <1>3, <1>6, <1>9, <1>10, <1>11
  <2> QED BY <2>1, <1>3, <1>13 DEF Fits
<1> QED BY <1>12, <1>13, <1>14, <1>15, <1>16 DEF d

LEMMA HandingOut ==
  ASSUME NEW c \in Conduits, Fits(c), c.inHand # <<>>
  PROVE  LET d == HandOut(c) IN
         /\ d \in Conduits /\ Fits(d) /\ FlowOf(d) = Tail(FlowOf(c)) /\ FlowOf(c) # <<>>
         /\ Head(FlowOf(c)) = Head(c.inHand) /\ Head(c.inHand) \in UnitSet
         /\ d.inHand = <<>> /\ d.pending = Len(d.buffered)
         /\ d.decrypt = c.decrypt /\ d.encrypt = c.encrypt
<1> DEFINE x == c.inHand  w == c.wire  b == c.buffered  k == Len(c.buffered)  d == HandOut(c)
           r == b \o w  e == <<>>
<1>1. /\ w \in Seq(UnitSet) /\ b \in Seq(UnitSet) /\ x \in Seq(UnitSet) /\ x # <<>> /\ k \in Nat
      /\ Len(x) <= 1 /\ c.pending \in Nat /\ e \in Seq(UnitSet)
  BY DEF Conduits, Fits
<1>2. d = [c EXCEPT !.inHand = e, !.pending = k]
  BY DEF HandOut
<1>3. k <= WireUnits /\ Len(w) <= WireUnits /\ Len(b) <= WireUnits /\ Len(e) <= 1
  BY DEF Fits
<1>4. FlowOf(c) = (x \o b) \o w
  BY DEF FlowOf
<1>5. e \o b = b
  BY <1>1
<1>6. k = Len(b)
  OBVIOUS
<1> HIDE DEF k, d, x, w, b, e
<1>7. d.inHand = e /\ d.pending = k /\ d.buffered = b /\ d.wire = w
      /\ d.decrypt = c.decrypt /\ d.encrypt = c.encrypt
  BY <1>2 DEF Conduits, w, b
<1>8. d \in Conduits
  BY <1>1, <1>2 DEF Conduits
<1>9. Fits(d)
  BY <1>3, <1>7 DEF Fits
<1>10. FlowOf(c) = x \o r /\ r \in Seq(UnitSet)
  <2>1. (x \o b) \o w = x \o (b \o w)
    <3>1. x \in Seq(UnitSet) /\ b \in Seq(UnitSet) /\ w \in Seq(UnitSet)
      BY <1>1
    <3> QED BY <3>1, Regrouped
  <2>2. r \in Seq(UnitSet)
    BY <1>1, Chained, Zenon
  <2> QED BY <1>4, <2>1, <2>2, Zenon
<1>11. FlowOf(d) = r
  BY <1>5, <1>7, Zenon DEF FlowOf
<1> HIDE DEF r
<1>12. Tail(x \o r) = r /\ Head(x \o r) = Head(x) /\ x \o r # <<>> /\ Head(x) \in UnitSet
  BY <1>1, <1>10, OneInFront, Zenon
<1> QED BY <1>6, <1>7, <1>8, <1>9, <1>10, <1>11, <1>12, Zenon DEF d, x, e

LEMMA Receiving ==
  ASSUME NEW c \in Conduits, Fits(c), NEW g \in Conduits, NEW frame \in Frames,
         Len(c.wire) + 2 <= WireUnits
  PROVE  LET d == Receive(c, g, frame)  n == Len(FlowOf(c)) IN
         /\ d \in Conduits /\ Fits(d) /\ Len(FlowOf(d)) = n + 2 /\ n \in Nat
         /\ \A i \in 1..n : FlowOf(d)[i] = FlowOf(c)[i]
         /\ \A i \in {n + 1, n + 2} :
              FlowOf(d)[i].frame = frame /\ FlowOf(d)[i].enciphered = g.encrypt
         /\ d.inHand = c.inHand /\ d.buffered = c.buffered /\ d.pending = c.pending
         /\ d.decrypt = c.decrypt /\ d.encrypt = c.encrypt
<1> DEFINE x == c.wire  r == c.inHand \o c.buffered  u == Units(frame, g.encrypt)  w == x \o u
           d == Receive(c, g, frame)  f == FlowOf(c)  n == Len(FlowOf(c))
<1>1. g.encrypt \in BOOLEAN /\ x \in Seq(UnitSet) /\ c.inHand \in Seq(UnitSet) /\ c.buffered \in Seq(UnitSet)
      /\ f \in Seq(UnitSet) /\ n \in Nat /\ Len(x) + 2 <= WireUnits /\ Len(x) \in Nat
  <2>1. g.encrypt \in BOOLEAN /\ c.wire \in Seq(UnitSet) /\ c.inHand \in Seq(UnitSet) /\ c.buffered \in Seq(UnitSet)
        /\ FlowOf(c) \in Seq(UnitSet)
    BY FlowsAre
  <2> QED BY <2>1
<1>2. /\ u \in Seq(UnitSet) /\ Len(u) = 2
      /\ u[1].frame = frame /\ u[1].enciphered = g.encrypt
      /\ u[2].frame = frame /\ u[2].enciphered = g.encrypt
  BY <1>1 DEF Units, UnitSet
<1>3. d = [c EXCEPT !.wire = w]
  BY DEF Receive
<1>4. f = r \o x /\ n = Len(f)
  BY DEF FlowOf
<1> HIDE DEF u, x, d, f, n
<1>5. w \in Seq(UnitSet) /\ Len(w) = Len(x) + Len(u)
  BY <1>1, <1>2, Chained, Zenon
<1>6. r \in Seq(UnitSet)
  BY <1>1, Chained, Zenon
<1>7. r \o w = f \o u
  <2>1. r \in Seq(UnitSet) /\ x \in Seq(UnitSet) /\ u \in Seq(UnitSet)
    BY <1>1, <1>2, <1>6
  <2> HIDE DEF r
  <2>2. (r \o x) \o u = r \o (x \o u)
    BY <2>1, Regrouped
  <2> QED BY <1>4, <2>2, Zenon
<1>8. Len(w) <= WireUnits
  <2> HIDE DEF w
  <2> QED BY <1>1, <1>2, <1>5
<1> HIDE DEF w
<1>9. /\ d.wire = w /\ d.inHand = c.inHand /\ d.buffered = c.buffered /\ d.pending = c.pending
      /\ d.decrypt = c.decrypt /\ d.encrypt = c.encrypt
  BY <1>3 DEF Conduits
<1>10. d \in Conduits
  BY <1>3, <1>5 DEF Conduits
<1>11. FlowOf(d) = f \o u
  BY <1>7, <1>9, Zenon DEF FlowOf
<1>12. Fits(d)
  BY <1>8, <1>9 DEF Fits
<1>13. /\ Len(f \o u) = Len(f) + Len(u)
       /\ \A i \in 1..Len(f) : (f \o u)[i] = f[i]
       /\ \A i \in 1..Len(u) : (f \o u)[Len(f) + i] = u[i]
  <2>1. f \in Seq(UnitSet) /\ u \in Seq(UnitSet)
    BY <1>1, <1>2
  <2> QED BY <2>1, Chained
<1> DEFINE z == Len(u)  y == f \o u
<1> HIDE DEF z, y
<1>14. z = 2 /\ Len(y) = n + z /\ (\A i \in 1..n : y[i] = f[i]) /\ (\A i \in 1..z : y[n + i] = u[i])
  BY <1>2, <1>4, <1>13, Zenon DEF z, y
<1>15. Len(y) = n + 2 /\ y[n + 1] = u[1] /\ y[n + 2] = u[2]
  BY <1>1, <1>14
<1>16. FlowOf(d) = y
  BY <1>11 DEF y
<1> QED BY <1>1, <1>2, <1>9, <1>10, <1>12, <1>14, <1>15, <1>16 DEF d, n, f

LEMMA Enabling ==
  ASSUME NEW c \in Conduits, Fits(c), NEW h \in {"inbound", "outbound", "both"}
  PROVE  LET d == Enable(c, h)  a == EnableAnswer(c, h) IN
         /\ d \in Conduits /\ Fits(d)
         /\ d.wire = c.wire /\ d.inHand = c.inHand /\ d.buffered = c.buffered /\ d.pending = c.pending
         /\ a \in {"ok", "overrun", "enabled"}
         /\ a = "ok" => /\ d.decrypt <=> c.decrypt \/ h \in {"inbound", "both"}
                        /\ d.encrypt <=> c.encrypt \/ h \in {"outbound", "both"}
         /\ h = "inbound" /\ ~c.decrypt /\ c.pending = 0 => a = "ok"
         /\ h = "outbound" /\ ~c.encrypt => a = "ok"
         /\ h = "both" /\ ~c.decrypt /\ ~c.encrypt /\ c.pending = 0 => a = "ok"
<1> DEFINE x == (c.decrypt \/ h \in {"inbound", "both"})  y == (c.encrypt \/ h \in {"outbound", "both"})
<1>1. x \in BOOLEAN /\ y \in BOOLEAN
  OBVIOUS
<1>2. EnableAnswer(c, h) # "ok" => Enable(c, h) = c
  BY DEF Enable
<1>3. EnableAnswer(c, h) = "ok" => Enable(c, h) = [c EXCEPT !.decrypt = x, !.encrypt = y]
  BY DEF Enable
<1> HIDE DEF x, y
<1>4. /\ Enable(c, h) \in Conduits /\ Enable(c, h).wire = c.wire /\ Enable(c, h).inHand = c.inHand
      /\ Enable(c, h).buffered = c.buffered /\ Enable(c, h).pending = c.pending
      /\ EnableAnswer(c, h) = "ok" => Enable(c, h).decrypt = x /\ Enable(c, h).encrypt = y
  BY <1>1, <1>2, <1>3 DEF Conduits
<1>5. EnableAnswer(c, h) \in {"ok", "overrun", "enabled"}
  BY DEF EnableAnswer, Switchable
<1>6. /\ h = "inbound" /\ ~c.decrypt /\ c.pending = 0 => EnableAnswer(c, h) = "ok"
      /\ h = "outbound" /\ ~c.encrypt => EnableAnswer(c, h) = "ok"
      /\ h = "both" /\ ~c.decrypt /\ ~c.encrypt /\ c.pending = 0 => EnableAnswer(c, h) = "ok"
  BY DEF EnableAnswer, Switchable
<1>7. Fits(Enable(c, h))
  BY <1>4 DEF Fits
<1> QED BY <1>1, <1>4, <1>5, <1>6, <1>7 DEF x, y
-----------------------------------------------------------------------------
(* Every step keeps the types.                                                    *)
LEMMA ReadFailsTyped ==
  ASSUME Typed, NEW e \in Ends, ReadFails(e), UNCHANGED setting
  PROVE  Typed'
BY DEF ReadFails, Typed, StreamsTyped, LoginsTyped, Calling, Step, Doing, Asks, Failed, vars, streams, logins, pumps, Answer, AnswerTaken, Stop, Goes, Causes

LEMMA WriteFailsTyped ==
  ASSUME Typed, NEW e \in Ends, WriteFails(e), UNCHANGED setting
  PROVE  Typed'
BY DEF WriteFails, Typed, StreamsTyped, LoginsTyped, Calling, Step, Doing, Asks, Failed, vars, streams, logins, pumps, Answer, AnswerTaken, Stop, Goes, Causes, Answers

LEMMA CoordinatorEndsTyped ==
  ASSUME Typed, NEW e \in Ends, CoordinatorEnds(e), UNCHANGED setting
  PROVE  Typed'
BY DEF CoordinatorEnds, Typed, StreamsTyped, LoginsTyped, Calling, Step, Doing, Asks, Failed, vars, streams, logins, pumps, Answer, AnswerTaken, Stop, Goes

LEMMA MakesCallTyped ==
  ASSUME Typed, NEW e \in Ends, MakesCall(e), UNCHANGED setting
  PROVE  Typed'
BY DEF MakesCall, Typed, StreamsTyped, LoginsTyped, Calling, Step, Doing, Asks, Failed, vars, streams, logins, pumps, Answer, AnswerTaken, Stop, Goes, Answers

LEMMA CallRejectedTyped ==
  ASSUME Typed, NEW e \in Ends, CallRejected(e), UNCHANGED setting
  PROVE  Typed'
BY DEF CallRejected, Typed, StreamsTyped, LoginsTyped, Calling, Step, Doing, Asks, Failed, vars, streams, logins, pumps, Answer, AnswerTaken, Stop, Goes, Answers

LEMMA CallExpiresTyped ==
  ASSUME Typed, NEW e \in Ends, CallExpires(e), UNCHANGED setting
  PROVE  Typed'
BY ZenonT(60) DEF CallExpires, Typed, StreamsTyped, LoginsTyped, Calling, Step, Doing, Asks, Failed, vars, streams, logins, pumps, Answer, AnswerTaken, Stop, Goes, Causes, Answers

LEMMA CallerClosesTyped ==
  ASSUME Typed, NEW e \in Ends, CallerCloses(e), UNCHANGED setting
  PROVE  Typed'
BY DEF CallerCloses, Typed, StreamsTyped, LoginsTyped, Calling, Step, Doing, Asks, Failed, vars, streams, logins, pumps, Answer, AnswerTaken, Stop, Goes, Causes

LEMMA ExpiresTyped ==
  ASSUME Typed, NEW e \in Ends, Expires(e), UNCHANGED setting
  PROVE  Typed'
BY DEF Expires, Typed, StreamsTyped, LoginsTyped, Calling, Step, Doing, Asks, Failed, vars, streams, logins, pumps, Answer, AnswerTaken, Stop, Goes

LEMMA HangsUpTyped ==
  ASSUME Typed, NEW e \in Ends, HangsUp(e), UNCHANGED setting
  PROVE  Typed'
BY DEF HangsUp, Typed, StreamsTyped, LoginsTyped, Calling, Step, Doing, Asks, Failed, vars, streams, logins, pumps, Answer, AnswerTaken, Stop, Goes, Causes

LEMMA TakesSnapshotTyped ==
  ASSUME Typed, NEW e \in Ends, TakesSnapshot(e), UNCHANGED setting
  PROVE  Typed'
BY DEF TakesSnapshot, Typed, StreamsTyped, LoginsTyped, Calling, Step, Doing, Asks, Failed, vars, streams, logins, pumps, Answer, AnswerTaken, Stop, Goes, Answers

LEMMA TakesFrameTyped ==
  ASSUME Typed, NEW e \in Ends, TakesFrame(e), UNCHANGED setting
  PROVE  Typed'
<1>1. session' \in [Ends -> Sessions] /\ queue' \in [Ends -> Seq(Packets)]
  <2>1. session[e] \in Sessions /\ queue[e] \in Seq(Packets)
    BY DEF Typed, StreamsTyped
  <2>2. Transition(session[e], framed[e].packet, framed[e].from) \in Sessions
    BY <2>1, Transitions
  <2>3. framed[e] # Garbage => framed[e].packet \in Packets
    BY DEF Typed, StreamsTyped, TakesFrame, Frames
  <2> DEFINE y == Transition(session[e], framed[e].packet, framed[e].from)  p == framed[e].packet
  <2>4. \/ session' = [session EXCEPT ![e] = y] /\ queue' = [queue EXCEPT ![e] = Append(queue[e], p)]
           /\ p \in Packets
        \/ session' = session /\ queue' = queue
    BY <2>3 DEF TakesFrame, Legible
  <2>5. session \in [Ends -> Sessions] /\ queue \in [Ends -> Seq(Packets)]
    BY DEF Typed, StreamsTyped
  <2>6. y \in Sessions
    BY <2>2
  <2> DEFINE q == Append(queue[e], p)
  <2>7. p \in Packets => q \in Seq(Packets)
    BY <2>1, Appended
  <2> HIDE DEF y, p, q
  <2>8. session' \in [Ends -> Sessions]
    BY <2>4, <2>5, <2>6
  <2>9. queue' \in [Ends -> Seq(Packets)]
    <3>1. (queue' = [queue EXCEPT ![e] = q] /\ p \in Packets) \/ queue' = queue
      BY <2>4, Zenon DEF q
    <3> QED BY <3>1, <2>5, <2>7
  <2> QED BY <2>8, <2>9
<1> QED BY ZenonT(60), <1>1 DEF TakesFrame, Causes, Typed, StreamsTyped, LoginsTyped, Calling, Step, Doing, Asks, Failed, vars, streams, logins, pumps, Answer, AnswerTaken, Stop, Goes

LEMMA TakesWriteTyped ==
  ASSUME Typed, NEW e \in Ends, TakesWrite(e), UNCHANGED setting
  PROVE  Typed'
<1> DEFINE f == [packet |-> Step(e)[2], from |-> e, compressed |-> session[e].compressed]
<1>1. f \in Frames
  <2>1. Step(e) \in Steps /\ Step(e)[1] = "write"
    BY DEF TakesWrite, Asks, Doing, Step, Typed, LoginsTyped
  <2>2. Step(e)[2] \in Packets
    BY <2>1, StepKinds
  <2>3. session[e].compressed \in BOOLEAN
    BY DEF Typed, StreamsTyped, Sessions
  <2> QED BY <2>2, <2>3 DEF Frames
<1> HIDE DEF f
<1>2. job' \in [Ends -> Frames \cup {NoFrame}] /\ (coordinator'[e] = "writing" => job'[e] \in Frames)
  BY <1>1 DEF TakesWrite, Typed, StreamsTyped, f
<1>3. answer' \in [Ends -> Answers] /\ coordinator' \in [Ends -> {"select", "writing", "written", "over"}]
  BY DEF TakesWrite, Typed, StreamsTyped, LoginsTyped, Answer, Answers
<1>4. \A x \in Ends : coordinator'[x] \in {"writing", "written"} => job'[x] \in Frames
  BY <1>1, <1>2 DEF TakesWrite, Typed, StreamsTyped
<1> QED BY <1>2, <1>3, <1>4 DEF TakesWrite, Typed, StreamsTyped, LoginsTyped, Calling, Step, Doing, Asks, Failed, vars, streams, logins, pumps, Answer, AnswerTaken, Stop, Goes

LEMMA FinishesWriteTyped ==
  ASSUME Typed, NEW e \in Ends, FinishesWrite(e), UNCHANGED setting
  PROVE  Typed'
<1>1. session' \in [Ends -> Sessions]
  <2>1. session[e] \in Sessions
    BY DEF Typed, StreamsTyped
  <2>2. Transition(session[e], job[e].packet, e) \in Sessions
    BY <2>1, Transitions
  <2> QED BY <2>1, <2>2 DEF FinishesWrite, Typed, StreamsTyped
<1> QED BY <1>1 DEF FinishesWrite, Answers, Typed, StreamsTyped, LoginsTyped, Calling, Step, Doing, Asks, Failed, vars, streams, logins, pumps, Answer, AnswerTaken, Stop, Goes

LEMMA CallReturnsTyped ==
  ASSUME Typed, NEW e \in Ends, CallReturns(e), UNCHANGED setting
  PROVE  Typed'
<1>1. /\ todo[e] \in Seq(Steps) /\ Refusal \in Seq(Steps) /\ <<>> \in Seq(Steps)
      /\ todo \in [Ends -> Seq(Steps)] /\ outcome \in [Ends -> Outcomes] /\ answer[e] \in Answers
  <2>1. Refusal \in Seq(Steps)
    BY StepsAre, PacketsAre, OneLast DEF Refusal
  <2> QED BY <2>1 DEF Typed, LoginsTyped
<1>2. CASE answer[e] # "ok" /\ ~OutboundSwitchLost(e)
  <2>1. Fails(e, Reason(answer[e])) /\ UNCHANGED held
    BY <1>2 DEF CallReturns
  <2>2. Reason(answer[e]) \in Outcomes \ {"none", "ok"}
    BY <1>1, <1>2 DEF Reason, Outcomes, Answers, CallReturns
  <2>3. /\ todo' \in [Ends -> Seq(Steps)] /\ outcome' \in [Ends -> Outcomes]
        /\ todo'[e] \in {<<>>, Refusal} /\ \A x \in Ends : x # e => todo'[x] = todo[x] /\ outcome'[x] = outcome[x]
    BY <1>1, <2>1, <2>2 DEF Fails
  <2>4. answer' \in [Ends -> Answers] /\ answer'[e] = "none" /\ \A x \in Ends : x # e => answer'[x] = answer[x]
    BY DEF CallReturns, Answer, Answers, Typed, LoginsTyped
  <2>5. \A x \in Ends : answer'[x] # "none" => Calling(x)'
    BY <2>3, <2>4 DEF Calling, Step, Typed, LoginsTyped
  <2>6. Failed("server")' => todo'["server"] \in {<<>>, Refusal}
    BY <2>3, TwoEnds DEF Failed, Typed, LoginsTyped
  <2> QED BY <2>1, <2>3, <2>4, <2>5, <2>6 DEF CallReturns, Typed, StreamsTyped, LoginsTyped, streams, pumps
<1>3. CASE ~(answer[e] # "ok" /\ ~OutboundSwitchLost(e))
  <2>1. /\ todo' = [todo EXCEPT ![e] = Tail(@)] /\ outcome' = outcome /\ held' \in BOOLEAN
        /\ answer[e] # "none"
    BY <1>3 DEF CallReturns, Goes, Typed, LoginsTyped
  <2>2. todo[e] # <<>>
    BY <2>1 DEF Typed, LoginsTyped, Calling
  <2>3. Tail(todo[e]) \in Seq(Steps)
    BY <1>1, <2>2, RestOf
  <2>4. Tail(Refusal) = <<>>
    BY OneLast DEF Refusal
  <2>5. todo' \in [Ends -> Seq(Steps)] /\ \A x \in Ends : x # e => todo'[x] = todo[x]
    BY <1>1, <2>1, <2>3
  <2>6. Failed("server")' => todo'["server"] \in {<<>>, Refusal}
    BY <1>1, <2>1, <2>2, <2>4, TwoEnds DEF Failed, Typed, LoginsTyped
  <2>7. \A x \in Ends : answer'[x] # "none" => Calling(x)'
    BY <2>5 DEF CallReturns, Answer, Calling, Step, Typed, LoginsTyped
  <2> QED BY <1>1, <2>1, <2>5, <2>6, <2>7 DEF CallReturns, Answers, Typed, StreamsTyped, LoginsTyped, Calling, Step, Doing, Asks, Failed, vars, streams, logins, pumps, Answer, AnswerTaken, Stop, Goes
<1> QED BY <1>2, <1>3


LEMMA ConduitMoved ==
  ASSUME Typed, NEW e \in Ends, NEW d \in Conduits, Fits(d), conduit' = [conduit EXCEPT ![e] = d]
  PROVE  /\ conduit' \in [Ends -> Conduits] /\ \A x \in Ends : Fits(conduit'[x])
         /\ conduit'[e] = d /\ \A x \in Ends \ {e} : conduit'[x] = conduit[x]
<1>1. conduit \in [Ends -> Conduits] /\ \A x \in Ends : Fits(conduit[x])
  BY DEF Typed, StreamsTyped
<1>2. conduit'[e] = d /\ \A x \in Ends \ {e} : conduit'[x] = conduit[x]
  BY <1>1
<1>3. conduit' \in [Ends -> Conduits]
  BY <1>1
<1>4. ASSUME NEW x \in Ends PROVE Fits(conduit'[x])
  BY <1>1, <1>2, Zenon
<1> QED BY <1>2, <1>3, <1>4

LEMMA ReadsTransportMoves ==
  ASSUME Typed, NEW e \in Ends, ReadsTransport(e)
  PROVE  /\ conduit' \in [Ends -> Conduits] /\ \A x \in Ends : Fits(conduit'[x])
         /\ \A x \in Ends \ {e} : conduit'[x] = conduit[x]
         /\ FlowOf(conduit'[e]) = FlowOf(conduit[e]) /\ conduit'[e].inHand # <<>>
         /\ conduit'[e].decrypt = conduit[e].decrypt /\ conduit'[e].encrypt = conduit[e].encrypt
<1>1. conduit[e] \in Conduits /\ Fits(conduit[e]) /\ CanRead(conduit[e])
  BY DEF Typed, StreamsTyped, ReadsTransport
<1>2. PICK n \in ReadAheads(conduit[e]) : conduit' = [conduit EXCEPT ![e] = BufferedRead(conduit[e], n)]
  BY DEF ReadsTransport
<1> DEFINE d == BufferedRead(conduit[e], n)
<1>3. /\ d \in Conduits /\ Fits(d) /\ FlowOf(d) = FlowOf(conduit[e]) /\ d.inHand # <<>>
      /\ d.decrypt = conduit[e].decrypt /\ d.encrypt = conduit[e].encrypt
  BY <1>1, ReadingAhead
<1>4. conduit' = [conduit EXCEPT ![e] = d]
  BY <1>2
<1> HIDE DEF d
<1>5. /\ conduit' \in [Ends -> Conduits] /\ \A x \in Ends : Fits(conduit'[x])
      /\ conduit'[e] = d /\ \A x \in Ends \ {e} : conduit'[x] = conduit[x]
  BY <1>3, <1>4, ConduitMoved
<1> QED BY <1>3, <1>5

LEMMA ReadsTransportTyped ==
  ASSUME Typed, NEW e \in Ends, ReadsTransport(e), UNCHANGED setting
  PROVE  Typed'
<1>1. conduit' \in [Ends -> Conduits] /\ \A x \in Ends : Fits(conduit'[x])
  BY ReadsTransportMoves
<1> QED BY <1>1 DEF ReadsTransport, Typed, StreamsTyped, LoginsTyped, Calling, Step, Failed, streams, logins, pumps

LEMMA HandsOutMoves ==
  ASSUME Typed, NEW e \in Ends, HandsOut(e)
  PROVE  /\ conduit' \in [Ends -> Conduits] /\ \A x \in Ends : Fits(conduit'[x])
         /\ \A x \in Ends \ {e} : conduit'[x] = conduit[x]
         /\ FlowOf(conduit'[e]) = Tail(FlowOf(conduit[e])) /\ FlowOf(conduit[e]) # <<>>
         /\ Head(FlowOf(conduit[e])) = Head(conduit[e].inHand) /\ Head(conduit[e].inHand) \in UnitSet
         /\ conduit'[e].inHand = <<>> /\ conduit'[e].pending = Len(conduit'[e].buffered)
         /\ conduit'[e].decrypt = conduit[e].decrypt /\ conduit'[e].encrypt = conduit[e].encrypt
<1>1. conduit[e] \in Conduits /\ Fits(conduit[e]) /\ conduit[e].inHand # <<>>
  BY DEF Typed, StreamsTyped, HandsOut
<1> DEFINE d == HandOut(conduit[e])
<1>2. conduit' = [conduit EXCEPT ![e] = d]
  BY DEF HandsOut
<1>3. /\ d \in Conduits /\ Fits(d) /\ FlowOf(d) = Tail(FlowOf(conduit[e])) /\ FlowOf(conduit[e]) # <<>>
      /\ Head(FlowOf(conduit[e])) = Head(conduit[e].inHand) /\ Head(conduit[e].inHand) \in UnitSet
      /\ d.inHand = <<>> /\ d.pending = Len(d.buffered)
      /\ d.decrypt = conduit[e].decrypt /\ d.encrypt = conduit[e].encrypt
  BY <1>1, HandingOut
<1> HIDE DEF d
<1>4. /\ conduit' \in [Ends -> Conduits] /\ \A x \in Ends : Fits(conduit'[x])
      /\ conduit'[e] = d /\ \A x \in Ends \ {e} : conduit'[x] = conduit[x]
  BY <1>2, <1>3, ConduitMoved
<1> QED BY <1>3, <1>4

LEMMA HandsOutTyped ==
  ASSUME Typed, NEW e \in Ends, HandsOut(e), UNCHANGED setting
  PROVE  Typed'
<1>1. conduit' \in [Ends -> Conduits] /\ \A x \in Ends : Fits(conduit'[x])
  BY HandsOutMoves
<1>2. Head(conduit[e].inHand).frame \in Frames
  <2>1. Head(conduit[e].inHand) \in UnitSet
    BY HandsOutMoves
  <2> QED BY <2>1 DEF UnitSet
<1> DEFINE f == IF HandsOutClear(conduit[e]) THEN Head(conduit[e].inHand).frame ELSE Garbage
<1>3. f \in Frames \cup {Garbage}
  BY <1>2
<1>4. \/ framed' = framed /\ reader' = [reader EXCEPT ![e] = "payload"] /\ UNCHANGED <<stopping, cause>>
      \/ framed' = framed /\ reader' = [reader EXCEPT ![e] = "exited"] /\ Stop(e, "garbled")
      \/ framed' = [framed EXCEPT ![e] = f] /\ reader' = [reader EXCEPT ![e] = "handing"] /\ UNCHANGED <<stopping, cause>>
  BY DEF HandsOut
<1> HIDE DEF f
<1>5. framed \in [Ends -> Frames \cup {NoFrame, Garbage}] /\ framed' \in [Ends -> Frames \cup {NoFrame, Garbage}]
  <2> DEFINE F == Frames \cup {NoFrame, Garbage}
  <2>1. framed \in [Ends -> F]
    BY DEF Typed, StreamsTyped
  <2>2. f \in F
    BY <1>3
  <2>3. framed' = framed \/ framed' = [framed EXCEPT ![e] = f]
    BY <1>4
  <2> HIDE DEF F
  <2>4. framed' \in [Ends -> F]
    BY <2>1, <2>2, <2>3
  <2> QED BY <2>1, <2>4 DEF F
<1>6. \A x \in Ends : reader'[x] = "handing" => framed'[x] \in Frames \cup {Garbage}
  BY <1>3, <1>4 DEF Typed, StreamsTyped
<1>7. reader' \in [Ends -> {"length", "payload", "handing", "exited"}]
  BY <1>4 DEF Typed, StreamsTyped
<1>8. stopping' \in [Ends -> BOOLEAN] /\ cause' \in [Ends -> Causes]
  BY <1>4 DEF Typed, StreamsTyped, Stop, Causes
<1> QED BY <1>1, <1>5, <1>6, <1>7, <1>8 DEF HandsOut, Typed, StreamsTyped, LoginsTyped, Calling, Step, Failed, streams, logins, pumps

LEMMA TransmitsMoves ==
  ASSUME Typed, NEW e \in Ends, Transmits(e)
  PROVE  LET p == Peer(e)  n == Len(FlowOf(conduit[p])) IN
         /\ conduit' \in [Ends -> Conduits] /\ \A x \in Ends : Fits(conduit'[x])
         /\ conduit'[e] = conduit[e]
         /\ Len(FlowOf(conduit'[p])) = n + 2 /\ n \in Nat
         /\ \A i \in 1..n : FlowOf(conduit'[p])[i] = FlowOf(conduit[p])[i]
         /\ \A i \in {n + 1, n + 2} :
              FlowOf(conduit'[p])[i].frame = job[e] /\ FlowOf(conduit'[p])[i].enciphered = conduit[e].encrypt
         /\ conduit'[p].inHand = conduit[p].inHand /\ conduit'[p].buffered = conduit[p].buffered
         /\ conduit'[p].pending = conduit[p].pending
         /\ conduit'[p].decrypt = conduit[p].decrypt /\ conduit'[p].encrypt = conduit[p].encrypt
<1> DEFINE p == Peer(e)  c == conduit[p]  d == Receive(c, conduit[e], job[e])
<1>1. p \in Ends /\ p # e
  BY TwoEnds
<1>2. c \in Conduits /\ Fits(c) /\ conduit[e] \in Conduits /\ job[e] \in Frames
  BY <1>1 DEF Typed, StreamsTyped, Transmits
<1>3. conduit' = [conduit EXCEPT ![p] = d] /\ Len(c.wire) + 2 <= WireUnits
  BY DEF Transmits
<1>4. LET n == Len(FlowOf(c)) IN
      /\ d \in Conduits /\ Fits(d) /\ Len(FlowOf(d)) = n + 2 /\ n \in Nat
      /\ \A i \in 1..n : FlowOf(d)[i] = FlowOf(c)[i]
      /\ \A i \in {n + 1, n + 2} :
           FlowOf(d)[i].frame = job[e] /\ FlowOf(d)[i].enciphered = conduit[e].encrypt
      /\ d.inHand = c.inHand /\ d.buffered = c.buffered /\ d.pending = c.pending
      /\ d.decrypt = c.decrypt /\ d.encrypt = c.encrypt
  <2> HIDE DEF c
  <2> QED BY <1>2, <1>3, Receiving
<1> HIDE DEF d
<1>5. /\ conduit' \in [Ends -> Conduits] /\ \A x \in Ends : Fits(conduit'[x])
      /\ conduit'[p] = d /\ \A x \in Ends \ {p} : conduit'[x] = conduit[x]
  <2> HIDE DEF p
  <2> QED BY <1>1, <1>3, <1>4, ConduitMoved
<1> QED BY <1>1, <1>4, <1>5

LEMMA TransmitsTyped ==
  ASSUME Typed, NEW e \in Ends, Transmits(e), UNCHANGED setting
  PROVE  Typed'
<1>1. conduit' \in [Ends -> Conduits] /\ \A x \in Ends : Fits(conduit'[x])
  BY TransmitsMoves
<1> DEFINE w == [frame |-> job[e], enciphered |-> conduit[e].encrypt]  l == Append(log[e], w)
<1>2. l \in Seq(Words)
  <2>1. w \in Words
    <3>1. job[e] \in Frames /\ conduit[e] \in Conduits
      BY DEF Typed, StreamsTyped, Transmits
    <3>2. conduit[e].encrypt \in BOOLEAN
      BY <3>1 DEF Conduits
    <3> QED BY <3>1, <3>2 DEF Words
  <2>2. log[e] \in Seq(Words)
    BY DEF Typed, StreamsTyped
  <2> HIDE DEF w
  <2> QED BY <2>1, <2>2, Appended
<1>3. log' = [log EXCEPT ![e] = l]
  BY DEF Transmits
<1> HIDE DEF l
<1>4. log' \in [Ends -> Seq(Words)]
  BY <1>2, <1>3 DEF Typed, StreamsTyped
<1> QED BY <1>1, <1>4 DEF Transmits, Typed, StreamsTyped, LoginsTyped, Calling, Step, Failed, streams, logins, pumps

LEMMA TakesControlMoves ==
  ASSUME Typed, NEW e \in Ends, TakesControl(e)
  PROVE  LET h == Step(e)[2]  a == answer'[e]  c == conduit[e]  d == conduit'[e] IN
         /\ conduit' \in [Ends -> Conduits] /\ \A x \in Ends : Fits(conduit'[x])
         /\ \A x \in Ends \ {e} : conduit'[x] = conduit[x]
         /\ d.wire = c.wire /\ d.inHand = c.inHand /\ d.buffered = c.buffered /\ d.pending = c.pending
         /\ a \in {"ok", "overrun", "enabled"} /\ answer' = [answer EXCEPT ![e] = a]
         /\ a = "ok" => /\ d.decrypt <=> c.decrypt \/ h \in {"inbound", "both"}
                        /\ d.encrypt <=> c.encrypt \/ h \in {"outbound", "both"}
         /\ h = "inbound" /\ ~c.decrypt /\ c.pending = 0 => a = "ok"
         /\ h = "outbound" /\ ~c.encrypt => a = "ok"
         /\ h = "both" /\ ~c.decrypt /\ ~c.encrypt /\ c.pending = 0 => a = "ok"
<1> DEFINE h == Step(e)[2]  c == conduit[e]  d == Enable(c, h)  a == EnableAnswer(c, h)
<1>1. c \in Conduits /\ Fits(c) /\ answer \in [Ends -> Answers]
  BY DEF Typed, StreamsTyped, LoginsTyped
<1>2. h \in {"inbound", "outbound", "both"}
  <2>1. Step(e) \in Steps /\ Step(e)[1] = "control"
    BY DEF Typed, LoginsTyped, TakesControl, Asks, Doing, Step
  <2> QED BY <2>1, StepKinds
<1>3. conduit' = [conduit EXCEPT ![e] = d] /\ answer' = [answer EXCEPT ![e] = a]
  BY DEF TakesControl, Answer
<1> HIDE DEF h, c
<1>4. /\ d \in Conduits /\ Fits(d)
      /\ d.wire = c.wire /\ d.inHand = c.inHand /\ d.buffered = c.buffered /\ d.pending = c.pending
      /\ a \in {"ok", "overrun", "enabled"}
      /\ a = "ok" => /\ d.decrypt <=> c.decrypt \/ h \in {"inbound", "both"}
                     /\ d.encrypt <=> c.encrypt \/ h \in {"outbound", "both"}
      /\ h = "inbound" /\ ~c.decrypt /\ c.pending = 0 => a = "ok"
      /\ h = "outbound" /\ ~c.encrypt => a = "ok"
      /\ h = "both" /\ ~c.decrypt /\ ~c.encrypt /\ c.pending = 0 => a = "ok"
  BY <1>1, <1>2, Enabling
<1> HIDE DEF d, a
<1>5. /\ conduit' \in [Ends -> Conduits] /\ \A x \in Ends : Fits(conduit'[x])
      /\ conduit'[e] = d /\ \A x \in Ends \ {e} : conduit'[x] = conduit[x]
  BY <1>3, <1>4, ConduitMoved
<1>6. answer'[e] = a
  BY <1>1, <1>3
<1> QED BY <1>3, <1>4, <1>5, <1>6 DEF c, h

LEMMA TakesControlTyped ==
  ASSUME Typed, NEW e \in Ends, TakesControl(e), UNCHANGED setting
  PROVE  Typed'
<1>1. /\ conduit' \in [Ends -> Conduits] /\ \A x \in Ends : Fits(conduit'[x])
      /\ answer'[e] \in {"ok", "overrun", "enabled"} /\ answer' = [answer EXCEPT ![e] = answer'[e]]
  BY TakesControlMoves
<1>2. answer' \in [Ends -> Answers]
  BY <1>1 DEF Typed, LoginsTyped, Answers
<1>3. Calling(e)
  BY DEF TakesControl, Asks, Doing, Calling
<1>4. \A x \in Ends : answer'[x] # "none" => Calling(x)
  <2>1. \A x \in Ends \ {e} : answer'[x] = answer[x]
    BY <1>1 DEF Typed, LoginsTyped
  <2> QED BY <2>1, <1>3, Zenon DEF Typed, LoginsTyped
<1>5. \A x \in Ends : answer'[x] # "none" => Calling(x)'
  BY <1>4 DEF TakesControl, Calling, Step
<1> QED BY <1>1, <1>2, <1>5 DEF TakesControl, Typed, StreamsTyped, LoginsTyped, Failed, streams, logins, pumps

LEMMA ServiceReturnsTyped ==
  ASSUME Typed, NEW e \in Ends, ServiceReturns(e), UNCHANGED setting
  PROVE  Typed'
<1>1. /\ Refusal \in Seq(Steps) /\ <<>> \in Seq(Steps) /\ Tail(todo[e]) \in Seq(Steps)
      /\ todo \in [Ends -> Seq(Steps)] /\ outcome \in [Ends -> Outcomes] /\ todo[e] # <<>>
      /\ answer[e] = "none"
  <2>1. Refusal \in Seq(Steps)
    BY StepsAre, PacketsAre, OneLast DEF Refusal
  <2>2. todo[e] \in Seq(Steps) /\ todo[e] # <<>>
    BY DEF Typed, LoginsTyped, ServiceReturns, Doing
  <2>3. Tail(todo[e]) \in Seq(Steps)
    BY <2>2, RestOf
  <2>4. ~Calling(e)
    BY DEF ServiceReturns, Doing, Calling
  <2> QED BY <2>1, <2>2, <2>3, <2>4 DEF Typed, LoginsTyped
<1> DEFINE t == Tail(todo[e])
<1>2. /\ todo' \in [Ends -> Seq(Steps)] /\ outcome' \in [Ends -> Outcomes]
      /\ \A x \in Ends \ {e} : todo'[x] = todo[x] /\ outcome'[x] = outcome[x]
      /\ (outcome'[e] = outcome[e] /\ todo'[e] = t) \/ todo'[e] \in {<<>>, Refusal}
  <2>1. \/ todo' = [todo EXCEPT ![e] = t] /\ outcome' = outcome
        \/ Fails(e, "authentication") \/ Fails(e, "expired")
    BY DEF ServiceReturns, Goes
  <2> HIDE DEF t
  <2> QED BY <1>1, <2>1 DEF Fails, Outcomes, t
<1>3. Failed("server")' => todo'["server"] \in {<<>>, Refusal}
  <2>1. Failed("server") => e # "server"
    <3>1. Refusal # <<>> /\ Head(Refusal)[1] # "service"
      BY OneLast, Kinds DEF Refusal
    <3> QED BY <3>1 DEF Typed, LoginsTyped, ServiceReturns, Doing, Step
  <2> QED BY <1>2, <2>1, TwoEnds DEF Failed, Typed, LoginsTyped
<1>4. \A x \in Ends : answer'[x] # "none" => Calling(x)'
  BY <1>1, <1>2 DEF ServiceReturns, Calling, Step, Typed, LoginsTyped
<1> QED BY <1>2, <1>3, <1>4 DEF ServiceReturns, Typed, StreamsTyped, LoginsTyped, streams, pumps

LEMMA ReadReturnsErrorTyped ==
  ASSUME Typed, NEW e \in Ends, ReadReturnsError(e), UNCHANGED setting
  PROVE  Typed'
<1>1. /\ Refusal \in Seq(Steps) /\ <<>> \in Seq(Steps) /\ answer[e] = "none"
      /\ todo \in [Ends -> Seq(Steps)] /\ outcome \in [Ends -> Outcomes]
  <2>1. Refusal \in Seq(Steps)
    BY StepsAre, PacketsAre, OneLast DEF Refusal
  <2>2. ~Calling(e)
    BY DEF ReadReturnsError, Doing, Calling
  <2> QED BY <2>1, <2>2 DEF Typed, LoginsTyped
<1>2. /\ todo' \in [Ends -> Seq(Steps)] /\ outcome' \in [Ends -> Outcomes]
      /\ \A x \in Ends \ {e} : todo'[x] = todo[x] /\ outcome'[x] = outcome[x]
      /\ todo'[e] \in {<<>>, Refusal}
  <2>1. Fails(e, "ended") \/ Fails(e, "expired")
    BY DEF ReadReturnsError
  <2> QED BY <1>1, <2>1 DEF Fails, Outcomes
<1>3. Failed("server")' => todo'["server"] \in {<<>>, Refusal}
  BY <1>2, TwoEnds DEF Failed, Typed, LoginsTyped
<1>4. \A x \in Ends : answer'[x] # "none" => Calling(x)'
  BY <1>1, <1>2 DEF ReadReturnsError, Calling, Step, Typed, LoginsTyped
<1> QED BY <1>2, <1>3, <1>4 DEF ReadReturnsError, Typed, StreamsTyped, LoginsTyped, streams, pumps

LEMMA LoginReturnsTyped ==
  ASSUME Typed, NEW e \in Ends, LoginReturns(e), UNCHANGED setting
  PROVE  Typed'
<1>1. /\ todo \in [Ends -> Seq(Steps)] /\ outcome \in [Ends -> Outcomes] /\ Tail(todo[e]) \in Seq(Steps)
      /\ answer[e] = "none"
  <2>1. todo[e] \in Seq(Steps) /\ todo[e] # <<>>
    BY DEF Typed, LoginsTyped, LoginReturns, Doing
  <2> QED BY <2>1, RestOf DEF Typed, LoginsTyped, LoginReturns, Doing, Calling
<1> DEFINE t == Tail(todo[e])
<1>2. todo' = [todo EXCEPT ![e] = t] /\ outcome' = [outcome EXCEPT ![e] = "ok"] /\ t \in Seq(Steps)
  BY <1>1 DEF LoginReturns
<1> HIDE DEF t
<1>3. /\ todo' \in [Ends -> Seq(Steps)] /\ outcome' \in [Ends -> Outcomes]
      /\ \A x \in Ends \ {e} : todo'[x] = todo[x] /\ outcome'[x] = outcome[x]
      /\ outcome'[e] = "ok"
  BY <1>1, <1>2 DEF Outcomes
<1>4. Failed("server")' => todo'["server"] \in {<<>>, Refusal}
  BY <1>3, TwoEnds DEF Failed, Typed, LoginsTyped
<1>5. \A x \in Ends : answer'[x] # "none" => Calling(x)'
  BY <1>1, <1>3 DEF LoginReturns, Calling, Step, Typed, LoginsTyped
<1> QED BY <1>3, <1>4, <1>5 DEF LoginReturns, Typed, StreamsTyped, LoginsTyped, streams, pumps

(* What a client has to do is typed whatever it reads.                              *)
LEMMA NegotiatorReadsTyped ==
  ASSUME NEW p
  PROVE  NegotiatorReads(p) \in Seq(Steps)
<1>1. Awaiting \in Seq(Steps) /\ Returning \in Seq(Steps)
  BY StepsAre, OneLast DEF Awaiting, Returning
<1>2. Client18 \in Seq(Steps) /\ Client17 \in Seq(Steps) /\ Client14 \in Seq(Steps) /\ Client10 \in Seq(Steps)
  <2>1. /\ Write("game") \in Steps /\ Write("configuration_finished") \in Steps
        /\ Write("known_packs") \in Steps /\ Write("login_acknowledged") \in Steps /\ Return \in Steps
    BY StepsAre, PacketsAre
  <2>2. Playing \in Seq(Steps)
    BY <2>1, OneLast DEF Playing
  <2>3. Client18 \in Seq(Steps)
    BY <2>1, <2>2, OneFirst, Zenon DEF Client18
  <2>4. Client17 \in Seq(Steps)
    BY <2>1, <2>3, OneFirst, Zenon DEF Client17
  <2>5. Client14 \in Seq(Steps)
    BY <1>1, <2>1, OneFirst, Zenon DEF Client14
  <2>6. Behind10 \in Seq(Steps)
    BY <1>1 DEF Behind10
  <2>7. Client10 \in Seq(Steps)
    BY <2>1, <2>6, OneFirst, Zenon DEF Client10
  <2> QED BY <2>3, <2>4, <2>5, <2>7
<1>3. Client2 \in Seq(Steps)
  <2>1. /\ Control("outbound") \in Steps /\ Control("inbound") \in Steps
        /\ Write("encryption_response") \in Steps /\ Join \in Steps
    BY StepsAre, PacketsAre
  <2>2. Client5 \in Seq(Steps)
    BY <1>1, <2>1, OneFirst, Zenon DEF Client5
  <2>3. Client4 \in Seq(Steps)
    BY <2>1, <2>2, OneFirst, Zenon DEF Client4
  <2>4. Client3 \in Seq(Steps)
    BY <2>1, <2>3, OneFirst, Zenon DEF Client3
  <2> QED BY <2>1, <2>4, OneFirst, Zenon DEF Client2
<1>4. p \in {"encryption_request", "known_packs", "configuration_finished", "login_success"}
        \/ NegotiatorReads(p) = Awaiting
  BY DEF NegotiatorReads, Awaiting
<1> QED BY <1>1, <1>2, <1>3, <1>4, NegotiatorAnswers

LEMMA ReadReturnsTyped ==
  ASSUME Typed, NEW e \in Ends, ReadReturns(e), UNCHANGED setting
  PROVE  Typed'
<1>1. /\ Refusal \in Seq(Steps) /\ <<>> \in Seq(Steps) /\ Tail(todo[e]) \in Seq(Steps)
      /\ todo \in [Ends -> Seq(Steps)] /\ outcome \in [Ends -> Outcomes] /\ answer[e] = "none"
      /\ todo[e] # <<>> /\ Step(e)[1] = "read"
  <2>1. Refusal \in Seq(Steps)
    BY StepsAre, PacketsAre, OneLast DEF Refusal
  <2>2. todo[e] \in Seq(Steps) /\ todo[e] # <<>> /\ Step(e)[1] = "read"
    BY DEF Typed, LoginsTyped, ReadReturns, Doing
  <2>3. Tail(todo[e]) \in Seq(Steps)
    BY <2>2, RestOf
  <2> QED BY <2>1, <2>2, <2>3 DEF Typed, LoginsTyped, Calling
<1> DEFINE t == Tail(todo[e])  g == NegotiatorReads(Head(queue[e]))
<1>2. g \in Seq(Steps)
  BY NegotiatorReadsTyped
<1>3. \/ e = "client" /\ todo' = [todo EXCEPT ![e] = g] /\ outcome' = outcome
      \/ todo' = [todo EXCEPT ![e] = t] /\ outcome' = outcome
      \/ todo' = todo /\ outcome' = outcome
      \/ Fails(e, "unexpected") \/ Fails(e, "disconnected")
  <2>1. CASE e = "client"
    <3>1. \A p : NegotiatorTakes(p) =>
            \/ todo' = [todo EXCEPT !["client"] = NegotiatorReads(p)] /\ outcome' = outcome
            \/ Fails("client", "unexpected") \/ Fails("client", "disconnected")
      BY DEF NegotiatorTakes
    <3>2. NegotiatorTakes(Head(queue[e]))
      BY <2>1 DEF ReadReturns
    <3> QED BY <2>1, <3>1, <3>2, Zenon
  <2>2. CASE e = "server"
    <3>1. AcceptorTakes(Head(queue[e]))
      BY <2>2 DEF ReadReturns
    <3> QED BY <2>2, <3>1 DEF AcceptorTakes, Goes
  <2> QED BY <2>1, <2>2 DEF Ends
<1> DEFINE q == Tail(queue[e])
<1>4. queue' = [queue EXCEPT ![e] = q] /\ q \in Seq(Packets)
  <2>1. queue[e] \in Seq(Packets) /\ queue[e] # <<>>
    BY DEF Typed, StreamsTyped, ReadReturns
  <2> QED BY <2>1, RestOf DEF ReadReturns
<1> HIDE DEF t, g, q
<1>5. queue' \in [Ends -> Seq(Packets)]
  BY <1>4 DEF Typed, StreamsTyped
<1>6. /\ todo' \in [Ends -> Seq(Steps)] /\ outcome' \in [Ends -> Outcomes]
      /\ \A x \in Ends \ {e} : todo'[x] = todo[x] /\ outcome'[x] = outcome[x]
      /\ outcome'[e] = outcome[e] \/ todo'[e] \in {<<>>, Refusal}
  BY ZenonT(60), <1>1, <1>2, <1>3 DEF Fails, Outcomes, t
<1>7. Failed("server")' => todo'["server"] \in {<<>>, Refusal}
  <2>1. Failed("server") => e # "server"
    <3>1. Refusal # <<>> /\ Head(Refusal)[1] # "read"
      BY OneLast, Kinds DEF Refusal
    <3> QED BY <1>1, <3>1 DEF Typed, LoginsTyped, Step
  <2> QED BY <1>6, <2>1, TwoEnds DEF Failed, Typed, LoginsTyped
<1>8. \A x \in Ends : answer'[x] # "none" => Calling(x)'
  BY <1>1, <1>6 DEF ReadReturns, Calling, Step, Typed, LoginsTyped
<1> QED BY <1>5, <1>6, <1>7, <1>8 DEF ReadReturns, Typed, StreamsTyped, LoginsTyped, pumps

LEMMA TypesStay ==
  ASSUME Typed, Next
  PROVE  Typed'
<1>1. PICK e \in Ends : StreamRuns(e) \/ LoginRuns(e) \/ Expires(e) \/ HangsUp(e)
  BY DEF Next
<1>2. UNCHANGED setting
  BY DEF Next
<1>3. CASE StreamRuns(e)
  BY <1>2, <1>3, ReadsTransportTyped, HandsOutTyped, ReadFailsTyped, TakesFrameTyped, TakesWriteTyped,
     TransmitsTyped, WriteFailsTyped, FinishesWriteTyped, TakesControlTyped, TakesSnapshotTyped,
     CoordinatorEndsTyped DEF StreamRuns
<1>4. CASE LoginRuns(e)
  BY <1>2, <1>4, MakesCallTyped, CallRejectedTyped, CallExpiresTyped, CallReturnsTyped, ServiceReturnsTyped,
     ReadReturnsTyped, ReadReturnsErrorTyped, LoginReturnsTyped, CallerClosesTyped DEF LoginRuns
<1> QED BY <1>1, <1>2, <1>3, <1>4, ExpiresTyped, HangsUpTyped

(* A server that has gone astray stays so.                                         *)
LEMMA AstrayStays ==
  ASSUME Typed, Astray, Next
  PROVE  Astray'
<1>1. PICK e \in Ends : StreamRuns(e) \/ LoginRuns(e) \/ Expires(e) \/ HangsUp(e)
  BY DEF Next
<1>2. expired["server"] => expired'["server"]
  BY <1>1, TwoEnds DEF Typed, LoginsTyped, StreamRuns, LoginRuns, Expires, HangsUp, ReadsTransport, HandsOut, ReadFails,
     TakesFrame, TakesWrite, Transmits, WriteFails, FinishesWrite, TakesControl, TakesSnapshot, CoordinatorEnds,
     MakesCall, CallRejected, CallExpires, CallReturns, ServiceReturns, ReadReturns, ReadReturnsError,
     LoginReturns, CallerCloses, logins
<1>3. Failed("server") /\ todo["server"] \in {<<>>, Refusal} /\ outcome \in [Ends -> Outcomes]
  BY DEF Astray, Typed, LoginsTyped
<1>4. ~(e = "server" /\ LoginReturns(e))
  <2>1. Refusal # <<>> /\ Head(Refusal)[1] # "return"
    BY OneLast, Kinds DEF Refusal
  <2> QED BY <1>3, <2>1 DEF LoginReturns, Doing, Step
<1>5. ASSUME NEW x, NEW why, Fails(x, why), x \in Ends
      PROVE  outcome'["server"] = outcome["server"]
  BY <1>3, <1>5, TwoEnds DEF Fails, Failed
<1>6. LoginReturns(e) => outcome'["server"] = outcome["server"]
  BY <1>3, <1>4, TwoEnds DEF LoginReturns
<1>7. CallReturns(e) => outcome'["server"] = outcome["server"]
  BY <1>5 DEF CallReturns, Goes
<1>8. ServiceReturns(e) \/ ReadReturnsError(e) => outcome'["server"] = outcome["server"]
  BY <1>5 DEF ServiceReturns, ReadReturnsError, Goes
<1>9. ReadReturns(e) => outcome'["server"] = outcome["server"]
  <2>1. ASSUME NEW p, NegotiatorTakes(p) \/ AcceptorTakes(p)
        PROVE  outcome'["server"] = outcome["server"]
    BY <1>5, <2>1, TwoEnds DEF NegotiatorTakes, AcceptorTakes, Goes
  <2> QED BY <2>1 DEF ReadReturns
<1>10. StreamRuns(e) \/ Expires(e) \/ HangsUp(e) => outcome' = outcome
  BY DEF StreamRuns, Expires, HangsUp, ReadsTransport, HandsOut, ReadFails, TakesFrame, TakesWrite, Transmits,
     WriteFails, FinishesWrite, TakesControl, TakesSnapshot, CoordinatorEnds, logins
<1>11. MakesCall(e) \/ CallRejected(e) \/ CallExpires(e) \/ CallerCloses(e) => outcome' = outcome
  BY DEF MakesCall, CallRejected, CallExpires, CallerCloses, logins
<1>12. outcome'["server"] = outcome["server"]
  BY <1>1, <1>6, <1>7, <1>8, <1>9, <1>10, <1>11 DEF LoginRuns
<1> QED BY <1>2, <1>12 DEF Astray, Failed
-----------------------------------------------------------------------------
(* What a part of the invariant depends on: a step that leaves it alone keeps the part.  *)
LEMMA QueueStays ==
  ASSUME NEW e \in Ends, NEW r, NEW t, QueueInv(e, r, t),
         queue'[e] = queue[e], log'[Peer(e)] = log[Peer(e)]
  PROVE  QueueInv(e, r, t)'
BY DEF QueueInv

LEMMA FlowStays ==
  ASSUME NEW e \in Ends, NEW t, FlowInv(e, t),
         conduit'[e] = conduit[e], log'[Peer(e)] = log[Peer(e)], framed'[e] = framed[e],
         coordinator'[e] # "over" /\ reader'[e] # "exited" =>
           coordinator[e] # "over" /\ reader'[e] = reader[e]
  PROVE  FlowInv(e, t)'
<1>1. Flow(e)' = Flow(e)
  BY DEF Flow
<1>2. coordinator'[e] # "over" /\ reader'[e] # "exited" => Begun(e)' = Begun(e)
  BY DEF Begun
<1>3. /\ conduit[e].inHand = <<>> => conduit[e].pending = Len(conduit[e].buffered)
      /\ Len(Flow(e)) <= 2 * (Len(log[Peer(e)]) - t)
  BY DEF FlowInv
<1>4. CASE coordinator'[e] = "over" \/ reader'[e] = "exited"
  BY <1>1, <1>3, <1>4 DEF FlowInv
<1>5. CASE coordinator'[e] # "over" /\ reader'[e] # "exited"
  <2> DEFINE f == Flow(e)  l == log[Peer(e)]  b == Begun(e)
  <2>1. Flow(e)' = f /\ log'[Peer(e)] = l /\ Begun(e)' = b
    BY <1>1, <1>2, <1>5
  <2>2. /\ Len(f) = 2 * Len(l) - (2 * t + b)
        /\ \A i \in 1..Len(f), j \in 1..Len(l) :
             (2 * t + b) + i \in {2 * j - 1, 2 * j} => Carries(f[i], l[j])
        /\ reader[e] = "handing" => framed[e] = l[t + 1].frame
        /\ reader'[e] = reader[e]
    BY <1>5 DEF FlowInv
  <2> HIDE DEF f, l, b
  <2>3. /\ Len(Flow(e)') = 2 * Len(log'[Peer(e)]) - (2 * t + Begun(e)')
        /\ reader'[e] = "handing" => framed'[e] = log'[Peer(e)][t + 1].frame
    BY <2>1, <2>2
  <2>4. \A i \in 1..Len(Flow(e)'), j \in 1..Len(log'[Peer(e)]) :
          (2 * t + Begun(e)') + i \in {2 * j - 1, 2 * j} => Carries(Flow(e)'[i], log'[Peer(e)][j])
    BY <2>1, <2>2
  <2> QED BY <1>1, <1>3, <2>3, <2>4 DEF FlowInv, Carries
<1> QED BY <1>4, <1>5

LEMMA LogStays ==
  ASSUME NEW e \in Ends, LogInv(e), UNCHANGED setting,
         log'[e] = log[e], Denied' <=> Denied, held' <=> held,
         coordinator'[e] \in {"writing", "written"} => coordinator'[e] = coordinator[e] /\ job'[e] = job[e]
  PROVE  LogInv(e)'
<1>1. \A x, i : FrameOf(x, i)' = FrameOf(x, i)
  BY FramesStay
<1>2. \A x, i : (CipherOf(x, i)' <=> CipherOf(x, i))
  BY SettingStays DEF CipherOf
<1>3. \A x, i : Word(x, i)' = Word(x, i)
  BY <1>1, <1>2 DEF Word
<1> QED BY <1>1, <1>3 DEF LogInv

LEMMA StopStays ==
  ASSUME NEW e \in Ends, StopInv(e),
         coordinator'[e] = "over" \/ reader'[e] = "exited" =>
           coordinator[e] = "over" \/ reader[e] = "exited" \/ stopping'[e],
         answer'[e] = answer[e], cause'[e] = cause[e], stopping'[e] = stopping[e],
         expired[e] => expired'[e], expired["client"] => expired'["client"]
  PROVE  StopInv(e)'
BY DEF StopInv

LEMMA CallStays ==
  ASSUME NEW e \in Ends, CallInv(e),
         coordinator'[e] = coordinator[e], answer'[e] = answer[e], todo'[e] = todo[e],
         stopping[e] => stopping'[e]
  PROVE  CallInv(e)'
BY DEF CallInv, Doing, Step

LEMMA PlaceStays ==
  ASSUME NEW e \in Ends, NEW n, NEW r, PlaceInv(e, n, r), UNCHANGED setting,
         todo'[e] = todo[e], outcome'[e] = outcome[e], Denied' <=> Denied,
         Had(e, n) <= Good(Peer(e)) => Had(e, n) <= Good(Peer(e))',
         e = "server" /\ Refusing => Refusing'
  PROVE  PlaceInv(e, n, r)'
<1>1. MayBe(e, n)' = MayBe(e, n) /\ Had(e, n)' = Had(e, n) /\ Rest(e, n)' = Rest(e, n)
  BY CourseStays, RestStays
<1>2. Finished(e, n)' <=> Finished(e, n)
  BY DEF Finished
<1>3. Failed(e)' <=> Failed(e)
  BY DEF Failed
<1> QED BY <1>1, <1>2, <1>3 DEF PlaceInv

LEMMA RefusingStays ==
  ASSUME todo'["server"] = todo["server"], Denied' <=> Denied, stopping["server"] => stopping'["server"],
         answer["server"] \in {"none", "rejected"} => answer'["server"] \in {"none", "rejected"},
         Refusing
  PROVE  Refusing'
BY DEF Refusing

LEMMA SentStays ==
  ASSUME NEW e \in Ends, NEW n, SentInv(e, n), UNCHANGED setting, Denied' <=> Denied,
         log'[e] = log[e], coordinator'[e] \in {coordinator[e], "over"},
         coordinator'[e] = "over" /\ Extra(e, n) = 1 => Extra(e, n) = 1,
         todo'[e] = todo[e], answer'[e] = answer[e]
  PROVE  SentInv(e, n)'
<1>1. Extra(e, n)' = Extra(e, n)
  BY CourseStays DEF Extra
<1>2. WritesAt(e, n)' <=> WritesAt(e, n)
  BY DEF WritesAt
<1> QED BY <1>1, <1>2 DEF SentInv, Doing, Step

LEMMA SessionStays ==
  ASSUME NEW e \in Ends, NEW t, SessionInv(e, t), UNCHANGED setting,
         session'[e] = session[e], Said(e)' = Said(e), Heard(e, t)' = Heard(e, t)
  PROVE  SessionInv(e, t)'
<1>1. \A s, h : SessionAt(e, s, h)' = SessionAt(e, s, h)
  BY SettingStays, CourseStays DEF SessionAt, Moved
<1>2. SessionOf(e, t)' = SessionOf(e, t)
  BY <1>1 DEF SessionOf
<1> QED BY <1>2 DEF SessionInv

LEMMA CipherStays ==
  ASSUME NEW e \in Ends, NEW n, CipherInv(e, n), UNCHANGED setting,
         conduit'[e].decrypt = conduit[e].decrypt, conduit'[e].encrypt = conduit[e].encrypt,
         answer'[e] = "ok" <=> answer[e] = "ok", held' <=> held
  PROVE  CipherInv(e, n)'
<1>1. \A at : Switched(e, n, at)' <=> Switched(e, n, at)
  BY SettingStays DEF Switched
<1> QED BY <1>1 DEF CipherInv

(* What an end has said and heard changes only with the logs, a write and a refusal.     *)
LEMMA GoodStays ==
  ASSUME NEW e \in Ends, log'[e] = log[e], Denied' <=> Denied
  PROVE  Good(e)' = Good(e)
BY DEF Good

LEMMA SaidStays ==
  ASSUME NEW e \in Ends, log'[e] = log[e], Denied' <=> Denied,
         coordinator'[e] = "written" <=> coordinator[e] = "written"
  PROVE  Said(e)' = Said(e)
BY GoodStays DEF Said, AtMost

LEMMA HeardStays ==
  ASSUME NEW e \in Ends, NEW t, log'[Peer(e)] = log[Peer(e)], Denied' <=> Denied
  PROVE  Heard(e, t)' = Heard(e, t)
<1>1. Good(Peer(e))' = Good(Peer(e))
  BY GoodStays, TwoEnds
<1> QED BY <1>1 DEF Heard, AtMost

(* An end of which a step touches nothing.                                          *)
Untouched(e) ==
  /\ conduit'[e] = conduit[e] /\ reader'[e] = reader[e] /\ framed'[e] = framed[e]
  /\ coordinator'[e] = coordinator[e] /\ job'[e] = job[e] /\ session'[e] = session[e]
  /\ queue'[e] = queue[e] /\ stopping'[e] = stopping[e] /\ cause'[e] = cause[e]
  /\ todo'[e] = todo[e] /\ answer'[e] = answer[e] /\ outcome'[e] = outcome[e]

LEMMA UntouchedStays ==
  ASSUME Typed, NEW e \in Ends, NEW n, NEW r, NEW t, CoreOf(e, n, r, t), Untouched(e),
         UNCHANGED <<setting, log>>, held' <=> held, Denied' <=> Denied,
         expired[e] => expired'[e], expired["client"] => expired'["client"]
  PROVE  CoreOf(e, n, r, t)'
<1>1. QueueInv(e, r, t)'
  BY QueueStays DEF CoreOf, Untouched
<1>2. FlowInv(e, t)'
  BY FlowStays DEF CoreOf, Untouched
<1>3. LogInv(e)'
  BY LogStays DEF CoreOf, Untouched
<1>4. StopInv(e)'
  BY StopStays DEF CoreOf, Untouched
<1>5. CallInv(e)'
  BY CallStays DEF CoreOf, Untouched
<1>6. PlaceInv(e, n, r)'
  <2>1. Good(Peer(e))' = Good(Peer(e))
    BY GoodStays, TwoEnds
  <2>2. e = "server" /\ Refusing => Refusing'
    BY RefusingStays DEF Untouched
  <2> QED BY <2>1, <2>2, PlaceStays DEF CoreOf, Untouched
<1>7. SentInv(e, n)'
  BY SentStays DEF CoreOf, Untouched
<1>8. SessionInv(e, t)'
  BY SessionStays, SaidStays, HeardStays DEF CoreOf, Untouched
<1>9. CipherInv(e, n)'
  BY CipherStays DEF CoreOf, Untouched
<1> QED BY <1>1, <1>2, <1>3, <1>4, <1>5, <1>6, <1>7, <1>8, <1>9 DEF CoreOf

LEMMA HeldStays ==
  ASSUME NEW c, NEW t, HeldInv(c, t), UNCHANGED setting, held' <=> held,
         stopping["client"] => stopping'["client"], expired["client"] => expired'["client"],
         log'["client"] = log["client"],
         coordinator'["server"] # "over" /\ reader'["server"] # "exited" =>
           coordinator["server"] # "over" /\ reader'["server"] = reader["server"]
  PROVE  HeldInv(c, t)'
<1>1. Online' <=> Online
  BY SettingStays
<1>2. coordinator'["server"] # "over" /\ reader'["server"] # "exited" => Begun("server")' = Begun("server")
  BY DEF Begun
<1> QED BY <1>1, <1>2 DEF HeldInv
-----------------------------------------------------------------------------
(* The invariant holds of some places, and of some numbers of packets read and taken.     *)
Kept == \E place, read, taken \in [Ends -> Nat] : Core(place, read, taken)

LEMMA Here ==
  ASSUME NEW place, NEW read, NEW taken, Ghosts(place, read, taken), Core(place, read, taken),
         NEW e \in Ends
  PROVE  /\ CoreOf(e, place[e], read[e], taken[e])
         /\ CoreOf(Peer(e), place[Peer(e)], read[Peer(e)], taken[Peer(e)])
         /\ HeldInv(place["client"], taken["server"])
         /\ place[e] \in Nat /\ read[e] \in Nat /\ taken[e] \in Nat
         /\ taken[Peer(e)] \in Nat /\ place[Peer(e)] \in Nat /\ read[Peer(e)] \in Nat
         /\ Peer(e) \in Ends /\ Peer(e) # e
BY TwoEnds DEF Ghosts, Core

LEMMA SameGhosts ==
  ASSUME NEW place, NEW read, NEW taken, Ghosts(place, read, taken), NEW e \in Ends,
         CoreOf(e, place[e], read[e], taken[e])',
         CoreOf(Peer(e), place[Peer(e)], read[Peer(e)], taken[Peer(e)])',
         HeldInv(place["client"], taken["server"])'
  PROVE  Kept'
<1>1. \A x \in Ends : x = e \/ x = Peer(e)
  BY TwoEnds
<1>2. ASSUME NEW x \in Ends PROVE CoreOf(x, place[x], read[x], taken[x])'
  <2>1. CASE x = e
    BY <2>1, Zenon
  <2>2. CASE x = Peer(e)
    BY <2>2, Zenon
  <2> QED BY <1>1, <2>1, <2>2
<1>3. Core(place, read, taken)'
  BY <1>2 DEF Core
<1> QED BY <1>3 DEF Kept, Ghosts

LEMMA NewGhosts ==
  ASSUME NEW place, NEW read, NEW taken, Ghosts(place, read, taken), NEW e \in Ends,
         NEW n \in Nat, NEW r \in Nat, NEW t \in Nat,
         CoreOf(e, n, r, t)',
         CoreOf(Peer(e), place[Peer(e)], read[Peer(e)], taken[Peer(e)])',
         e = "client" => HeldInv(n, taken["server"])',
         e = "server" => HeldInv(place["client"], t)'
  PROVE  Kept'
<1> DEFINE P == [place EXCEPT ![e] = n]  R == [read EXCEPT ![e] = r]  T == [taken EXCEPT ![e] = t]
<1>1. /\ Ghosts(P, R, T) /\ P[e] = n /\ R[e] = r /\ T[e] = t
      /\ P[Peer(e)] = place[Peer(e)] /\ R[Peer(e)] = read[Peer(e)] /\ T[Peer(e)] = taken[Peer(e)]
  BY TwoEnds DEF Ghosts
<1>2. /\ e = "client" => P["client"] = n /\ T["server"] = taken["server"]
      /\ e = "server" => P["client"] = place["client"] /\ T["server"] = t
  BY <1>1, TwoEnds
<1> HIDE DEF P, R, T
<1>3. CoreOf(e, P[e], R[e], T[e])'
  BY <1>1, Zenon
<1>4. CoreOf(Peer(e), P[Peer(e)], R[Peer(e)], T[Peer(e)])'
  BY <1>1, Zenon
<1>5. HeldInv(P["client"], T["server"])'
  <2>1. CASE e = "client"
    BY <1>2, <2>1, Zenon
  <2>2. CASE e = "server"
    BY <1>2, <2>2, Zenon
  <2> QED BY <2>1, <2>2, TwoEnds
<1> QED BY <1>1, <1>3, <1>4, <1>5, SameGhosts

LEMMA StopsKeep ==
  ASSUME Typed, NEW place, NEW read, NEW taken, Ghosts(place, read, taken), Core(place, read, taken),
         NEW e \in Ends, NEW why \in {"peer_closed", "closed"}, Stop(e, why),
         UNCHANGED <<setting, conduit, framed, coordinator, job, session, queue, log, logins>>,
         reader' = reader \/ reader' = [reader EXCEPT ![e] = "exited"]
  PROVE  Kept'
<1> DEFINE n == place[e]  r == read[e]  t == taken[e]  p == Peer(e)
<1>1. /\ CoreOf(e, n, r, t) /\ CoreOf(p, place[p], read[p], taken[p]) /\ p \in Ends /\ p # e
      /\ HeldInv(place["client"], taken["server"])
  BY Here
<1> HIDE DEF n, r, t, p
<1>2. /\ \A x \in Ends : /\ x # e => stopping'[x] = stopping[x] /\ cause'[x] = cause[x] /\ reader'[x] = reader[x]
                         /\ stopping[x] => stopping'[x]
                         /\ reader'[x] # "exited" => reader'[x] = reader[x]
      /\ stopping'[e] /\ cause'[e] = (IF cause[e] = "none" THEN why ELSE cause[e])
      /\ todo' = todo /\ answer' = answer /\ expired' = expired /\ held' = held /\ outcome' = outcome
      /\ Denied' = Denied
  BY DEF Stop, Typed, StreamsTyped, logins, Denied
<1>3. CoreOf(p, place[p], read[p], taken[p])'
  <2>1. Untouched(p)
    BY <1>1, <1>2 DEF Untouched
  <2> QED BY <1>1, <1>2, <2>1, UntouchedStays
<1>4. QueueInv(e, r, t)'
  BY <1>1, QueueStays DEF CoreOf
<1>5. FlowInv(e, t)'
  BY <1>1, <1>2, FlowStays DEF CoreOf
<1>6. LogInv(e)'
  BY <1>1, <1>2, LogStays DEF CoreOf
<1>7. StopInv(e)'
  BY <1>1, <1>2 DEF CoreOf, StopInv
<1>8. CallInv(e)'
  BY <1>1, <1>2, CallStays DEF CoreOf
<1>9. PlaceInv(e, n, r)'
  <2>1. Good(Peer(e))' = Good(Peer(e))
    BY <1>2, GoodStays, TwoEnds
  <2>2. e = "server" /\ Refusing => Refusing'
    BY <1>2, RefusingStays, TwoEnds
  <2> QED BY <1>1, <1>2, <2>1, <2>2, PlaceStays DEF CoreOf
<1>10. SentInv(e, n)'
  BY <1>1, <1>2, SentStays DEF CoreOf
<1>11. SessionInv(e, t)'
  BY <1>1, <1>2, SessionStays, SaidStays, HeardStays DEF CoreOf
<1>12. CipherInv(e, n)'
  BY <1>1, <1>2, CipherStays DEF CoreOf
<1>13. HeldInv(place["client"], taken["server"])'
  BY <1>1, <1>2, HeldStays, TwoEnds
<1>14. CoreOf(e, n, r, t)'
  BY <1>4, <1>5, <1>6, <1>7, <1>8, <1>9, <1>10, <1>11, <1>12 DEF CoreOf
<1> QED BY <1>3, <1>13, <1>14, SameGhosts DEF n, r, t, p

LEMMA ReadFailsKeeps ==
  ASSUME Typed, NEW place, NEW read, NEW taken, Ghosts(place, read, taken), Core(place, read, taken),
         NEW e \in Ends, ReadFails(e), UNCHANGED setting
  PROVE  Kept'
BY StopsKeep DEF ReadFails

LEMMA CallerClosesKeeps ==
  ASSUME Typed, NEW place, NEW read, NEW taken, Ghosts(place, read, taken), Core(place, read, taken),
         NEW e \in Ends, CallerCloses(e), UNCHANGED setting
  PROVE  Kept'
BY StopsKeep DEF CallerCloses, pumps

LEMMA HangsUpKeeps ==
  ASSUME Typed, NEW place, NEW read, NEW taken, Ghosts(place, read, taken), Core(place, read, taken),
         NEW e \in Ends, HangsUp(e), UNCHANGED setting
  PROVE  Kept'
BY StopsKeep DEF HangsUp, pumps

LEMMA CoordinatorEndsKeeps ==
  ASSUME Typed, NEW place, NEW read, NEW taken, Ghosts(place, read, taken), Core(place, read, taken),
         NEW e \in Ends, CoordinatorEnds(e), UNCHANGED setting
  PROVE  Kept'
<1> DEFINE n == place[e]  r == read[e]  t == taken[e]  p == Peer(e)
<1>1. /\ CoreOf(e, n, r, t) /\ CoreOf(p, place[p], read[p], taken[p]) /\ p \in Ends /\ p # e
      /\ HeldInv(place["client"], taken["server"])
  BY Here
<1> HIDE DEF n, r, t, p
<1>2. /\ \A x \in Ends : x # e => coordinator'[x] = coordinator[x]
      /\ coordinator[e] = "select" /\ coordinator'[e] = "over" /\ stopping[e]
      /\ UNCHANGED <<conduit, reader, framed, job, session, queue, stopping, cause, log>>
      /\ UNCHANGED <<todo, answer, expired, held, outcome>> /\ Denied' = Denied
  BY DEF CoordinatorEnds, Typed, StreamsTyped, pumps, logins, Denied
<1>3. CoreOf(p, place[p], read[p], taken[p])'
  <2>1. Untouched(p)
    BY <1>1, <1>2 DEF Untouched
  <2> QED BY <1>1, <1>2, <2>1, UntouchedStays
<1>4. QueueInv(e, r, t)' /\ FlowInv(e, t)' /\ LogInv(e)'
  BY <1>1, <1>2, QueueStays, FlowStays, LogStays DEF CoreOf
<1>5. StopInv(e)'
  BY <1>1, <1>2, StopStays DEF CoreOf
<1>6. CallInv(e)'
  BY <1>1, <1>2 DEF CoreOf, CallInv
<1>7. PlaceInv(e, n, r)'
  <2>1. Good(Peer(e))' = Good(Peer(e))
    BY <1>2, GoodStays, TwoEnds
  <2> QED BY <1>1, <1>2, <2>1, PlaceStays, RefusingStays DEF CoreOf
<1>8. SentInv(e, n)'
  BY <1>1, <1>2, SentStays DEF CoreOf
<1>9. SessionInv(e, t)' /\ CipherInv(e, n)'
  BY <1>1, <1>2, SessionStays, SaidStays, HeardStays, CipherStays DEF CoreOf
<1>10. HeldInv(place["client"], taken["server"])'
  BY <1>1, <1>2, HeldStays, TwoEnds
<1>11. CoreOf(e, n, r, t)'
  BY <1>4, <1>5, <1>6, <1>7, <1>8, <1>9 DEF CoreOf
<1> QED BY <1>3, <1>10, <1>11, SameGhosts DEF n, r, t, p

LEMMA ExpiresKeeps ==
  ASSUME Typed, NEW place, NEW read, NEW taken, Ghosts(place, read, taken), Core(place, read, taken),
         NEW e \in Ends, Expires(e), UNCHANGED setting
  PROVE  Kept'
<1> DEFINE p == Peer(e)
<1>1. /\ CoreOf(e, place[e], read[e], taken[e]) /\ CoreOf(p, place[p], read[p], taken[p]) /\ p \in Ends
      /\ HeldInv(place["client"], taken["server"])
  BY Here
<1>2. /\ \A x \in Ends : expired[x] => expired'[x]
      /\ UNCHANGED <<conduit, reader, framed, coordinator, job, session, queue, stopping, cause, log>>
      /\ UNCHANGED <<todo, answer, held, outcome>> /\ Denied' = Denied
  BY DEF Expires, Typed, LoginsTyped, streams, pumps, Denied
<1>3. Untouched(e) /\ Untouched(p)
  BY <1>2 DEF Untouched
<1>4. CoreOf(e, place[e], read[e], taken[e])'
  BY <1>1, <1>2, <1>3, UntouchedStays, TwoEnds
<1>5. CoreOf(p, place[p], read[p], taken[p])'
  BY <1>1, <1>2, <1>3, UntouchedStays, TwoEnds
<1>6. HeldInv(place["client"], taken["server"])'
  BY <1>1, <1>2, HeldStays, TwoEnds
<1> QED BY <1>4, <1>5, <1>6, SameGhosts

(* Where a step changes only the answer of a call, and may stop the stream of it.       *)
LEMMA AnswersKeep ==
  ASSUME Typed, NEW place, NEW read, NEW taken, Ghosts(place, read, taken), Core(place, read, taken),
         NEW e \in Ends, NEW a, answer' = [answer EXCEPT ![e] = a],
         UNCHANGED <<stopping, cause>> \/ Stop(e, "ambiguous"),
         UNCHANGED <<setting, conduit, pumps, coordinator, job, session, queue, log, todo, expired, held, outcome>>,
         StopInv(e)', CallInv(e)', PlaceInv(e, place[e], read[e])', SentInv(e, place[e])',
         CipherInv(e, place[e])'
  PROVE  Kept'
<1> DEFINE n == place[e]  r == read[e]  t == taken[e]  p == Peer(e)
<1>1. /\ CoreOf(e, n, r, t) /\ CoreOf(p, place[p], read[p], taken[p]) /\ p \in Ends /\ p # e
      /\ HeldInv(place["client"], taken["server"])
  BY Here
<1>a. StopInv(e)' /\ CallInv(e)' /\ PlaceInv(e, n, r)' /\ SentInv(e, n)' /\ CipherInv(e, n)'
  OBVIOUS
<1> HIDE DEF n, r, t, p
<1>2. /\ \A x \in Ends : /\ x # e => answer'[x] = answer[x] /\ stopping'[x] = stopping[x] /\ cause'[x] = cause[x]
                         /\ stopping[x] => stopping'[x]
      /\ UNCHANGED <<reader, framed>> /\ Denied' = Denied
  BY DEF Stop, Typed, StreamsTyped, LoginsTyped, pumps, Denied
<1>3. CoreOf(p, place[p], read[p], taken[p])'
  <2>1. Untouched(p)
    BY <1>1, <1>2 DEF Untouched
  <2> QED BY <1>1, <1>2, <2>1, UntouchedStays
<1>4. QueueInv(e, r, t)' /\ FlowInv(e, t)' /\ LogInv(e)'
  BY <1>1, <1>2, QueueStays, FlowStays, LogStays DEF CoreOf
<1>5. SessionInv(e, t)'
  BY <1>1, <1>2, SessionStays, SaidStays, HeardStays DEF CoreOf
<1>6. HeldInv(place["client"], taken["server"])'
  BY <1>1, <1>2, HeldStays, TwoEnds
<1>7. CoreOf(e, n, r, t)'
  BY <1>a, <1>4, <1>5 DEF CoreOf
<1> QED BY <1>3, <1>6, <1>7, SameGhosts DEF n, r, t, p

LEMMA MakesCallKeeps ==
  ASSUME Typed, NEW place, NEW read, NEW taken, Ghosts(place, read, taken), Core(place, read, taken),
         NEW e \in Ends, MakesCall(e), UNCHANGED setting
  PROVE  Kept'
<1> DEFINE n == place[e]  r == read[e]  t == taken[e]
           a == IF stopping[e] /\ Step(e) # Snapshot THEN "rejected" ELSE "asked"
<1>1. CoreOf(e, n, r, t)
  BY Here
<1>2. /\ answer' = [answer EXCEPT ![e] = a] /\ answer'[e] = a /\ answer[e] = "none" /\ todo[e] # <<>>
      /\ UNCHANGED <<conduit, reader, framed, coordinator, job, session, queue, stopping, cause, log>>
      /\ UNCHANGED <<todo, expired, held, outcome>> /\ Denied' = Denied
  BY DEF MakesCall, Answer, Typed, LoginsTyped, streams, pumps, Denied
<1>3. a \in {"asked", "rejected"} /\ (a = "rejected" => stopping[e])
  OBVIOUS
<1>4. e = "server" /\ Refusing => Refusing'
  <2>1. Refusal # <<>> /\ Head(Refusal) # Snapshot
    <3>1. Head(Refusal)[1] = "write" /\ Snapshot[1] = "snapshot" /\ Refusal # <<>>
      BY OneLast, Kinds DEF Refusal
    <3> QED BY <3>1
  <2> QED BY <1>2, <2>1 DEF Refusing, Step
<1> HIDE DEF n, r, t, a
<1>5. StopInv(e)'
  BY <1>1, <1>2, <1>3 DEF CoreOf, StopInv
<1>6. CallInv(e)'
  BY <1>1, <1>2, <1>3 DEF CoreOf, CallInv, Doing, Step
<1>7. PlaceInv(e, n, r)'
  <2>1. Good(Peer(e))' = Good(Peer(e))
    BY <1>2, GoodStays, TwoEnds
  <2> QED BY <1>1, <1>2, <1>4, <2>1, PlaceStays DEF CoreOf
<1>8. SentInv(e, n)'
  <2>1. Extra(e, n)' = Extra(e, n)
    BY <1>2, CourseStays DEF Extra
  <2>2. WritesAt(e, n)' <=> WritesAt(e, n)
    BY DEF WritesAt
  <2> QED BY <1>1, <1>2, <1>3, <2>1, <2>2 DEF CoreOf, SentInv
<1>9. CipherInv(e, n)'
  BY <1>1, <1>2, <1>3, CipherStays DEF CoreOf
<1> QED BY <1>2, <1>5, <1>6, <1>7, <1>8, <1>9, AnswersKeep DEF n, r, t, pumps

LEMMA CallRejectedKeeps ==
  ASSUME Typed, NEW place, NEW read, NEW taken, Ghosts(place, read, taken), Core(place, read, taken),
         NEW e \in Ends, CallRejected(e), UNCHANGED setting
  PROVE  Kept'
<1> DEFINE n == place[e]  r == read[e]  t == taken[e]
<1>1. CoreOf(e, n, r, t)
  BY Here
<1>2. /\ answer' = [answer EXCEPT ![e] = "rejected"] /\ answer'[e] = "rejected" /\ answer[e] = "asked"
      /\ stopping[e]
      /\ UNCHANGED <<conduit, reader, framed, coordinator, job, session, queue, stopping, cause, log>>
      /\ UNCHANGED <<todo, expired, held, outcome>> /\ Denied' = Denied
  BY DEF CallRejected, Answer, Typed, LoginsTyped, streams, pumps, Denied
<1>4. e = "server" /\ Refusing => Refusing'
  BY <1>2 DEF Refusing
<1> HIDE DEF n, r, t
<1>5. StopInv(e)'
  BY <1>1, <1>2 DEF CoreOf, StopInv
<1>6. CallInv(e)'
  BY <1>1, <1>2 DEF CoreOf, CallInv, Doing, Step
<1>7. PlaceInv(e, n, r)'
  <2>1. Good(Peer(e))' = Good(Peer(e))
    BY <1>2, GoodStays, TwoEnds
  <2> QED BY <1>1, <1>2, <1>4, <2>1, PlaceStays DEF CoreOf
<1>8. SentInv(e, n)'
  <2>1. Extra(e, n)' = Extra(e, n)
    BY <1>2, CourseStays DEF Extra
  <2>2. WritesAt(e, n)' <=> WritesAt(e, n)
    BY DEF WritesAt
  <2> QED BY <1>1, <1>2, <2>1, <2>2 DEF CoreOf, SentInv
<1>9. CipherInv(e, n)'
  BY <1>1, <1>2, CipherStays DEF CoreOf
<1> QED BY <1>2, <1>5, <1>6, <1>7, <1>8, <1>9, AnswersKeep DEF n, r, t, pumps

(* The answer to a write says nothing of a cipher.                                   *)
LEMMA WritesSwitchNothing ==
  ASSUME Typed, NEW e \in Ends, NEW n, NEW r, NEW t, CoreOf(e, n, r, t), Doing(e, "write"),
         answer[e] \notin {"none", "rejected"}
  PROVE  /\ n # 3 /\ ~(e = "client" /\ n = 5)
         /\ WritesAt(e, n) \/ (e = "server" /\ Denied /\ n = 4)
<1>1. todo[e] # <<>> /\ Step(e)[1] = "write" /\ PlaceInv(e, n, r)
  BY DEF Doing, CoreOf
<1>2. CASE n \notin Last(e) /\ Step(e) = StepAt(e, n)
  <2>1. MayBe(e, n)
    BY <1>1 DEF PlaceInv
  <2>2. WritesAt(e, n)
    BY <1>1, <1>2, <2>1, KindsOfSteps
  <2> QED BY <2>2 DEF WritesAt
<1>3. CASE e = "server" /\ Refusing
  BY <1>1, <1>3 DEF PlaceInv, Refusing
<1> QED BY <1>1, <1>2, <1>3, Ahead

LEMMA CallExpiresKeeps ==
  ASSUME Typed, NEW place, NEW read, NEW taken, Ghosts(place, read, taken), Core(place, read, taken),
         NEW e \in Ends, CallExpires(e), UNCHANGED setting
  PROVE  Kept'
<1> DEFINE n == place[e]  r == read[e]  t == taken[e]
<1>1. CoreOf(e, n, r, t)
  BY Here
<1>2. /\ answer' = [answer EXCEPT ![e] = "expired"] /\ answer'[e] = "expired" /\ expired[e]
      /\ answer[e] \in {"asked", "taken", "ok"}
      /\ answer[e] = "ok" => Doing(e, "write")
      /\ answer[e] # "asked" => Stop(e, "ambiguous")
      /\ UNCHANGED <<stopping, cause>> \/ Stop(e, "ambiguous")
      /\ UNCHANGED <<conduit, reader, framed, coordinator, job, session, queue, log>>
      /\ UNCHANGED <<todo, expired, held, outcome>> /\ Denied' = Denied
  BY DEF CallExpires, Answer, Typed, LoginsTyped, pumps, Denied
<1>3. /\ stopping[e] => stopping'[e]
      /\ answer[e] # "asked" => stopping'[e]
      /\ cause'[e] = cause[e] \/ cause'[e] = "ambiguous"
      /\ stopping'[e] => stopping[e] \/ cause'[e] # "none"
      /\ cause[e] # "none" => cause'[e] # "none"
  BY <1>2 DEF Stop, Typed, StreamsTyped
<1>4. e = "server" /\ Refusing => Refusing'
  BY <1>2 DEF Refusing
<1>0. answer[e] = "ok" => n # 3 /\ ~(e = "client" /\ n = 5)
  BY <1>1, <1>2, WritesSwitchNothing
<1> HIDE DEF n, r, t
<1>5. StopInv(e)'
  BY <1>1, <1>2, <1>3 DEF CoreOf, StopInv
<1>6. CallInv(e)'
  BY <1>1, <1>2, <1>3 DEF CoreOf, CallInv, Doing, Step
<1>7. PlaceInv(e, n, r)'
  <2>1. Good(Peer(e))' = Good(Peer(e))
    BY <1>2, GoodStays, TwoEnds
  <2> QED BY <1>1, <1>2, <1>4, <2>1, PlaceStays DEF CoreOf
<1>8. SentInv(e, n)'
  <2>1. Extra(e, n)' = Extra(e, n)
    BY <1>2, CourseStays DEF Extra
  <2>2. WritesAt(e, n)' <=> WritesAt(e, n)
    BY DEF WritesAt
  <2> QED BY <1>1, <1>2, <2>1, <2>2 DEF CoreOf, SentInv
<1>9. CipherInv(e, n)'
  <2>1. /\ Switched(e, n, 3)' <=> Switched(e, n, 3)
        /\ e = "client" => (Switched(e, n, 5)' <=> Switched(e, n, 5))
    BY <1>0, <1>2, SettingStays DEF Switched
  <2> QED BY <1>1, <1>2, <2>1 DEF CoreOf, CipherInv
<1> QED BY <1>2, <1>5, <1>6, <1>7, <1>8, <1>9, AnswersKeep DEF n, r, t, pumps

LEMMA Alerted ==
  ASSUME Typed, NEW place, NEW read, NEW taken, Ghosts(place, read, taken), Core(place, read, taken)
  PROVE  Alert(place["client"], place["server"], taken["client"], taken["server"])
<1>1. Between(place["client"], place["server"], Len(log["client"]), Len(log["server"]),
              taken["client"], taken["server"])
  BY Standing
<1>2. ASSUME NEW e \in Ends, coordinator[e] = "written" PROVE Len(log[e]) >= 1
  <2>1. LogInv(e)
    BY Here DEF CoreOf
  <2>2. log[e] # <<>> /\ log[e] \in Seq(Words)
    BY <1>2, <2>1, LogsAreLong DEF LogInv
  <2> QED BY <2>2, RestOf
<1> QED BY <1>1, <1>2 DEF Alert

LEMMA TakesSnapshotKeeps ==
  ASSUME Typed, NEW place, NEW read, NEW taken, Ghosts(place, read, taken), Core(place, read, taken),
         NEW e \in Ends, TakesSnapshot(e), UNCHANGED setting
  PROVE  Kept'
<1> DEFINE n == place[e]  r == read[e]  t == taken[e]
<1>1. CoreOf(e, n, r, t)
  BY Here
<1>2. /\ answer[e] = "asked" /\ todo[e] # <<>> /\ Step(e)[1] = "snapshot" /\ coordinator[e] = "select"
      /\ UNCHANGED <<conduit, reader, framed, coordinator, job, session, queue, stopping, cause, log>>
      /\ UNCHANGED <<todo, expired, held, outcome>> /\ Denied' = Denied
  BY DEF TakesSnapshot, Asks, Doing, Answer, Typed, LoginsTyped, streams, pumps, Denied
<1>3. e = "server" /\ n = 13 /\ ~Failed(e) /\ Step(e) = Snapshot
  <2>1. Step(e) # Write("disconnect")
    BY <1>2, Kinds
  <2>2. ~Failed(e) /\ n \notin Last(e) /\ Step(e) = StepAt(e, n) /\ MayBe(e, n)
    BY <1>1, <1>2, <2>1, Ahead DEF CoreOf, PlaceInv, Failed
  <2>3. e = "server" /\ n = 13
    BY <1>2, <2>2, KindsOfSteps
  <2> QED BY <2>2, <2>3 DEF StepAt, ServerStep
<1>4. answer' = [answer EXCEPT ![e] = "ok"] /\ answer'[e] = "ok"
  <2>1. session[e] = SessionOf(e, t)
    BY <1>1 DEF CoreOf, SessionInv
  <2>2. SessionOf("server", taken["server"]).state = "play"
    <3>1. place["server"] >= 13 /\ coordinator["server"] = "select"
      BY <1>2, <1>3
    <3>2. Alert(place["client"], place["server"], taken["client"], taken["server"])
      BY Alerted
    <3> QED BY <3>1, <3>2, ServerInPlay
  <2>3. session[e].state = "play" /\ Step(e)[2] = "play"
    BY <1>3, <2>1, <2>2 DEF Snapshot
  <2> QED BY <2>3 DEF TakesSnapshot, Answer, Typed, LoginsTyped
<1> HIDE DEF n, r, t
<1>5. StopInv(e)'
  BY <1>1, <1>2, <1>4 DEF CoreOf, StopInv
<1>6. CallInv(e)'
  BY <1>1, <1>2, <1>4 DEF CoreOf, CallInv, Doing, Step
<1>7. PlaceInv(e, n, r)'
  <2>1. Good(Peer(e))' = Good(Peer(e))
    BY <1>2, GoodStays, TwoEnds
  <2>2. e = "server" /\ Refusing => Refusing'
    <3>1. Refusal # <<>> /\ Head(Refusal)[1] # "snapshot"
      BY OneLast, Kinds DEF Refusal
    <3> QED BY <1>2, <3>1 DEF Refusing, Step
  <2> QED BY <1>1, <1>2, <2>1, <2>2, PlaceStays DEF CoreOf
<1>8. SentInv(e, n)'
  <2>1. Extra(e, n)' = Extra(e, n)
    BY <1>2, CourseStays DEF Extra
  <2>2. WritesAt(e, n)' <=> WritesAt(e, n)
    BY DEF WritesAt
  <2>3. Extra(e, n) = 0
    BY <1>1, <1>2 DEF CoreOf, SentInv
  <2>4. ~Doing(e, "write")'
    BY <1>2 DEF Doing, Step
  <2> QED BY <1>1, <1>2, <1>4, <2>1, <2>2, <2>3, <2>4 DEF CoreOf, SentInv
<1>9. CipherInv(e, n)'
  <2>1. /\ Switched(e, n, 3)' <=> Switched(e, n, 3)
    BY <1>2, <1>3, <1>4, SettingStays DEF Switched
  <2> QED BY <1>1, <1>2, <1>3, <2>1 DEF CoreOf, CipherInv
<1> QED BY <1>2, <1>4, <1>5, <1>6, <1>7, <1>8, <1>9, AnswersKeep DEF n, r, t, pumps

LEMMA WriteFailsKeeps ==
  ASSUME Typed, NEW place, NEW read, NEW taken, Ghosts(place, read, taken), Core(place, read, taken),
         NEW e \in Ends, WriteFails(e), UNCHANGED setting
  PROVE  Kept'
<1> DEFINE n == place[e]  r == read[e]  t == taken[e]  p == Peer(e)
<1>1. /\ CoreOf(e, n, r, t) /\ CoreOf(p, place[p], read[p], taken[p]) /\ p \in Ends /\ p # e
      /\ HeldInv(place["client"], taken["server"])
  BY Here
<1> HIDE DEF n, r, t, p
<1>2. /\ \A x \in Ends : x # e => /\ coordinator'[x] = coordinator[x] /\ answer'[x] = answer[x]
                                  /\ stopping'[x] = stopping[x] /\ cause'[x] = cause[x]
      /\ \A x \in Ends : stopping[x] => stopping'[x]
      /\ coordinator[e] = "writing" /\ coordinator'[e] = "over" /\ stopping'[e]
      /\ cause'[e] = (IF cause[e] = "none" THEN "write" ELSE cause[e])
      /\ answer'[e] = (IF answer[e] = "taken" THEN "failed" ELSE answer[e])
      /\ UNCHANGED <<conduit, reader, framed, job, session, queue, log>>
      /\ UNCHANGED <<todo, expired, held, outcome>> /\ Denied' = Denied
  BY DEF WriteFails, AnswerTaken, Stop, Typed, StreamsTyped, LoginsTyped, pumps, Denied
<1>3. CoreOf(p, place[p], read[p], taken[p])'
  <2>1. Untouched(p)
    BY <1>1, <1>2 DEF Untouched
  <2> QED BY <1>1, <1>2, <2>1, UntouchedStays
<1>4. QueueInv(e, r, t)' /\ FlowInv(e, t)' /\ LogInv(e)'
  BY <1>1, <1>2, QueueStays, FlowStays, LogStays DEF CoreOf
<1>5. StopInv(e)'
  BY <1>1, <1>2 DEF CoreOf, StopInv
<1>6. CallInv(e)'
  BY <1>1, <1>2 DEF CoreOf, CallInv
<1>7. PlaceInv(e, n, r)'
  <2>1. Good(Peer(e))' = Good(Peer(e))
    BY <1>2, GoodStays, TwoEnds
  <2>2. e = "server" /\ Refusing => Refusing'
    BY <1>2 DEF Refusing
  <2> QED BY <1>1, <1>2, <2>1, <2>2, PlaceStays DEF CoreOf
<1>8. SentInv(e, n)'
  <2>1. Extra(e, n)' = Extra(e, n)
    BY <1>2, CourseStays DEF Extra
  <2>2. WritesAt(e, n)' <=> WritesAt(e, n)
    BY DEF WritesAt
  <2>3. answer'[e] # "ok" \/ answer[e] = "ok"
    BY <1>2
  <2>4. Extra(e, n) = 0 /\ coordinator'[e] = "over"
    BY <1>1, <1>2 DEF CoreOf, SentInv
  <2> QED BY <1>1, <1>2, <2>1, <2>2, <2>3, <2>4 DEF CoreOf, SentInv, Doing, Step
<1>9. SessionInv(e, t)' /\ CipherInv(e, n)'
  BY <1>1, <1>2, SessionStays, SaidStays, HeardStays, CipherStays DEF CoreOf
<1>10. HeldInv(place["client"], taken["server"])'
  BY <1>1, <1>2, HeldStays, TwoEnds
<1>11. CoreOf(e, n, r, t)'
  BY <1>4, <1>5, <1>6, <1>7, <1>8, <1>9 DEF CoreOf
<1> QED BY <1>3, <1>10, <1>11, SameGhosts DEF n, r, t, p

LEMMA ReadsTransportKeeps ==
  ASSUME Typed, NEW place, NEW read, NEW taken, Ghosts(place, read, taken), Core(place, read, taken),
         NEW e \in Ends, ReadsTransport(e), UNCHANGED setting
  PROVE  Kept'
<1> DEFINE n == place[e]  r == read[e]  t == taken[e]  p == Peer(e)
<1>1. /\ CoreOf(e, n, r, t) /\ CoreOf(p, place[p], read[p], taken[p]) /\ p \in Ends /\ p # e
      /\ HeldInv(place["client"], taken["server"])
  BY Here
<1> HIDE DEF n, r, t, p
<1>2. /\ conduit'[p] = conduit[p]
      /\ FlowOf(conduit'[e]) = FlowOf(conduit[e]) /\ conduit'[e].inHand # <<>>
      /\ conduit'[e].decrypt = conduit[e].decrypt /\ conduit'[e].encrypt = conduit[e].encrypt
      /\ UNCHANGED <<reader, framed, coordinator, job, session, queue, stopping, cause, log>>
      /\ UNCHANGED <<todo, answer, expired, held, outcome>> /\ Denied' = Denied
  BY <1>1, ReadsTransportMoves DEF ReadsTransport, pumps, logins, Denied
<1>3. CoreOf(p, place[p], read[p], taken[p])'
  <2>1. Untouched(p)
    BY <1>1, <1>2 DEF Untouched
  <2> QED BY <1>1, <1>2, <2>1, UntouchedStays
<1>4. QueueInv(e, r, t)' /\ LogInv(e)'
  BY <1>1, <1>2, QueueStays, LogStays DEF CoreOf
<1>5. FlowInv(e, t)'
  <2>1. Flow(e)' = Flow(e) /\ Begun(e)' = Begun(e)
    BY <1>2 DEF Flow, FlowOf, Begun
  <2> QED BY <1>1, <1>2, <2>1 DEF CoreOf, FlowInv, Carries
<1>6. StopInv(e)' /\ CallInv(e)'
  BY <1>1, <1>2, StopStays, CallStays DEF CoreOf
<1>7. PlaceInv(e, n, r)'
  <2>1. Good(Peer(e))' = Good(Peer(e))
    BY <1>2, GoodStays, TwoEnds
  <2> QED BY <1>1, <1>2, <2>1, PlaceStays, RefusingStays DEF CoreOf
<1>8. SentInv(e, n)'
  BY <1>1, <1>2, SentStays DEF CoreOf
<1>9. SessionInv(e, t)' /\ CipherInv(e, n)'
  BY <1>1, <1>2, SessionStays, SaidStays, HeardStays, CipherStays DEF CoreOf
<1>10. HeldInv(place["client"], taken["server"])'
  BY <1>1, <1>2, HeldStays, TwoEnds
<1>11. CoreOf(e, n, r, t)'
  BY <1>4, <1>5, <1>6, <1>7, <1>8, <1>9 DEF CoreOf
<1> QED BY <1>3, <1>10, <1>11, SameGhosts DEF n, r, t, p

(* Where an end is when the coordinator takes its call for a switch.                   *)
LEMMA SwitchesAt ==
  ASSUME Typed, NEW e \in Ends, NEW n, NEW r, NEW t, CoreOf(e, n, r, t), Asks(e, "control")
  PROVE  /\ n = 3 \/ (e = "client" /\ n = 5)
         /\ Step(e)[2] = (IF e = "server" THEN "both" ELSE IF n = 3 THEN "inbound" ELSE "outbound")
         /\ ~(e = "server" /\ Refusing) /\ Online
<1>1. todo[e] # <<>> /\ Step(e)[1] = "control"
  BY DEF Asks, Doing
<1>2. Step(e) # Write("disconnect")
  BY <1>1, Kinds
<1>3. ~Failed(e) /\ n \notin Last(e) /\ Step(e) = StepAt(e, n) /\ MayBe(e, n)
  BY <1>1, <1>2, Ahead DEF CoreOf, PlaceInv, Failed
<1>4. n = 3 \/ (e = "client" /\ n = 5)
  BY <1>1, <1>3, KindsOfSteps
<1>5. Step(e)[2] = (IF e = "server" THEN "both" ELSE IF n = 3 THEN "inbound" ELSE "outbound")
  BY <1>3, <1>4 DEF StepAt, ClientStep, ServerStep, Control, Ends
<1>6. ~(e = "server" /\ Refusing)
  <2>1. Refusal # <<>> /\ Head(Refusal)[1] # "control"
    BY OneLast, Kinds DEF Refusal
  <2> QED BY <1>1, <2>1 DEF Refusing, Step
<1>7. Online
  <2>1. e = "client" => ClientMayBe(n)
    BY <1>3 DEF MayBe
  <2>2. e = "server" => ServerMayBe(n)
    BY <1>3 DEF MayBe
  <2> QED BY <1>4, <2>1, <2>2 DEF ClientMayBe, ServerMayBe, Ends
<1> QED BY <1>4, <1>5, <1>6, <1>7

LEMMA TakesControlKeeps ==
  ASSUME Typed, NEW place, NEW read, NEW taken, Ghosts(place, read, taken), Core(place, read, taken),
         NEW e \in Ends, TakesControl(e), UNCHANGED setting
  PROVE  Kept'
<1> DEFINE n == place[e]  r == read[e]  t == taken[e]  p == Peer(e)  h == Step(e)[2]
<1>1. /\ CoreOf(e, n, r, t) /\ CoreOf(p, place[p], read[p], taken[p]) /\ p \in Ends /\ p # e
      /\ HeldInv(place["client"], taken["server"])
  BY Here
<1>2. /\ answer[e] = "asked" /\ coordinator[e] = "select" /\ Asks(e, "control") /\ todo[e] # <<>>
      /\ Step(e)[1] = "control"
      /\ UNCHANGED <<reader, framed, coordinator, job, session, queue, stopping, cause, log>>
      /\ UNCHANGED <<todo, expired, held, outcome>> /\ Denied' = Denied
  BY DEF TakesControl, Asks, Doing, pumps, Denied
<1>3. /\ n = 3 \/ (e = "client" /\ n = 5)
      /\ h = (IF e = "server" THEN "both" ELSE IF n = 3 THEN "inbound" ELSE "outbound")
      /\ ~(e = "server" /\ Refusing) /\ Online
  BY <1>1, <1>2, SwitchesAt
<1>4. n = 3 => conduit[e].pending = 0
  <2>1. n = 3 => Len(log[p]) = t
    <3>1. Between(place["client"], place["server"], Len(log["client"]), Len(log["server"]),
                  taken["client"], taken["server"])
      BY Standing
    <3>2. /\ place["client"] = 3 => taken["client"] = Len(log["server"])
          /\ place["server"] = 3 => taken["server"] = Len(log["client"])
      BY <1>3, <3>1, InStep
    <3>3. CASE e = "client"
      BY <3>2, <3>3, TwoEnds
    <3>4. CASE e = "server"
      BY <3>2, <3>4, TwoEnds
    <3> QED BY <3>3, <3>4 DEF Ends
  <2>2. n = 3 => Len(FlowOf(conduit[e])) <= 0
    <3>1. Len(Flow(e)) <= 2 * (Len(log[Peer(e)]) - t)
      BY <1>1 DEF CoreOf, FlowInv
    <3>2. Len(log[p]) \in Nat
      BY <1>1, LogsAreLong
    <3>3. Flow(e) = FlowOf(conduit[e])
      BY DEF Flow, FlowOf
    <3> DEFINE k == Len(log[p])  l == Len(FlowOf(conduit[e]))
    <3>4. l <= 2 * (k - t) /\ k \in Nat /\ (n = 3 => k = t)
      BY <2>1, <3>1, <3>2, <3>3
    <3> HIDE DEF k, l, n, t
    <3>5. n = 3 => l <= 0
      BY <3>4
    <3> QED BY <3>5 DEF l
  <2>3. conduit[e] \in Conduits
    BY DEF Typed, StreamsTyped
  <2>4. /\ Len(FlowOf(conduit[e])) = Len(conduit[e].inHand) + Len(conduit[e].buffered) + Len(conduit[e].wire)
        /\ conduit[e].inHand \in Seq(UnitSet) /\ conduit[e].buffered \in Seq(UnitSet) /\ conduit[e].wire \in Seq(UnitSet)
    BY <2>3, FlowsAre
  <2>5. n = 3 => conduit[e].inHand = <<>> /\ Len(conduit[e].buffered) = 0
    <3> DEFINE x == conduit[e].inHand  y == conduit[e].buffered  z == conduit[e].wire
    <3>1. Len(x) \in Nat /\ Len(y) \in Nat /\ Len(z) \in Nat /\ (x # <<>> => Len(x) # 0)
      BY <2>4, EmptySeq
    <3>2. n = 3 => Len(x) + Len(y) + Len(z) <= 0
      BY <2>2, <2>4
    <3> HIDE DEF x, y, z, n
    <3>3. n = 3 => Len(x) = 0 /\ Len(y) = 0
      BY <3>1, <3>2
    <3> QED BY <3>1, <3>3 DEF x, y
  <2>6. conduit[e].inHand = <<>> => conduit[e].pending = Len(conduit[e].buffered)
    BY <1>1 DEF CoreOf, FlowInv
  <2> QED BY <2>5, <2>6
<1> HIDE DEF n, r, t, p, h
<1>5. /\ conduit'[p] = conduit[p] /\ Flow(e)' = Flow(e)
      /\ conduit'[e].inHand = conduit[e].inHand /\ conduit'[e].buffered = conduit[e].buffered
      /\ conduit'[e].pending = conduit[e].pending
      /\ answer' = [answer EXCEPT ![e] = answer'[e]]
      /\ answer'[e] = "ok" => /\ conduit'[e].decrypt <=> conduit[e].decrypt \/ h \in {"inbound", "both"}
                              /\ conduit'[e].encrypt <=> conduit[e].encrypt \/ h \in {"outbound", "both"}
      /\ h = "inbound" /\ ~conduit[e].decrypt /\ conduit[e].pending = 0 => answer'[e] = "ok"
      /\ h = "outbound" /\ ~conduit[e].encrypt => answer'[e] = "ok"
      /\ h = "both" /\ ~conduit[e].decrypt /\ ~conduit[e].encrypt /\ conduit[e].pending = 0 => answer'[e] = "ok"
  <2>1. /\ \A x \in Ends \ {e} : conduit'[x] = conduit[x]
        /\ conduit'[e].wire = conduit[e].wire /\ conduit'[e].inHand = conduit[e].inHand
        /\ conduit'[e].buffered = conduit[e].buffered /\ conduit'[e].pending = conduit[e].pending
        /\ answer' = [answer EXCEPT ![e] = answer'[e]]
    BY TakesControlMoves
  <2>2. /\ answer'[e] = "ok" => /\ conduit'[e].decrypt <=> conduit[e].decrypt \/ h \in {"inbound", "both"}
                                /\ conduit'[e].encrypt <=> conduit[e].encrypt \/ h \in {"outbound", "both"}
        /\ h = "inbound" /\ ~conduit[e].decrypt /\ conduit[e].pending = 0 => answer'[e] = "ok"
        /\ h = "outbound" /\ ~conduit[e].encrypt => answer'[e] = "ok"
        /\ h = "both" /\ ~conduit[e].decrypt /\ ~conduit[e].encrypt /\ conduit[e].pending = 0 => answer'[e] = "ok"
    BY TakesControlMoves DEF h
  <2>3. Flow(e)' = Flow(e)
    BY <2>1 DEF Flow
  <2>4. conduit'[p] = conduit[p]
    BY <1>1, <2>1
  <2> QED BY <2>1, <2>2, <2>3, <2>4
<1>6. /\ \A x \in Ends : x # e => answer'[x] = answer[x]
  BY <1>5 DEF Typed, LoginsTyped
<1>7. e = "client" => ~held \/ n > 5
  BY <1>1 DEF HeldInv, n
<1>8. CipherInv(e, n)
  BY <1>1 DEF CoreOf
<1>9. answer'[e] = "ok"
  BY <1>2, <1>3, <1>4, <1>5, <1>8 DEF CipherInv, Switched, Ends
<1>10. CipherInv(e, n)'
  <2>1. Online' <=> Online
    BY SettingStays
  <2> QED BY <2>1, <1>2, <1>3, <1>5, <1>7, <1>8, <1>9 DEF CipherInv, Switched, Ends
<1>11. CoreOf(p, place[p], read[p], taken[p])'
  <2>1. Untouched(p)
    BY <1>1, <1>2, <1>5, <1>6 DEF Untouched
  <2> QED BY <1>1, <1>2, <2>1, UntouchedStays
<1>12. QueueInv(e, r, t)' /\ LogInv(e)'
  BY <1>1, <1>2, QueueStays, LogStays DEF CoreOf
<1>13. FlowInv(e, t)'
  <2>1. Begun(e)' = Begun(e)
    BY <1>2 DEF Begun
  <2> QED BY SMTT(60), <1>1, <1>2, <1>5, <2>1 DEF CoreOf, FlowInv, Carries
<1>14. StopInv(e)'
  BY <1>1, <1>2, <1>9 DEF CoreOf, StopInv
<1>15. CallInv(e)'
  BY <1>1, <1>2, <1>9 DEF CoreOf, CallInv
<1>16. PlaceInv(e, n, r)'
  <2>1. Good(Peer(e))' = Good(Peer(e))
    BY <1>2, GoodStays, TwoEnds
  <2> QED BY <1>1, <1>2, <1>3, <2>1, PlaceStays DEF CoreOf
<1>17. SentInv(e, n)'
  <2>1. Extra(e, n)' = Extra(e, n)
    BY <1>2, CourseStays DEF Extra
  <2>2. WritesAt(e, n)' <=> WritesAt(e, n)
    BY DEF WritesAt
  <2>3. Extra(e, n) = 0
    BY <1>1, <1>2 DEF CoreOf, SentInv
  <2>4. ~Doing(e, "write")'
    BY <1>2 DEF Doing, Step
  <2> QED BY <1>1, <1>2, <1>9, <2>1, <2>2, <2>3, <2>4 DEF CoreOf, SentInv
<1>18. SessionInv(e, t)'
  BY <1>1, <1>2, SessionStays, SaidStays, HeardStays DEF CoreOf
<1>19. HeldInv(place["client"], taken["server"])'
  BY <1>1, <1>2, HeldStays, TwoEnds
<1>20. CoreOf(e, n, r, t)'
  BY <1>10, <1>12, <1>13, <1>14, <1>15, <1>16, <1>17, <1>18 DEF CoreOf
<1> QED BY <1>11, <1>19, <1>20, SameGhosts DEF n, r, t, p

LEMMA TakesWriteKeeps ==
  ASSUME Typed, NEW place, NEW read, NEW taken, Ghosts(place, read, taken), Core(place, read, taken),
         NEW e \in Ends, TakesWrite(e), UNCHANGED setting
  PROVE  Kept'
<1> DEFINE n == place[e]  r == read[e]  t == taken[e]  p == Peer(e)  k == Len(log[e])
           f == [packet |-> Step(e)[2], from |-> e, compressed |-> session[e].compressed]
<1>1. /\ CoreOf(e, n, r, t) /\ CoreOf(p, place[p], read[p], taken[p]) /\ p \in Ends /\ p # e
      /\ HeldInv(place["client"], taken["server"])
  BY Here
<1>2. /\ answer[e] = "asked" /\ coordinator[e] = "select" /\ Doing(e, "write") /\ todo[e] # <<>>
      /\ Step(e)[1] = "write"
      /\ UNCHANGED <<conduit, reader, framed, session, queue, stopping, cause, log>>
      /\ UNCHANGED <<todo, expired, held, outcome>> /\ Denied' = Denied
  BY DEF TakesWrite, Asks, Doing, pumps, Denied
<1>3. Extra(e, n) = 0 /\ k \in Nat /\ MayBe(e, n)
  BY <1>1, <1>2, LogsAreLong DEF CoreOf, SentInv, PlaceInv
<1>4. k = Sent(e, n)
  <2>1. Sent(e, n) \in Nat
    BY <1>3, PlacesAreNumbers
  <2> QED BY <1>3, <2>1 DEF Extra
<1>5. WritesAt(e, n) \/ (e = "server" /\ Denied /\ n = 4)
  BY <1>1, <1>2, WritesSwitchNothing
<1>6. Alert(place["client"], place["server"], taken["client"], taken["server"])
  BY Alerted
<1>7. session[e] = SessionOf(e, t)
  BY <1>1 DEF CoreOf, SessionInv
<1>8. Encodable(session[e], Step(e)[2]) /\ f = FrameOf(e, k + 1)
  <2>1. CASE Step(e) = StepAt(e, n) /\ WritesAt(e, n)
    <3>1. Step(e)[2] = PacketOf(e, k + 1)
      BY <1>3, <1>4, <2>1, WritesTheNext DEF Write
    <3>2. CASE e = "client"
      <4>1. LET x == SessionOf("client", taken["client"])  q == PacketOf("client", Len(log["client"]) + 1) IN
            /\ Encodable(x, q)
            /\ FrameOf("client", Len(log["client"]) + 1) = [packet |-> q, from |-> "client", compressed |-> x.compressed]
        <5>1. WritesAt("client", place["client"]) /\ Len(log["client"]) = Sent("client", place["client"])
              /\ coordinator["client"] = "select"
          BY <1>2, <1>4, <2>1, <3>2
        <5> QED BY <1>6, <5>1, ClientMayWrite
      <4> QED BY <1>7, <3>1, <3>2, <4>1
    <3>3. CASE e = "server"
      <4>1. LET x == SessionOf("server", taken["server"])  q == PacketOf("server", Len(log["server"]) + 1) IN
            /\ Encodable(x, q)
            /\ FrameOf("server", Len(log["server"]) + 1) = [packet |-> q, from |-> "server", compressed |-> x.compressed]
        <5>1. WritesAt("server", place["server"]) /\ Len(log["server"]) = Sent("server", place["server"])
              /\ coordinator["server"] = "select"
          BY <1>2, <1>4, <2>1, <3>3
        <5> QED BY <1>6, <5>1, ServerMayWrite
      <4> QED BY <1>7, <3>1, <3>3, <4>1
    <3> QED BY <3>2, <3>3 DEF Ends
  <2>2. CASE e = "server" /\ Refusing
    <3>1. Denied
      BY <1>2, <2>2 DEF Refusing
    <3>2. Step(e)[2] = "disconnect"
      <4>1. Step(e) = Write("disconnect")
        BY <2>2, OneLast DEF Refusing, Refusal, Step
      <4> QED BY <4>1 DEF Write
    <3>3. LET x == SessionOf("server", taken["server"]) IN
          /\ Encodable(x, "disconnect")
          /\ FrameOf("server", Len(log["server"]) + 1) =
               [packet |-> "disconnect", from |-> "server", compressed |-> x.compressed]
      <4>1. Len(log["server"]) = Sent("server", place["server"]) /\ coordinator["server"] = "select"
        BY <1>2, <1>4, <2>2
      <4> QED BY <1>6, <3>1, <4>1, ServerMayRefuse
    <3> QED BY <1>7, <2>2, <3>2, <3>3
  <2>3. \/ Step(e) = StepAt(e, n) /\ n \notin Last(e)
        \/ e = "server" /\ Refusing
    BY <1>1, <1>2, Ahead DEF CoreOf
  <2>4. Step(e) = StepAt(e, n) /\ n \notin Last(e) => WritesAt(e, n)
    BY <1>2, <1>3, KindsOfSteps
  <2> QED BY <2>1, <2>2, <2>3, <2>4
<1>9. job' = [job EXCEPT ![e] = f] /\ coordinator' = [coordinator EXCEPT ![e] = "writing"]
      /\ answer' = [answer EXCEPT ![e] = "taken"]
  BY <1>8 DEF TakesWrite, Answer
<1> HIDE DEF n, r, t, p, k, f
<1>10. /\ \A x \in Ends : x # e => job'[x] = job[x] /\ coordinator'[x] = coordinator[x] /\ answer'[x] = answer[x]
       /\ job'[e] = f /\ coordinator'[e] = "writing" /\ answer'[e] = "taken"
  BY <1>9 DEF Typed, StreamsTyped, LoginsTyped
<1>11. CoreOf(p, place[p], read[p], taken[p])'
  <2>1. Untouched(p)
    BY <1>1, <1>2, <1>10 DEF Untouched
  <2> QED BY <1>1, <1>2, <2>1, UntouchedStays
<1>12. QueueInv(e, r, t)' /\ FlowInv(e, t)'
  BY <1>1, <1>2, <1>10, QueueStays, FlowStays DEF CoreOf
<1>13. LogInv(e)'
  <2>1. \A x, i : FrameOf(x, i)' = FrameOf(x, i)
    BY <1>2, FramesStay
  <2>2. \A x, i : (CipherOf(x, i)' <=> CipherOf(x, i))
    BY <1>2, SettingStays DEF CipherOf
  <2>3. \A x, i : Word(x, i)' = Word(x, i)
    BY <2>1, <2>2 DEF Word
  <2>4. job'[e] = FrameOf(e, Len(log[e]) + 1)
    BY <1>8, <1>10 DEF k
  <2> QED BY <1>1, <1>2, <1>10, <2>1, <2>3, <2>4 DEF CoreOf, LogInv
<1>14. StopInv(e)'
  BY <1>1, <1>2, <1>10 DEF CoreOf, StopInv
<1>15. CallInv(e)'
  BY <1>1, <1>2, <1>10 DEF CoreOf, CallInv, Doing, Step
<1>16. PlaceInv(e, n, r)'
  <2>1. Good(Peer(e))' = Good(Peer(e))
    BY <1>2, GoodStays, TwoEnds
  <2>2. e = "server" /\ Refusing => Refusing'
    BY <1>2 DEF Refusing
  <2> QED BY <1>1, <1>2, <2>1, <2>2, PlaceStays DEF CoreOf
<1>17. SentInv(e, n)'
  <2>1. Extra(e, n)' = Extra(e, n)
    BY <1>2, CourseStays DEF Extra
  <2>2. WritesAt(e, n)' <=> WritesAt(e, n)
    BY DEF WritesAt
  <2> QED BY <1>1, <1>2, <1>3, <1>5, <1>10, <2>1, <2>2 DEF CoreOf, SentInv
<1>18. SessionInv(e, t)'
  BY <1>1, <1>2, <1>10, SessionStays, SaidStays, HeardStays DEF CoreOf
<1>19. CipherInv(e, n)'
  BY <1>1, <1>2, <1>10, CipherStays DEF CoreOf
<1>20. HeldInv(place["client"], taken["server"])'
  BY <1>1, <1>2, <1>10, HeldStays, TwoEnds
<1>21. CoreOf(e, n, r, t)'
  BY <1>12, <1>13, <1>14, <1>15, <1>16, <1>17, <1>18, <1>19 DEF CoreOf
<1> QED BY <1>11, <1>20, <1>21, SameGhosts DEF n, r, t, p

LEMMA FinishesWriteKeeps ==
  ASSUME Typed, NEW place, NEW read, NEW taken, Ghosts(place, read, taken), Core(place, read, taken),
         NEW e \in Ends, FinishesWrite(e), UNCHANGED setting
  PROVE  Kept'
<1> DEFINE n == place[e]  r == read[e]  t == taken[e]  p == Peer(e)  k == Len(log[e])  g == Good(e)
           h == Heard(e, t)  y == Transition(session[e], job[e].packet, e)
<1>1. /\ CoreOf(e, n, r, t) /\ CoreOf(p, place[p], read[p], taken[p]) /\ p \in Ends /\ p # e
      /\ HeldInv(place["client"], taken["server"]) /\ t \in Nat
  BY Here
<1>2. /\ coordinator[e] = "written"
      /\ UNCHANGED <<conduit, reader, framed, job, queue, stopping, cause, log>>
      /\ UNCHANGED <<todo, expired, held, outcome>> /\ Denied' = Denied
  BY DEF FinishesWrite, pumps, Denied
<1>3. /\ \A x \in Ends : x # e => session'[x] = session[x] /\ coordinator'[x] = coordinator[x] /\ answer'[x] = answer[x]
      /\ session'[e] = y /\ coordinator'[e] = "select"
      /\ answer'[e] = (IF answer[e] = "taken" THEN "ok" ELSE answer[e])
  BY DEF FinishesWrite, AnswerTaken, Typed, StreamsTyped, LoginsTyped
<1>4. k \in Nat /\ k >= 1 /\ job[e] = FrameOf(e, k) /\ Extra(e, n) = 1 /\ session[e] = SessionAt(e, Said(e), h)
  <2>1. log[e] # <<>> /\ log[e] \in Seq(Words) /\ job[e] = FrameOf(e, k)
    BY <1>1, <1>2, LogsAreLong DEF CoreOf, LogInv
  <2>2. Extra(e, n) = 1 /\ session[e] = SessionAt(e, Said(e), h)
    BY <1>1, <1>2 DEF CoreOf, SentInv, SessionInv, SessionOf
  <2> QED BY <2>1, <2>2, RestOf
<1>5. WritesAt(e, n) \/ (e = "server" /\ Denied /\ n = 4)
  BY <1>1, <1>4 DEF CoreOf, SentInv, PlaceInv
<1>6. h \in Nat
  <2>1. Len(log[p]) \in Nat
    BY <1>1, LogsAreLong
  <2>2. Good(p) \in Nat
    BY <2>1 DEF Good
  <2> QED BY <1>1, <2>2 DEF Heard, AtMost
<1> HIDE DEF n, r, t, p, k, h, g, y
<1>7. Said(e) = AtMost(k - 1, g) /\ Said(e)' = AtMost(k, g)
  <2>1. Good(e)' = g /\ Len(log'[e]) = k /\ Len(log[e]) = k
    BY <1>2, GoodStays DEF k, g
  <2> QED BY <1>2, <1>3, <1>4, <2>1 DEF Said, AtMost, g
<1>8. SessionInv(e, t)'
  <2>1. \A s, x : SessionAt(e, s, x)' = SessionAt(e, s, x)
    BY SettingStays, CourseStays DEF SessionAt, Moved
  <2>2. Heard(e, t)' = h
    BY <1>2, HeardStays DEF h
  <2>3. SessionAt(e, Said(e)', h) = y
    <3>1. CASE e = "server" /\ Denied
      <4>1. k = 2 /\ g = 1
        <5>1. n = 4 /\ MayBe("server", n)
          BY <1>1, <3>1 DEF CoreOf, PlaceInv
        <5>2. Sent("server", 4) = 1
          <6>1. MayBe("server", 4)
            BY <5>1
          <6> QED BY <6>1, ServerProfile
        <5>3. k - Sent(e, n) = 1
          BY <1>4 DEF Extra, k
        <5>4. Sent(e, n) = 1
          BY <3>1, <5>1, <5>2
        <5>5. g = 1
          BY <3>1 DEF Good, g
        <5> QED BY <1>4, <5>3, <5>4, <5>5
      <4>2. Said(e) = 1 /\ Said(e)' = 1
        BY <1>7, <4>1 DEF AtMost
      <4>3. job[e].packet = "disconnect"
        BY <1>4, <3>1, <4>1 DEF FrameOf
      <4> QED BY <1>4, <4>2, <4>3, RefusalMovesNothing DEF y
    <3>2. CASE ~(e = "server" /\ Denied)
      <4>1. g = k /\ Said(e) = k - 1 /\ Said(e)' = k
        <5>1. g = k
          BY <3>2 DEF Good, g, k
        <5> QED BY <1>4, <1>7, <5>1 DEF AtMost
      <4>2. job[e].packet = PacketOf(e, k)
        BY <1>4, <3>2 DEF FrameOf
      <4>3. k - 1 \in Nat /\ (k - 1) + 1 = k
        BY <1>4
      <4> DEFINE m == k - 1
      <4>4. m \in Nat /\ m + 1 = k /\ Said(e) = m
        BY <4>1, <4>3
      <4> HIDE DEF m
      <4>5. Transition(SessionAt(e, m, h), PacketOf(e, m + 1), e) = SessionAt(e, m + 1, h)
        BY <1>6, <4>4, SessionMoves DEF Ends
      <4> QED BY <1>4, <4>1, <4>2, <4>4, <4>5, Zenon DEF y
    <3> QED BY <3>1, <3>2
  <2> QED BY <1>3, <2>1, <2>2, <2>3 DEF SessionInv, SessionOf
<1>9. CoreOf(p, place[p], read[p], taken[p])'
  <2>1. Untouched(p)
    BY <1>1, <1>2, <1>3 DEF Untouched
  <2> QED BY <1>1, <1>2, <2>1, UntouchedStays
<1>10. QueueInv(e, r, t)' /\ FlowInv(e, t)' /\ LogInv(e)'
  BY <1>1, <1>2, <1>3, QueueStays, FlowStays, LogStays DEF CoreOf
<1>11. StopInv(e)'
  BY <1>1, <1>2, <1>3 DEF CoreOf, StopInv
<1>12. CallInv(e)'
  BY <1>1, <1>2, <1>3 DEF CoreOf, CallInv
<1>13. PlaceInv(e, n, r)'
  <2>1. Good(Peer(e))' = Good(Peer(e))
    BY <1>2, GoodStays, TwoEnds
  <2>2. e = "server" /\ Refusing => Refusing'
    BY <1>2, <1>3 DEF Refusing
  <2> QED BY <1>1, <1>2, <2>1, <2>2, PlaceStays DEF CoreOf
<1>14. SentInv(e, n)'
  <2>1. Extra(e, n)' = Extra(e, n)
    BY <1>2, CourseStays DEF Extra
  <2>2. WritesAt(e, n)' <=> WritesAt(e, n)
    BY DEF WritesAt
  <2>3. Doing(e, "write")' <=> Doing(e, "write")
    BY <1>2 DEF Doing, Step
  <2>4. todo[e] = <<>> \/ (Doing(e, "write") /\ answer[e] \in {"taken", "expired"})
    BY <1>1, <1>2 DEF CoreOf, CallInv
  <2>5. answer[e] # "none" => todo[e] # <<>>
    BY DEF Typed, LoginsTyped, Calling
  <2>6. answer'[e] = "ok" => Doing(e, "write")
    BY <1>3, <2>4, <2>5
  <2>7. todo[e] # <<>> => answer'[e] \in {"ok", "expired"}
    BY <1>3, <2>4
  <2> QED BY <1>1, <1>2, <1>3, <1>4, <2>1, <2>2, <2>3, <2>6, <2>7 DEF CoreOf, SentInv
<1>15. CipherInv(e, n)'
  <2>1. n # 3 /\ ~(e = "client" /\ n = 5)
    BY <1>5 DEF WritesAt
  <2>2. /\ Switched(e, n, 3)' <=> Switched(e, n, 3)
        /\ e = "client" => (Switched(e, n, 5)' <=> Switched(e, n, 5))
    BY <2>1, SettingStays DEF Switched
  <2> QED BY <1>1, <1>2, <2>2 DEF CoreOf, CipherInv
<1>16. HeldInv(place["client"], taken["server"])'
  BY <1>1, <1>2, <1>3, HeldStays, TwoEnds
<1>17. CoreOf(e, n, r, t)'
  BY <1>8, <1>10, <1>11, <1>12, <1>13, <1>14, <1>15 DEF CoreOf
<1> QED BY <1>9, <1>16, <1>17, SameGhosts DEF n, r, t, p

(* What a pump that runs hands out next is of the next frame of the peer, under the cipher  *)
(* it was written with; unless a client goes on without its outbound cipher.            *)
LEMMA HandsOutTheNext ==
  ASSUME Typed, NEW place, NEW read, NEW taken, Ghosts(place, read, taken), Core(place, read, taken),
         NEW e \in Ends, HandsOut(e), coordinator[e] # "over"
  PROVE  LET t == taken[e]  unit == Head(conduit[e].inHand) IN
         /\ t < Len(log[Peer(e)])
         /\ unit.frame = log[Peer(e)][t + 1].frame
         /\ \/ HandsOutClear(conduit[e]) /\ (e = "server" /\ held => t <= 1)
            \/ e = "server" /\ expired["client"] /\ reader[e] = "length" /\ ~HandsOutClear(conduit[e])
<1> DEFINE n == place[e]  r == read[e]  t == taken[e]  p == Peer(e)  f == Flow(e)  m == Len(f)  l == Len(log[p])
           b == Begun(e)  unit == Head(conduit[e].inHand)
<1>1. /\ CoreOf(e, n, r, t) /\ CoreOf(p, place[p], read[p], taken[p]) /\ p \in Ends /\ p # e
      /\ HeldInv(place["client"], taken["server"]) /\ t \in Nat
  BY Here
<1>2. reader[e] \in {"length", "payload"} /\ f # <<>> /\ Head(f) = unit /\ f \in Seq(UnitSet)
  <2>1. conduit[e] \in Conduits
    BY DEF Typed, StreamsTyped
  <2> QED BY <2>1, HandsOutMoves, FlowsAre DEF HandsOut, Flow, FlowOf
<1>3. m \in Nat /\ m >= 1 /\ f[1] = unit
  BY <1>2
<1>4. l \in Nat
  BY <1>1, LogsAreLong
<1>5. b = (IF reader[e] = "length" THEN 0 ELSE 1)
  BY <1>2 DEF Begun
<1>6. /\ m = 2 * l - (2 * t + b)
      /\ \A i \in 1..m, j \in 1..l : 2 * t + b + i \in {2 * j - 1, 2 * j} => Carries(f[i], log[p][j])
  BY <1>1, <1>2 DEF CoreOf, FlowInv
<1> HIDE DEF f, m, l, b, t, n, p, unit, r
<1>7. t + 1 \in 1..l /\ 1 \in 1..m /\ 2 * t + b + 1 \in {2 * (t + 1) - 1, 2 * (t + 1)}
  BY <1>1, <1>3, <1>4, <1>5, <1>6
<1>8. Carries(unit, log[p][t + 1])
  BY <1>3, <1>6, <1>7
<1>9. log[p][t + 1] = Word(p, t + 1)
  BY <1>1, <1>7 DEF CoreOf, LogInv, l
<1>10. unit.frame = log[p][t + 1].frame /\ unit.enciphered = CipherOf(p, t + 1)
  BY <1>8, <1>9 DEF Carries, Word
<1>11. Between(place["client"], place["server"], Len(log["client"]), Len(log["server"]),
               taken["client"], taken["server"])
  BY Standing
<1>12. /\ e = "client" /\ Online => (t >= 1 <=> n > 3) /\ n # 3
       /\ e = "server" /\ Online => (t >= 2 <=> n > 3) /\ n # 3
  <2>1. t < l
    BY <1>1, <1>4, <1>7
  <2>2. CASE e = "client"
    BY <1>11, <2>1, <2>2, InStep, TwoEnds DEF t, n, l, p
  <2>3. CASE e = "server"
    BY <1>11, <2>1, <2>3, InStep, TwoEnds DEF t, n, l, p
  <2> QED BY <2>2, <2>3 DEF Ends
<1>13. conduit[e].decrypt <=> Online /\ n > 3
  <2>1. CipherInv(e, n)
    BY <1>1 DEF CoreOf
  <2>2. Online => n # 3
    BY <1>12 DEF Ends
  <2> QED BY <2>1, <2>2 DEF CipherInv, Switched
<1>14. /\ e = "client" => (CipherOf(p, t + 1) <=> Online /\ t >= 1)
       /\ e = "server" => (CipherOf(p, t + 1) <=> Online /\ t >= 2 /\ ~held)
  BY <1>1, TwoEnds DEF CipherOf, p
<1>15. unit.enciphered \in BOOLEAN /\ conduit[e].decrypt \in BOOLEAN /\ CipherOf(p, t + 1) \in BOOLEAN
  <2>1. unit \in UnitSet
    BY HandsOutMoves DEF unit
  <2>2. conduit[e] \in Conduits
    BY DEF Typed, StreamsTyped
  <2> QED BY <2>1, <2>2 DEF UnitSet, Conduits, CipherOf
<1>16. HandsOutClear(conduit[e]) <=> (CipherOf(p, t + 1) <=> conduit[e].decrypt)
  BY <1>10, <1>15 DEF HandsOutClear, unit
<1>17. ~(e = "server" /\ held /\ t >= 2) => HandsOutClear(conduit[e])
  BY <1>12, <1>13, <1>14, <1>16 DEF Ends
<1>18. e = "server" /\ held /\ t >= 2 => reader[e] = "length" /\ expired["client"] /\ ~HandsOutClear(conduit[e])
  <2>1. SUFFICES ASSUME e = "server", held, t >= 2
                 PROVE  reader[e] = "length" /\ expired["client"] /\ ~HandsOutClear(conduit[e])
    OBVIOUS
  <2>2. t <= 2 /\ 2 * t + b <= 4
    BY <1>1, <1>2, <2>1 DEF HeldInv, t, b
  <2>3. b = 0
    BY <1>1, <1>5, <2>1, <2>2
  <2>4. l > 2
    BY <1>1, <1>4, <1>7, <2>1
  <2>5. expired["client"]
    BY <1>1, <2>1, <2>4, TwoEnds DEF HeldInv, l, p
  <2>6. ~HandsOutClear(conduit[e])
    <3>1. Online
      BY <1>1, <2>1 DEF HeldInv
    <3>2. n > 3
      BY <1>12, <2>1, <3>1
    <3> QED BY <1>13, <1>14, <1>16, <2>1, <3>1, <3>2
  <2> QED BY <1>5, <2>3, <2>5, <2>6
<1>19. t < l
  BY <1>1, <1>4, <1>7
<1>20. ~(e = "server" /\ held /\ t >= 2) => (e = "server" /\ held => t <= 1)
  BY <1>1
<1> QED BY <1>10, <1>17, <1>18, <1>19, <1>20 DEF t, p, l, unit

LEMMA HandsOutKeeps ==
  ASSUME Typed, NEW place, NEW read, NEW taken, Ghosts(place, read, taken), Core(place, read, taken),
         NEW e \in Ends, HandsOut(e), UNCHANGED setting
  PROVE  Kept'
<1> DEFINE n == place[e]  r == read[e]  t == taken[e]  p == Peer(e)  f == Flow(e)  m == Len(f)  l == Len(log[p])
           g == Flow(e)'  unit == Head(conduit[e].inHand)
<1>1. /\ CoreOf(e, n, r, t) /\ CoreOf(p, place[p], read[p], taken[p]) /\ p \in Ends /\ p # e
      /\ HeldInv(place["client"], taken["server"]) /\ t \in Nat
  BY Here
<1>2. /\ conduit'[p] = conduit[p] /\ f # <<>> /\ g = Tail(f) /\ f \in Seq(UnitSet)
      /\ conduit'[e].inHand = <<>> /\ conduit'[e].pending = Len(conduit'[e].buffered)
      /\ conduit'[e].decrypt = conduit[e].decrypt /\ conduit'[e].encrypt = conduit[e].encrypt
  <2>1. conduit[e] \in Conduits
    BY DEF Typed, StreamsTyped
  <2> QED BY <1>1, <2>1, HandsOutMoves, FlowsAre DEF Flow, FlowOf
<1>3. coordinator[e] # "over" =>
        /\ t < l /\ unit.frame = log[p][t + 1].frame
        /\ \/ HandsOutClear(conduit[e]) /\ (e = "server" /\ held => t <= 1)
           \/ e = "server" /\ expired["client"] /\ reader[e] = "length" /\ ~HandsOutClear(conduit[e])
  BY HandsOutTheNext
<1>4. /\ m \in Nat /\ m >= 1 /\ Len(g) = m - 1 /\ \A i \in 1..(m - 1) : g[i] = f[i + 1]
  BY <1>2
<1>5. l \in Nat
  BY <1>1, LogsAreLong
<1>6. /\ \A x \in Ends : x # e => /\ reader'[x] = reader[x] /\ framed'[x] = framed[x]
                                  /\ stopping'[x] = stopping[x] /\ cause'[x] = cause[x]
      /\ \A x \in Ends : stopping[x] => stopping'[x]
      /\ UNCHANGED <<coordinator, job, session, queue, log>>
      /\ UNCHANGED <<todo, answer, expired, held, outcome>> /\ Denied' = Denied
      /\ reader[e] \in {"length", "payload"}
  BY DEF HandsOut, Stop, Typed, StreamsTyped, LoginsTyped, logins, Denied
<1>7. \/ /\ reader[e] = "length" /\ reader'[e] = "payload" /\ HandsOutClear(conduit[e])
         /\ stopping'[e] = stopping[e] /\ cause'[e] = cause[e]
      \/ /\ reader[e] = "length" /\ reader'[e] = "exited" /\ ~HandsOutClear(conduit[e])
         /\ stopping'[e] /\ cause'[e] = (IF cause[e] = "none" THEN "garbled" ELSE cause[e])
      \/ /\ reader[e] = "payload" /\ reader'[e] = "handing"
         /\ framed'[e] = (IF HandsOutClear(conduit[e]) THEN unit.frame ELSE Garbage)
         /\ stopping'[e] = stopping[e] /\ cause'[e] = cause[e]
  BY DEF HandsOut, Stop, Typed, StreamsTyped
<1>8. CoreOf(p, place[p], read[p], taken[p])'
  <2>1. Untouched(p)
    BY <1>1, <1>2, <1>6 DEF Untouched
  <2> QED BY <1>1, <1>6, <2>1, UntouchedStays
<1> HIDE DEF n, r, t, p, f, m, l, g, unit
<1>9. QueueInv(e, r, t)' /\ LogInv(e)'
  BY <1>1, <1>6, QueueStays, LogStays DEF CoreOf
<1>10. FlowInv(e, t)'
  <2>1. FlowInv(e, t)
    BY <1>1 DEF CoreOf
  <2>2. m <= 2 * (l - t)
    BY <2>1 DEF FlowInv, f, m, l, p
  <2>3. Len(g) <= 2 * (l - t)
    BY <1>1, <1>4, <1>5, <2>2
  <2>4. ASSUME coordinator'[e] # "over", reader'[e] # "exited"
        PROVE  /\ Len(g) = 2 * l - (2 * t + Begun(e)')
               /\ \A i \in 1..Len(g), j \in 1..l :
                    2 * t + Begun(e)' + i \in {2 * j - 1, 2 * j} => Carries(g[i], log[p][j])
               /\ reader'[e] = "handing" => framed'[e] = log[p][t + 1].frame
    <3> DEFINE b == Begun(e)  c == Begun(e)'
    <3>1. b \in {0, 1} /\ c = b + 1
      BY <1>7, <2>4 DEF Begun
    <3>2. /\ m = 2 * l - (2 * t + b)
          /\ \A i \in 1..m, j \in 1..l : 2 * t + b + i \in {2 * j - 1, 2 * j} => Carries(f[i], log[p][j])
      BY <1>6, <2>1, <2>4 DEF FlowInv, f, m, l, p
    <3> HIDE DEF b, c
    <3>3. Len(g) = 2 * l - (2 * t + c)
      BY <1>1, <1>4, <1>5, <3>1, <3>2
    <3>4. ASSUME NEW i \in 1..Len(g), NEW j \in 1..l, 2 * t + c + i \in {2 * j - 1, 2 * j}
          PROVE  Carries(g[i], log[p][j])
      <4>1. i \in 1..(m - 1) /\ i + 1 \in 1..m /\ 2 * t + b + (i + 1) \in {2 * j - 1, 2 * j}
        BY <1>1, <1>4, <3>1, <3>4
      <4>2. g[i] = f[i + 1]
        BY <1>4, <4>1
      <4>3. Carries(f[i + 1], log[p][j])
        BY <3>2, <3>4, <4>1
      <4> QED BY <4>2, <4>3
    <3>5. reader'[e] = "handing" => framed'[e] = log[p][t + 1].frame
      BY <1>3, <1>6, <1>7, <2>4
    <3> QED BY <3>3, <3>4, <3>5 DEF c
  <2>5. log'[p] = log[p] /\ Flow(e)' = g
    BY <1>6 DEF g
  <2> QED BY <1>2, <2>3, <2>4, <2>5 DEF FlowInv, Carries, l, p
<1>11. StopInv(e)'
  <2>1. StopInv(e)
    BY <1>1 DEF CoreOf
  <2>2. ~HandsOutClear(conduit[e]) /\ cause[e] = "none" => expired["client"]
    BY <1>3, <2>1 DEF StopInv
  <2> QED BY <1>6, <1>7, <2>1, <2>2 DEF StopInv
<1>12. CallInv(e)'
  BY <1>1, <1>6, CallStays DEF CoreOf
<1>13. PlaceInv(e, n, r)'
  <2>1. Good(Peer(e))' = Good(Peer(e))
    BY <1>6, GoodStays, TwoEnds
  <2>2. e = "server" /\ Refusing => Refusing'
    BY <1>6, RefusingStays, TwoEnds
  <2> QED BY <1>1, <1>6, <2>1, <2>2, PlaceStays DEF CoreOf
<1>14. SentInv(e, n)'
  BY <1>1, <1>6, SentStays DEF CoreOf
<1>15. SessionInv(e, t)' /\ CipherInv(e, n)'
  BY <1>1, <1>2, <1>6, SessionStays, SaidStays, HeardStays, CipherStays DEF CoreOf
<1>16. HeldInv(place["client"], taken["server"])'
  <2>1. CASE e = "client"
    BY <1>1, <1>6, <2>1, HeldStays, TwoEnds
  <2>2. CASE e = "server"
    <3>1. HeldInv(place["client"], t)
      BY <1>1, <2>2 DEF t
    <3>2. Online' <=> Online
      BY SettingStays
    <3>3. held /\ coordinator["server"] # "over" /\ reader'["server"] # "exited" => 2 * t + Begun("server")' <= 4
      <4>1. SUFFICES ASSUME held, coordinator["server"] # "over", reader'["server"] # "exited"
                     PROVE  2 * t + Begun("server")' <= 4
        OBVIOUS
      <4>2. 2 * t + Begun("server") <= 4
        BY <1>6, <2>2, <3>1, <4>1 DEF HeldInv
      <4>3. \/ Begun("server") = 0 /\ Begun("server")' = 1 /\ t <= 1
            \/ Begun("server") = 1 /\ Begun("server")' = 2
        <5>1. \/ reader["server"] = "length" /\ reader'["server"] = "payload" /\ t <= 1
              \/ reader["server"] = "payload" /\ reader'["server"] = "handing"
          BY <1>3, <1>7, <2>2, <4>1
        <5>2. CASE reader["server"] = "length" /\ reader'["server"] = "payload" /\ t <= 1
          BY <5>2 DEF Begun
        <5>3. CASE reader["server"] = "payload" /\ reader'["server"] = "handing"
          BY <5>3 DEF Begun
        <5> QED BY <5>1, <5>2, <5>3
      <4> DEFINE b == Begun("server")  c == Begun("server")'
      <4>4. t \in Nat /\ 2 * t + b <= 4 /\ ((b = 0 /\ c = 1 /\ t <= 1) \/ (b = 1 /\ c = 2))
        BY <1>1, <4>2, <4>3
      <4> HIDE DEF b, c
      <4>5. 2 * t + c <= 4
        BY <4>4
      <4> QED BY <4>5 DEF c
    <3>4. HeldInv(place["client"], t)'
      BY <1>6, <3>1, <3>2, <3>3, TwoEnds DEF HeldInv
    <3> QED BY <2>2, <3>4 DEF t
  <2> QED BY <2>1, <2>2 DEF Ends
<1>17. CoreOf(e, n, r, t)'
  BY <1>9, <1>10, <1>11, <1>12, <1>13, <1>14, <1>15 DEF CoreOf
<1> QED BY <1>8, <1>16, <1>17, SameGhosts DEF n, r, t, p

LEMMA TakesFrameKeeps ==
  ASSUME Typed, NEW place, NEW read, NEW taken, Ghosts(place, read, taken), Core(place, read, taken),
         NEW e \in Ends, TakesFrame(e), UNCHANGED setting
  PROVE  Kept'
<1> DEFINE n == place[e]  r == read[e]  t == taken[e]  p == Peer(e)  q == queue[e]  l == Len(log[p])
           f == framed[e]  m == Len(Flow(e))
<1>1. /\ CoreOf(e, n, r, t) /\ CoreOf(p, place[p], read[p], taken[p]) /\ p \in Ends /\ p # e
      /\ HeldInv(place["client"], taken["server"]) /\ n \in Nat /\ r \in Nat /\ t \in Nat
  BY Here
<1>2. /\ coordinator[e] = "select" /\ reader[e] = "handing"
      /\ \A x \in Ends : x # e => reader'[x] = reader[x]
      /\ reader'[e] = "length"
      /\ UNCHANGED <<conduit, framed, job, log>>
      /\ UNCHANGED <<todo, answer, expired, held, outcome>> /\ Denied' = Denied
  BY DEF TakesFrame, Typed, StreamsTyped, logins, Denied
<1>3. m \in Nat /\ l \in Nat
  <2>1. conduit[e] \in Conduits
    BY DEF Typed, StreamsTyped
  <2>2. Flow(e) \in Seq(UnitSet)
    BY <2>1, FlowsAre DEF Flow, FlowOf
  <2> QED BY <1>1, <2>2, LogsAreLong
<1>4. /\ m = 2 * l - (2 * t + 2) /\ f = log[p][t + 1].frame
      /\ \A i \in 1..m, j \in 1..l : 2 * t + 2 + i \in {2 * j - 1, 2 * j} => Carries(Flow(e)[i], log[p][j])
  <2>1. Begun(e) = 2
    BY <1>2 DEF Begun
  <2> QED BY <1>1, <1>2, <2>1 DEF CoreOf, FlowInv
<1> HIDE DEF n, r, t, p, q, l, f, m
<1>5. t + 1 \in 1..l /\ t < l /\ m <= 2 * (l - (t + 1))
  BY <1>1, <1>3, <1>4
<1>6. f = FrameOf(p, t + 1) /\ f.from = p
  <2>1. log[p][t + 1] = Word(p, t + 1)
    BY <1>1, <1>5 DEF CoreOf, LogInv, l
  <2>2. t + 1 \in Nat /\ t + 1 >= 1
    BY <1>1
  <2>3. FrameOf(p, t + 1).from = p
    BY <1>1, <2>2, FramesAre
  <2> QED BY <1>4, <2>1, <2>3 DEF Word
<1>7. session[e] = SessionOf(e, t)
  BY <1>1 DEF CoreOf, SessionInv
<1>8. Legible(session[e], f) /\ f \in Frames /\ Transition(session[e], f.packet, p) = SessionOf(e, t + 1)
  <2>1. Alert(place["client"], place["server"], taken["client"], taken["server"])
    BY Alerted
  <2>2. CASE e = "client"
    <3>1. p = "server" /\ t = taken["client"] /\ l = Len(log["server"])
      BY <2>2, TwoEnds DEF p, t, l
    <3>2. LET x == SessionOf("client", t)  g == FrameOf("server", t + 1) IN
          Legible(x, g) /\ g \in Frames /\ Transition(x, g.packet, "server") = SessionOf("client", t + 1)
      BY <1>2, <1>5, <2>1, <2>2, <3>1, ClientUnderstands
    <3> QED BY <1>6, <1>7, <2>2, <3>1, <3>2
  <2>3. CASE e = "server"
    <3>1. p = "client" /\ t = taken["server"] /\ l = Len(log["client"])
      BY <2>3, TwoEnds DEF p, t, l
    <3>2. LET x == SessionOf("server", t)  g == FrameOf("client", t + 1) IN
          Legible(x, g) /\ g \in Frames /\ Transition(x, g.packet, "client") = SessionOf("server", t + 1)
      BY <1>2, <1>5, <2>1, <2>3, <3>1, ServerUnderstands
    <3> QED BY <1>6, <1>7, <2>3, <3>1, <3>2
  <2> QED BY <2>2, <2>3 DEF Ends
<1>9. /\ session' = [session EXCEPT ![e] = SessionOf(e, t + 1)]
      /\ queue' = [queue EXCEPT ![e] = Append(q, f.packet)]
      /\ UNCHANGED <<coordinator, stopping, cause>>
  BY <1>6, <1>8 DEF TakesFrame, f, q
<1>10. /\ \A x \in Ends : x # e => session'[x] = session[x] /\ queue'[x] = queue[x]
       /\ session'[e] = SessionOf(e, t + 1) /\ queue'[e] = Append(q, f.packet)
       /\ q \in Seq(Packets) /\ f.packet \in Packets
  BY <1>8, <1>9 DEF Typed, StreamsTyped, Frames, q
<1>11. CoreOf(p, place[p], read[p], taken[p])'
  <2>1. Untouched(p)
    BY <1>1, <1>2, <1>9, <1>10 DEF Untouched
  <2> QED BY <1>1, <1>2, <2>1, UntouchedStays
<1>12. QueueInv(e, r, t + 1)'
  <2> DEFINE u == Append(q, f.packet)
  <2>1. Len(u) = Len(q) + 1 /\ Len(q) \in Nat /\ (\A i \in 1..Len(q) : u[i] = q[i]) /\ u[Len(q) + 1] = f.packet
    BY <1>10, Appended
  <2>2. r <= t /\ Len(q) = t - r /\ \A i \in 1..Len(q) : q[i] = log[p][r + i].frame.packet
    BY <1>1 DEF CoreOf, QueueInv, q, p
  <2> HIDE DEF u
  <2>3. r <= t + 1 /\ t + 1 <= l /\ Len(u) = (t + 1) - r /\ r + (Len(q) + 1) = t + 1
    BY SMTT(60), <1>1, <1>3, <1>5, <2>1, <2>2
  <2>4. ASSUME NEW i \in 1..Len(u) PROVE u[i] = log[p][r + i].frame.packet
    <3>1. CASE i \in 1..Len(q)
      BY <2>1, <2>2, <3>1
    <3>2. CASE i = Len(q) + 1
      <4>1. r + i = t + 1
        BY <2>3, <3>2
      <4> QED BY <1>4, <2>1, <3>2, <4>1
    <3> QED BY <2>1, <3>1, <3>2
  <2>5. queue'[e] = u /\ log' = log
    BY <1>2, <1>10 DEF u
  <2> QED BY <2>3, <2>4, <2>5 DEF QueueInv, p, l
<1>13. FlowInv(e, t + 1)'
  <2>1. Begun(e)' = 0 /\ Flow(e)' = Flow(e) /\ log' = log
    BY <1>2 DEF Begun, Flow
  <2>2. 2 * (t + 1) + 0 = 2 * t + 2
    BY <1>1
  <2>3. conduit[e].inHand = <<>> => conduit[e].pending = Len(conduit[e].buffered)
    BY <1>1 DEF CoreOf, FlowInv
  <2> DEFINE had == 2 * (t + 1) + 0
  <2>4. /\ m = 2 * l - had
        /\ \A i \in 1..m, j \in 1..l : had + i \in {2 * j - 1, 2 * j} => Carries(Flow(e)[i], log[p][j])
    BY <1>4, <2>2
  <2> HIDE DEF had
  <2> QED BY <1>2, <1>5, <2>1, <2>3, <2>4 DEF FlowInv, Carries, had, m, l, p
<1>14. LogInv(e)'
  BY <1>1, <1>2, <1>9, LogStays DEF CoreOf
<1>15. StopInv(e)' /\ CallInv(e)'
  BY <1>1, <1>2, <1>9, StopStays, CallStays DEF CoreOf
<1>16. PlaceInv(e, n, r)'
  <2>1. Good(Peer(e))' = Good(Peer(e))
    BY <1>2, GoodStays, TwoEnds
  <2>2. e = "server" /\ Refusing => Refusing'
    BY <1>2, <1>9, RefusingStays, TwoEnds
  <2> QED BY <1>1, <1>2, <2>1, <2>2, PlaceStays DEF CoreOf
<1>17. SentInv(e, n)'
  BY <1>1, <1>2, <1>9, SentStays DEF CoreOf
<1>18. CipherInv(e, n)'
  BY <1>1, <1>2, CipherStays DEF CoreOf
<1>19. SessionInv(e, t + 1)'
  <2>1. \A s, h : SessionAt(e, s, h)' = SessionAt(e, s, h)
    BY SettingStays, CourseStays DEF SessionAt, Moved
  <2>2. Said(e)' = Said(e) /\ Heard(e, t + 1)' = Heard(e, t + 1)
    BY <1>1, <1>2, <1>9, SaidStays, HeardStays
  <2> QED BY <1>10, <2>1, <2>2 DEF SessionInv, SessionOf
<1>20. /\ e = "client" => HeldInv(n, taken["server"])'
       /\ e = "server" => HeldInv(place["client"], t + 1)'
  <2>1. CASE e = "client"
    <3>1. HeldInv(n, taken["server"])
      BY <1>1, <2>1 DEF n
    <3> QED BY <1>1, <1>2, <1>9, <2>1, <3>1, HeldStays, TwoEnds
  <2>2. CASE e = "server"
    <3>1. HeldInv(place["client"], t)
      BY <1>1, <2>2 DEF t
    <3>2. Online' <=> Online
      BY SettingStays
    <3>3. held => 2 * t + Begun("server") <= 4
      BY <1>2, <2>2, <3>1 DEF HeldInv
    <3>4. Begun("server") = 2 /\ Begun("server")' = 0
      BY <1>2, <2>2 DEF Begun
    <3>5. held => t + 1 <= 2 /\ 2 * (t + 1) + Begun("server")' <= 4
      BY <1>1, <3>3, <3>4
    <3>6. HeldInv(place["client"], t + 1)'
      BY <1>2, <1>9, <3>1, <3>2, <3>5, TwoEnds DEF HeldInv
    <3> QED BY <2>2, <3>6
  <2> QED BY <2>1, <2>2 DEF Ends
<1>21. CoreOf(e, n, r, t + 1)'
  BY <1>12, <1>13, <1>14, <1>15, <1>16, <1>17, <1>18, <1>19 DEF CoreOf
<1>22. t + 1 \in Nat
  BY <1>1
<1> QED BY <1>1, <1>11, <1>20, <1>21, <1>22, NewGhosts DEF p

(* A write that goes out is the next of its end, under the cipher that frame has; what is  *)
(* on its way to the peer, and has been written, is as before with it behind.           *)
LEMMA TransmitsTheNext ==
  ASSUME Typed, NEW place, NEW read, NEW taken, Ghosts(place, read, taken), Core(place, read, taken),
         NEW e \in Ends, Transmits(e)
  PROVE  LET l == Len(log[e]) IN
         /\ log'[e] \in Seq(Words) /\ Len(log'[e]) = l + 1 /\ l \in Nat
         /\ \A i \in 1..l : log'[e][i] = log[e][i]
         /\ log'[e][l + 1] = Word(e, l + 1)
         /\ job[e] = FrameOf(e, l + 1)
         /\ log'[e][l + 1].frame = job[e] /\ log'[e][l + 1].enciphered = conduit[e].encrypt
<1> DEFINE n == place[e]  r == read[e]  t == taken[e]  l == Len(log[e])
           w == [frame |-> job[e], enciphered |-> conduit[e].encrypt]
<1>1. CoreOf(e, n, r, t)
  BY Here
<1>2. coordinator[e] = "writing" /\ log' = [log EXCEPT ![e] = Append(log[e], w)]
  BY DEF Transmits
<1>3. l \in Nat /\ log[e] \in Seq(Words)
  BY LogsAreLong
<1>4. w \in Words
  <2>1. job[e] \in Frames /\ conduit[e] \in Conduits
    BY <1>2 DEF Typed, StreamsTyped
  <2> QED BY <2>1 DEF Words, Conduits
<1>5. /\ Append(log[e], w) \in Seq(Words) /\ Len(Append(log[e], w)) = l + 1
      /\ \A i \in 1..l : Append(log[e], w)[i] = log[e][i]
      /\ Append(log[e], w)[l + 1] = w
  BY <1>3, <1>4, Appended
<1>6. log'[e] = Append(log[e], w)
  BY <1>2 DEF Typed, StreamsTyped
<1>7. job[e] = FrameOf(e, l + 1)
  BY <1>1, <1>2 DEF CoreOf, LogInv
<1>8. MayBe(e, n) /\ Extra(e, n) = 0 /\ (WritesAt(e, n) \/ (e = "server" /\ Denied /\ n = 4))
  BY <1>1, <1>2 DEF CoreOf, SentInv, PlaceInv
<1>9. l = Sent(e, n)
  <2>1. Sent(e, n) \in Nat
    BY <1>8, PlacesAreNumbers
  <2>2. l - Sent(e, n) = 0
    BY <1>8 DEF Extra
  <2> QED BY <1>3, <2>1, <2>2
<1>10. CipherInv(e, n)
  BY <1>1 DEF CoreOf
<1> HIDE DEF n, r, t, l, w
<1>11. CipherOf(e, l + 1) <=> conduit[e].encrypt
  <2>1. CASE e = "client"
    <3>1. WritesAt("client", n) /\ MayBe("client", n)
      BY <1>8, <2>1
    <3>2. Online => (l >= 2 <=> n > 5)
      BY <1>9, <2>1, <3>1, ClientProfile
    <3>3. n # 5
      BY <3>1 DEF WritesAt
    <3>4. conduit[e].encrypt <=> Online /\ n > 5 /\ ~held
      BY <1>10, <2>1, <3>3 DEF CipherInv, Switched
    <3>5. CipherOf(e, l + 1) <=> Online /\ l >= 2 /\ ~held
      BY <1>3, <2>1 DEF CipherOf
    <3> QED BY <3>2, <3>4, <3>5
  <2>2. CASE e = "server"
    <3>1. MayBe("server", n) /\ (WritesAt("server", n) \/ n = 4)
      BY <1>8, <2>2
    <3>2. WritesAt("server", n) /\ Online => (l >= 1 <=> n > 3)
      BY <1>9, <2>2, <3>1, ServerProfile
    <3>3. n = 4 => l = 1
      BY <1>9, <2>2, <3>1, ServerProfile
    <3>4. n # 3
      BY <3>1 DEF WritesAt
    <3>5. conduit[e].encrypt <=> Online /\ n > 3
      BY <1>10, <2>2, <3>4 DEF CipherInv, Switched
    <3>6. CipherOf(e, l + 1) <=> Online /\ l >= 1
      BY <1>3, <2>2 DEF CipherOf
    <3> QED BY <3>1, <3>2, <3>3, <3>5, <3>6
  <2> QED BY <2>1, <2>2 DEF Ends
<1>12. w = Word(e, l + 1)
  <2>1. conduit[e].encrypt \in BOOLEAN /\ CipherOf(e, l + 1) \in BOOLEAN
    <3>1. conduit[e] \in Conduits
      BY DEF Typed, StreamsTyped
    <3> QED BY <3>1 DEF Conduits, CipherOf
  <2>2. conduit[e].encrypt = CipherOf(e, l + 1)
    BY <1>11, <2>1
  <2> QED BY <1>7, <2>2, Zenon DEF w, Word
<1>13. w.frame = job[e] /\ w.enciphered = conduit[e].encrypt
  BY DEF w
<1> QED BY <1>3, <1>5, <1>6, <1>7, <1>12, <1>13 DEF l

(* What the peer of a writer knows.                                                 *)
LEMMA TransmitsReaches ==
  ASSUME Typed, NEW place, NEW read, NEW taken, Ghosts(place, read, taken), Core(place, read, taken),
         NEW e \in Ends, Transmits(e), UNCHANGED setting
  PROVE  LET p == Peer(e) IN CoreOf(p, place[p], read[p], taken[p])'
<1> DEFINE p == Peer(e)  n == place[p]  r == read[p]  t == taken[p]  l == Len(log[e])  w == log[e]  v == log'[e]
           f == Flow(p)  g == Flow(p)'  m == Len(f)
<1>1. /\ CoreOf(p, n, r, t) /\ p \in Ends /\ p # e /\ Peer(p) = e /\ t \in Nat /\ r \in Nat
  BY Here, TwoEnds
<1>2. /\ coordinator[e] = "writing"
      /\ \A x \in Ends : x # e => coordinator'[x] = coordinator[x] /\ log'[x] = log[x]
      /\ coordinator'[e] = "written"
      /\ UNCHANGED <<reader, framed, job, session, queue, stopping, cause>>
      /\ UNCHANGED <<todo, answer, expired, held, outcome>> /\ Denied' = Denied
  BY DEF Transmits, Typed, StreamsTyped, pumps, logins, Denied
<1>3. /\ Len(v) = l + 1 /\ l \in Nat /\ \A i \in 1..l : v[i] = w[i]
      /\ v[l + 1].frame = job[e] /\ v[l + 1].enciphered = conduit[e].encrypt
  BY TransmitsTheNext
<1>4. /\ m \in Nat /\ Len(g) = m + 2 /\ \A i \in 1..m : g[i] = f[i]
      /\ \A i \in {m + 1, m + 2} : g[i].frame = job[e] /\ g[i].enciphered = conduit[e].encrypt
      /\ conduit'[p].inHand = conduit[p].inHand /\ conduit'[p].buffered = conduit[p].buffered
      /\ conduit'[p].pending = conduit[p].pending
      /\ conduit'[p].decrypt = conduit[p].decrypt /\ conduit'[p].encrypt = conduit[p].encrypt
  BY TransmitsMoves DEF Flow, FlowOf
<1>5. QueueInv(p, r, t) /\ FlowInv(p, t)
  BY <1>1 DEF CoreOf
<1> HIDE DEF p, n, r, t, l, w, v, f, g, m
<1>6. QueueInv(p, r, t)'
  <2> DEFINE q == queue[p]
  <2>1. /\ r <= t /\ t <= l /\ Len(q) = t - r
        /\ \A i \in 1..Len(q) : q[i] = w[r + i].frame.packet
    BY <1>1, <1>5 DEF QueueInv, l, w
  <2>2. t <= Len(v)
    BY <1>1, <1>3, <2>1
  <2>3. ASSUME NEW i \in 1..Len(q) PROVE q[i] = v[r + i].frame.packet
    <3>1. r + i \in 1..l
      BY <1>1, <1>3, <2>1
    <3> QED BY <1>3, <2>1, <3>1
  <2> HIDE DEF q
  <2>4. queue'[p] = q /\ log'[e] = v
    BY <1>2 DEF q, v
  <2> QED BY <1>1, <2>1, <2>2, <2>3, <2>4 DEF QueueInv
<1>7. FlowInv(p, t)'
  <2>1. conduit'[p].inHand = <<>> => conduit'[p].pending = Len(conduit'[p].buffered)
    BY <1>4, <1>5 DEF FlowInv
  <2>2. m <= 2 * (l - t)
    BY <1>1, <1>5 DEF FlowInv, m, f, l
  <2>3. Len(g) <= 2 * (Len(v) - t)
    BY <1>1, <1>3, <1>4, <2>2
  <2>4. ASSUME coordinator'[p] # "over", reader'[p] # "exited"
        PROVE  /\ Len(g) = 2 * Len(v) - (2 * t + Begun(p)')
               /\ \A i \in 1..Len(g), j \in 1..Len(v) :
                    2 * t + Begun(p)' + i \in {2 * j - 1, 2 * j} => Carries(g[i], v[j])
               /\ reader'[p] = "handing" => framed'[p] = v[t + 1].frame
    <3> DEFINE b == Begun(p)  had == 2 * t + b
    <3>1. b \in {0, 1, 2} /\ Begun(p)' = b /\ (reader[p] = "handing" => b = 2)
      BY <1>2 DEF Begun
    <3>2. /\ m = 2 * l - had
          /\ \A i \in 1..m, j \in 1..l : had + i \in {2 * j - 1, 2 * j} => Carries(f[i], w[j])
          /\ reader[p] = "handing" => framed[p] = w[t + 1].frame
      BY <1>1, <1>2, <1>5, <2>4 DEF FlowInv, m, f, l, w
    <3> HIDE DEF b
    <3>3. had \in Nat
      BY <1>1, <3>1
    <3>4. reader[p] = "handing" => t + 1 \in 1..l
      BY <1>1, <1>3, <1>4, <3>1, <3>2
    <3> HIDE DEF had
    <3>5. Len(g) = 2 * Len(v) - had
      BY <1>3, <1>4, <3>2, <3>3
    <3>6. ASSUME NEW i \in 1..Len(g), NEW j \in 1..Len(v), had + i \in {2 * j - 1, 2 * j}
          PROVE  Carries(g[i], v[j])
      <4>1. CASE i \in 1..m
        <5>1. j \in 1..l
          BY <1>3, <1>4, <3>2, <3>3, <3>6, <4>1
        <5>2. g[i] = f[i] /\ v[j] = w[j]
          BY <1>3, <1>4, <4>1, <5>1
        <5> QED BY <3>2, <3>6, <4>1, <5>1, <5>2
      <4>2. CASE i \in {m + 1, m + 2}
        <5>1. j = l + 1
          BY <1>3, <1>4, <3>2, <3>3, <3>6, <4>2
        <5>2. g[i].frame = job[e] /\ g[i].enciphered = conduit[e].encrypt
          BY <1>4, <4>2
        <5> QED BY <1>3, <5>1, <5>2 DEF Carries
      <4>3. i \in 1..m \/ i \in {m + 1, m + 2}
        BY <1>4
      <4> QED BY <4>1, <4>2, <4>3
    <3>7. reader'[p] = "handing" => framed'[p] = v[t + 1].frame
      BY <1>2, <1>3, <3>2, <3>4
    <3> QED BY <3>1, <3>5, <3>6, <3>7 DEF had
  <2>5. log'[Peer(p)] = v /\ Flow(p)' = g
    BY <1>1 DEF g, v
  <2> QED BY <2>1, <2>3, <2>4, <2>5 DEF FlowInv, Carries
<1>8. LogInv(p)'
  BY <1>1, <1>2, LogStays DEF CoreOf
<1>9. StopInv(p)' /\ CallInv(p)'
  BY <1>1, <1>2, StopStays, CallStays DEF CoreOf
<1>10. Good(e)' \in Nat /\ Good(e) \in Nat /\ Good(e) <= Good(e)' /\ (~(e = "server" /\ Denied) => Good(e) = l /\ Good(e)' = l + 1)
       /\ (e = "server" /\ Denied => Good(e)' = Good(e))
  BY <1>2, <1>3 DEF Good, v, l
<1>11. PlaceInv(p, n, r)'
  <2>1. Had(p, n) \in Nat
    BY <1>1, PlacesAreNumbers DEF CoreOf, PlaceInv
  <2>2. Had(p, n) <= Good(Peer(p)) => Had(p, n) <= Good(Peer(p))'
    BY <1>1, <1>10, <2>1
  <2>3. p = "server" /\ Refusing => Refusing'
    BY <1>2, RefusingStays
  <2> QED BY <1>1, <1>2, <2>2, <2>3, PlaceStays DEF CoreOf
<1>12. SentInv(p, n)'
  BY <1>1, <1>2, SentStays DEF CoreOf
<1>13. SessionInv(p, t)'
  <2>1. t <= l
    BY <1>1 DEF CoreOf, QueueInv, l
  <2>2. Heard(p, t)' = Heard(p, t)
    BY <1>1, <1>3, <1>10, <2>1 DEF Heard, AtMost
  <2>3. Said(p)' = Said(p)
    BY <1>1, <1>2, SaidStays
  <2> QED BY <1>1, <1>2, <2>2, <2>3, SessionStays DEF CoreOf
<1>14. CipherInv(p, n)'
  BY <1>1, <1>2, <1>4, CipherStays DEF CoreOf
<1> QED BY <1>6, <1>7, <1>8, <1>9, <1>11, <1>12, <1>13, <1>14 DEF CoreOf, n, r, t, p

LEMMA TransmitsKeeps ==
  ASSUME Typed, NEW place, NEW read, NEW taken, Ghosts(place, read, taken), Core(place, read, taken),
         NEW e \in Ends, Transmits(e), UNCHANGED setting
  PROVE  Kept'
<1> DEFINE n == place[e]  r == read[e]  t == taken[e]  p == Peer(e)  l == Len(log[e])
<1>1. /\ CoreOf(e, n, r, t) /\ CoreOf(p, place[p], read[p], taken[p]) /\ p \in Ends /\ p # e
      /\ HeldInv(place["client"], taken["server"])
  BY Here
<1>2. /\ coordinator[e] = "writing" /\ ~stopping[e]
      /\ \A x \in Ends : x # e => coordinator'[x] = coordinator[x] /\ log'[x] = log[x]
      /\ coordinator'[e] = "written"
      /\ UNCHANGED <<reader, framed, job, session, queue, stopping, cause>>
      /\ UNCHANGED <<todo, answer, expired, held, outcome>> /\ Denied' = Denied
  BY DEF Transmits, Typed, StreamsTyped, pumps, logins, Denied
<1>3. conduit'[e] = conduit[e]
  BY TransmitsMoves
<1>4. /\ log'[e] \in Seq(Words) /\ Len(log'[e]) = l + 1 /\ l \in Nat
      /\ \A i \in 1..l : log'[e][i] = log[e][i]
      /\ log'[e][l + 1] = Word(e, l + 1)
      /\ job[e] = FrameOf(e, l + 1)
  BY TransmitsTheNext
<1>5. CoreOf(p, place[p], read[p], taken[p])'
  BY TransmitsReaches
<1> HIDE DEF n, r, t, p, l
<1>6. QueueInv(e, r, t)' /\ FlowInv(e, t)'
  BY <1>1, <1>2, <1>3, QueueStays, FlowStays DEF CoreOf, p
<1>7. LogInv(e)'
  <2>1. \A x, i : FrameOf(x, i)' = FrameOf(x, i)
    BY <1>2, FramesStay
  <2>2. \A x, i : (CipherOf(x, i)' <=> CipherOf(x, i))
    BY <1>2, SettingStays DEF CipherOf
  <2>3. \A x, i : Word(x, i)' = Word(x, i)
    BY <2>1, <2>2 DEF Word
  <2>4. \A i \in 1..l : log[e][i] = Word(e, i)
    BY <1>1 DEF CoreOf, LogInv, l
  <2>5. ASSUME NEW i \in 1..(l + 1) PROVE log'[e][i] = Word(e, i)'
    <3>1. i \in 1..l \/ i = l + 1
      BY <1>4
    <3> QED BY <1>4, <2>3, <2>4, <3>1
  <2>6. log'[e] # <<>>
    BY <1>4
  <2>7. job'[e] = FrameOf(e, Len(log[e]))'
    BY <1>2, <1>4, <2>1
  <2> QED BY <1>2, <1>4, <2>5, <2>6, <2>7 DEF LogInv
<1>8. StopInv(e)'
  BY <1>1, <1>2, StopStays DEF CoreOf
<1>9. CallInv(e)'
  <2>1. answer[e] = "taken" /\ (todo[e] = <<>> \/ Doing(e, "write"))
    BY <1>1, <1>2 DEF CoreOf, CallInv
  <2> QED BY <1>2, <2>1 DEF CallInv, Doing, Step
<1>10. PlaceInv(e, n, r)'
  <2>1. Good(Peer(e))' = Good(Peer(e))
    BY <1>1, <1>2, GoodStays DEF p
  <2>2. e = "server" /\ Refusing => Refusing'
    BY <1>2, RefusingStays
  <2> QED BY <1>1, <1>2, <2>1, <2>2, PlaceStays DEF CoreOf
<1>11. SentInv(e, n)'
  <2>1. Extra(e, n) = 0 /\ (WritesAt(e, n) \/ (e = "server" /\ Denied)) /\ answer[e] = "taken"
    BY <1>1, <1>2 DEF CoreOf, SentInv, CallInv
  <2>2. Extra(e, n)' = 1
    <3>1. Sent(e, n) \in Nat
      BY <1>1, PlacesAreNumbers DEF CoreOf, PlaceInv
    <3>2. l - Sent(e, n) = 0
      BY <2>1 DEF Extra, l
    <3>3. Extra(e, n)' = (l + 1) - Sent(e, n)
      BY <1>4, CourseStays DEF Extra
    <3> QED BY <1>4, <3>1, <3>2, <3>3
  <2>3. WritesAt(e, n)' <=> WritesAt(e, n)
    BY DEF WritesAt
  <2> QED BY <1>2, <2>1, <2>2, <2>3 DEF SentInv
<1>12. SessionInv(e, t)'
  <2>1. Said(e)' = Said(e)
    <3> DEFINE g == Good(e)  h == Good(e)'
    <3>1. IF e = "server" /\ Denied THEN g = 1 /\ h = 1 ELSE g = l /\ h = l + 1
      BY <1>2, <1>4 DEF Good, l
    <3>2. Said(e) = AtMost(l - 0, g) /\ Said(e)' = AtMost((l + 1) - 1, h)
      BY <1>2, <1>4 DEF Said, AtMost, l
    <3> HIDE DEF g, h
    <3>3. AtMost(l - 0, g) = AtMost((l + 1) - 1, h)
      BY <1>4, <3>1 DEF AtMost
    <3> QED BY <3>2, <3>3
  <2>2. Heard(e, t)' = Heard(e, t)
    BY <1>1, <1>2, HeardStays DEF p
  <2> QED BY <1>1, <1>2, <2>1, <2>2, SessionStays DEF CoreOf
<1>13. CipherInv(e, n)'
  BY <1>1, <1>2, <1>3, CipherStays DEF CoreOf
<1>14. HeldInv(place["client"], taken["server"])'
  <2>1. Online' <=> Online
    BY SettingStays
  <2>2. Begun("server")' = Begun("server")
    BY <1>2 DEF Begun
  <2>3. held => (Len(log["client"])' > 2 => expired["client"])
    <3>1. CASE e = "client"
      BY <1>1, <1>2, <3>1 DEF HeldInv
    <3>2. CASE e = "server"
      BY <1>1, <1>2, <3>2, TwoEnds DEF HeldInv
    <3> QED BY <3>1, <3>2 DEF Ends
  <2>4. coordinator'["server"] = "over" <=> coordinator["server"] = "over"
    <3>1. CASE e = "client"
      BY <1>2, <3>1, TwoEnds
    <3>2. CASE e = "server"
      BY <1>2, <3>2
    <3> QED BY <3>1, <3>2 DEF Ends
  <2> QED BY <1>1, <1>2, <2>1, <2>2, <2>3, <2>4 DEF HeldInv
<1>15. CoreOf(e, n, r, t)'
  BY <1>6, <1>7, <1>8, <1>9, <1>10, <1>11, <1>12, <1>13 DEF CoreOf
<1> QED BY <1>5, <1>14, <1>15, SameGhosts DEF n, r, t, p

(* A login function that goes on to the next step is at the next place of its course.     *)
LEMMA FinishedNext ==
  ASSUME NEW e \in Ends, NEW n, MayBe(e, n), n \notin Last(e)
  PROVE  Finished(e, NextPlace(e, n)) <=>
           Finished(e, n) \/ n \in IF e = "client" THEN {8, 11, 18} ELSE {14}
<1>1. CASE e = "client"
  <2>1. n \in 0..20 \ {9, 12, 20}
    BY <1>1 DEF MayBe, Places, Last
  <2>2. NextPlace(e, n) = ClientNext(n)
    BY <1>1 DEF NextPlace
  <2>3. ClientNext(n) \in {9, 12, 19, 20} <=> n \in {8, 11, 18, 19}
    <3>1. CASE n = 0
      BY <3>1 DEF ClientNext, AfterKeys
    <3>2. CASE n = 5
      BY <3>2 DEF ClientNext, AfterKeys
    <3>3. CASE n = 7
      BY <3>3 DEF ClientNext
    <3>4. CASE n = 10
      BY <3>4 DEF ClientNext
    <3>5. CASE n \notin {0, 5, 7, 10}
      <4>1. ClientNext(n) = n + 1
        BY <3>5 DEF ClientNext
      <4> QED BY <2>1, <3>5, <4>1
    <3> QED BY <3>1, <3>2, <3>3, <3>4, <3>5
  <2> QED BY <1>1, <2>1, <2>2, <2>3 DEF Finished
<1>2. CASE e = "server"
  <2>1. n \in 0..15
    BY <1>2 DEF MayBe, Places, Last
  <2>2. NextPlace(e, n) = ServerNext(n)
    BY <1>2 DEF NextPlace
  <2>3. ServerNext(n) \in {15, 16} <=> n \in {14, 15}
    <3>1. CASE n = 0
      BY <3>1 DEF ServerNext, AfterKeys
    <3>2. CASE n = 4
      BY <3>2 DEF ServerNext, AfterKeys
    <3>3. CASE n = 6
      BY <3>3 DEF ServerNext
    <3>4. CASE n = 7
      BY <3>4 DEF ServerNext
    <3>5. CASE n \notin {0, 4, 6, 7}
      <4>1. ServerNext(n) = n + 1
        BY <3>5 DEF ServerNext
      <4> QED BY <2>1, <3>5, <4>1
    <3> QED BY <3>1, <3>2, <3>3, <3>4, <3>5
  <2> QED BY <1>2, <2>1, <2>2, <2>3 DEF Finished
<1> QED BY <1>1, <1>2 DEF Ends

LEMMA GoesOnKeeps ==
  ASSUME Typed, NEW place, NEW read, NEW taken, Ghosts(place, read, taken), Core(place, read, taken),
         NEW e \in Ends, NEW m, m = NextPlace(e, place[e]), NEW h, h = Had(e, m),
         UNCHANGED <<setting, conduit, reader, framed, coordinator, job, session, stopping, cause, log,
                     expired, held>>,
         \A x \in Ends : x # e => /\ todo'[x] = todo[x] /\ answer'[x] = answer[x]
                                  /\ outcome'[x] = outcome[x] /\ queue'[x] = queue[x],
         ~Failed(e), place[e] \notin Last(e), todo[e] # <<>>, answer[e] \in {"none", "ok"},
         answer[e] = "ok" <=> StepAt(e, place[e])[1] \in {"write", "control", "snapshot"},
         todo'[e] = Rest(e, m), answer'[e] = "none",
         outcome'[e] = IF StepAt(e, place[e])[1] = "return" THEN "ok" ELSE outcome[e],
         QueueInv(e, h, taken[e])', h <= Good(Peer(e))
  PROVE  Kept'
<1> DEFINE n == place[e]  r == read[e]  t == taken[e]  p == Peer(e)
<1>1. /\ CoreOf(e, n, r, t) /\ CoreOf(p, place[p], read[p], taken[p]) /\ p \in Ends /\ p # e
      /\ HeldInv(place["client"], taken["server"]) /\ n \in Nat /\ t \in Nat
  BY Here
<1>2. MayBe(e, n) /\ n \notin Last(e) /\ todo[e] = Rest(e, n) /\ Step(e) = StepAt(e, n) /\ outcome[e] \in {"none", "ok"}
  BY <1>1, Ahead DEF CoreOf, PlaceInv
<1>3. /\ MayBe(e, m) /\ m > n /\ m \in Nat /\ h \in Nat
      /\ Sent(e, m) = Sent(e, n) + (IF WritesAt(e, n) THEN 1 ELSE 0)
      /\ Online => (m > 3 <=> n >= 3)
      /\ Online /\ e = "client" => (m > 5 <=> n >= 5)
  BY <1>2, Onward, PlacesAreNumbers
<1>4. /\ (StepAt(e, n)[1] = "write" <=> WritesAt(e, n))
      /\ (StepAt(e, n)[1] = "control" <=> n = 3 \/ (e = "client" /\ n = 5))
      /\ (StepAt(e, n)[1] = "return" <=> n \in IF e = "client" THEN {8, 11, 18} ELSE {14})
  BY <1>2, KindsOfSteps
<1>5. Finished(e, m) <=> Finished(e, n) \/ StepAt(e, n)[1] = "return"
  BY <1>2, <1>4, FinishedNext
<1>6. Denied' <=> Denied
  BY <1>1, <1>2, TwoEnds DEF Denied
<1>7. CoreOf(p, place[p], read[p], taken[p])'
  <2>1. Untouched(p)
    BY <1>1 DEF Untouched
  <2> QED BY <1>1, <1>6, <2>1, UntouchedStays
<1> HIDE DEF n, r, t, p
<1>8. coordinator[e] \notin {"writing", "written"}
  BY <1>1 DEF CoreOf, CallInv
<1>9. Extra(e, n) = IF WritesAt(e, n) THEN 1 ELSE 0
  <2>1. Doing(e, "write") <=> WritesAt(e, n)
    BY <1>2, <1>4 DEF Doing
  <2>2. answer[e] = "ok" => (Extra(e, n) = 1 <=> Doing(e, "write"))
    BY <1>1 DEF CoreOf, SentInv
  <2>3. answer[e] = "none" => Extra(e, n) = 0 /\ ~WritesAt(e, n)
    BY <1>1, <1>4 DEF CoreOf, SentInv, n
  <2>4. Extra(e, n) \in {0, 1}
    BY <1>1 DEF CoreOf, SentInv
  <2> QED BY <2>1, <2>2, <2>3, <2>4
<1>10. QueueInv(e, h, t)'
  BY DEF t
<1>11. FlowInv(e, t)' /\ LogInv(e)'
  BY <1>1, <1>6, FlowStays, LogStays DEF CoreOf
<1>12. StopInv(e)' /\ CallInv(e)'
  <2>1. StopInv(e) /\ CallInv(e)
    BY <1>1 DEF CoreOf
  <2> QED BY <1>8, <2>1 DEF StopInv, CallInv
<1>13. PlaceInv(e, m, h)'
  <2>1. MayBe(e, m)' = MayBe(e, m) /\ Had(e, m)' = Had(e, m) /\ Rest(e, m)' = Rest(e, m)
    BY CourseStays, RestStays
  <2>2. Finished(e, m)' <=> Finished(e, m)
    BY DEF Finished
  <2>3. outcome'[e] \in {"none", "ok"} /\ (outcome'[e] = "ok" <=> Finished(e, m))
    <3>1. outcome[e] = "ok" <=> Finished(e, n)
      BY <1>1, <1>2 DEF CoreOf, PlaceInv
    <3> QED BY <1>2, <1>5, <3>1 DEF n
  <2>4. Good(Peer(e))' = Good(Peer(e))
    BY <1>6, GoodStays, TwoEnds
  <2>5. e = "server" => ~Denied'
    BY <2>3 DEF Denied
  <2>6. todo'[e] = Rest(e, m) /\ h <= Good(Peer(e)) /\ h = Had(e, m)
    OBVIOUS
  <2>7. h = h + 0
    BY <1>3
  <2> QED BY <1>3, <2>1, <2>2, <2>3, <2>4, <2>5, <2>6, <2>7 DEF PlaceInv, Failed
<1>14. SentInv(e, m)'
  <2>1. Extra(e, m)' = 0
    <3>1. Sent(e, n) \in Nat /\ Len(log[e]) \in Nat
      BY <1>2, PlacesAreNumbers, LogsAreLong
    <3>2. Extra(e, m)' = Len(log[e]) - Sent(e, m) /\ Extra(e, n) = Len(log[e]) - Sent(e, n)
      BY CourseStays DEF Extra
    <3> DEFINE a == Len(log[e])  b == Sent(e, n)  c == Sent(e, m)  w == WritesAt(e, n)
    <3>3. a \in Nat /\ b \in Nat /\ c = b + (IF w THEN 1 ELSE 0) /\ a - b = (IF w THEN 1 ELSE 0)
      BY <1>3, <1>9, <3>1, <3>2
    <3> HIDE DEF a, b, c, w
    <3>4. a - c = 0
      BY <3>3
    <3> QED BY <3>2, <3>4 DEF a, c
  <2> QED BY <1>8, <2>1 DEF SentInv
<1>15. SessionInv(e, t)'
  BY <1>1, <1>6, SessionStays, SaidStays, HeardStays DEF CoreOf
<1>16. CipherInv(e, m)'
  <2>1. CipherInv(e, n) /\ (n = 3 \/ (e = "client" /\ n = 5) => answer[e] = "ok")
    BY <1>1, <1>4 DEF CoreOf, n
  <2>2. Online' <=> Online
    BY SettingStays
  <2>3. Switched(e, m, 3)' <=> Switched(e, n, 3)
    BY <1>1, <1>3, <2>1, <2>2 DEF Switched
  <2>4. e = "client" => (Switched(e, m, 5)' <=> Switched(e, n, 5))
    BY <1>1, <1>3, <2>1, <2>2 DEF Switched
  <2> QED BY <2>1, <2>3, <2>4 DEF CipherInv
<1>17. /\ e = "client" => HeldInv(m, taken["server"])'
       /\ e = "server" => HeldInv(place["client"], t)'
  <2>1. CASE e = "client"
    <3>1. HeldInv(n, taken["server"])
      BY <1>1, <2>1 DEF n
    <3>2. HeldInv(m, taken["server"])
      BY <1>1, <1>3, <3>1 DEF HeldInv
    <3> QED BY <2>1, <3>2, HeldStays
  <2>2. CASE e = "server"
    <3>1. HeldInv(place["client"], t)
      BY <1>1, <2>2 DEF t
    <3> QED BY <2>2, <3>1, HeldStays
  <2> QED BY <2>1, <2>2 DEF Ends
<1>18. CoreOf(e, m, h, t)'
  BY <1>10, <1>11, <1>12, <1>13, <1>14, <1>15, <1>16 DEF CoreOf
<1> QED BY <1>1, <1>3, <1>7, <1>17, <1>18, NewGhosts DEF p

(* A login function that stops stays where it is, whatever it still tells the client.      *)
LEMMA StopsHereKeeps ==
  ASSUME Typed, NEW place, NEW read, NEW taken, Ghosts(place, read, taken), Core(place, read, taken),
         NEW e \in Ends, NEW h \in Nat,
         UNCHANGED <<setting, conduit, reader, framed, coordinator, job, session, stopping, cause, log,
                     expired, held>>,
         \A x \in Ends : x # e => /\ todo'[x] = todo[x] /\ answer'[x] = answer[x]
                                  /\ outcome'[x] = outcome[x] /\ queue'[x] = queue[x],
         answer[e] \in {"none", "ok", "failed", "rejected", "expired"}, answer'[e] = "none",
         place[e] = 3 \/ (e = "client" /\ place[e] = 5) => answer[e] # "ok",
         outcome[e] # "none" => outcome'[e] = outcome[e],
         outcome[e] = "none" =>
           outcome'[e] \in {"ended", "expired", "disconnected"} \/ (e = "client" /\ outcome'[e] = "authentication"),
         outcome'[e] = "disconnected" => e = "client" /\ Denied,
         \/ todo'[e] = <<>>
         \/ /\ todo'[e] = Refusal /\ e = "server" /\ place[e] \in 1..4 /\ stopping[e] /\ outcome[e] = "none"
            /\ Extra(e, place[e]) = 0 /\ coordinator[e] \notin {"writing", "written"},
         h = Had(e, place[e]) + (IF outcome'[e] = "disconnected" THEN 1 ELSE 0),
         QueueInv(e, h, taken[e])'
  PROVE  Kept'
<1> DEFINE n == place[e]  r == read[e]  t == taken[e]  p == Peer(e)
<1>1. /\ CoreOf(e, n, r, t) /\ CoreOf(p, place[p], read[p], taken[p]) /\ p \in Ends /\ p # e
      /\ HeldInv(place["client"], taken["server"]) /\ n \in Nat /\ t \in Nat
  BY Here
<1>2. Denied' <=> Denied
  <2>1. CASE e = "client"
    BY <2>1, TwoEnds DEF Denied
  <2>2. CASE e = "server"
    BY <2>2 DEF Denied
  <2> QED BY <2>1, <2>2 DEF Ends
<1>3. CoreOf(p, place[p], read[p], taken[p])'
  <2>1. Untouched(p)
    BY <1>1 DEF Untouched
  <2> QED BY <1>1, <1>2, <2>1, UntouchedStays
<1> HIDE DEF n, r, t, p
<1>4. QueueInv(e, h, t)' /\ FlowInv(e, t)' /\ LogInv(e)'
  BY <1>1, <1>2, FlowStays, LogStays DEF CoreOf, t
<1>5. StopInv(e)'
  BY <1>1 DEF CoreOf, StopInv
<1>6. CallInv(e)'
  BY <1>1 DEF CoreOf, CallInv
<1>7. PlaceInv(e, n, h)'
  <2>1. MayBe(e, n)' = MayBe(e, n) /\ Had(e, n)' = Had(e, n) /\ Rest(e, n)' = Rest(e, n)
    BY CourseStays, RestStays
  <2>2. (Finished(e, n)' <=> Finished(e, n)) /\ (Failed(e)' <=> outcome'[e] \notin {"none", "ok"})
    BY DEF Finished, Failed
  <2>3. Good(Peer(e))' = Good(Peer(e))
    BY <1>2, GoodStays, TwoEnds
  <2>4. PlaceInv(e, n, r)
    BY <1>1 DEF CoreOf
  <2>5. todo'[e] = Refusal => e = "server" /\ n \in 1..4 /\ stopping'["server"] /\ answer'["server"] = "none"
    <3>1. Refusal # <<>>
      BY OneLast DEF Refusal
    <3> QED BY <3>1 DEF n
  <2>6. outcome'[e] # "none" /\ (outcome'[e] = "ok" => outcome[e] = "ok" /\ todo'[e] = <<>>)
    BY DEF n
  <2>7. e = "server" /\ Denied' => n = 4
    BY <1>2, <2>4 DEF PlaceInv
  <2>8. h = Had(e, n) + (IF outcome'[e] = "disconnected" THEN 1 ELSE 0)
    BY DEF n
  <2>9. MayBe(e, n) /\ Had(e, n) <= Good(Peer(e))
    BY <2>4 DEF PlaceInv
  <2>10. outcome'[e] \in {"ok", "ended", "expired", "authentication", "disconnected"}
    BY <2>4 DEF PlaceInv
  <2>11. outcome'[e] = "ok" => Finished(e, n)
    BY <2>4, <2>6 DEF PlaceInv
  <2>12. outcome'[e] # "ok" => ~Finished(e, n)
    <3>1. outcome'[e] # "ok" => outcome[e] # "ok"
      OBVIOUS
    <3> QED BY <2>4, <3>1 DEF PlaceInv, Failed
  <2>13. outcome'[e] # "ok" => todo'[e] = <<>> \/ (e = "server" /\ Refusing' /\ n \in 1..4)
    BY <2>5 DEF Refusing
  <2> QED BY <1>2, <2>1, <2>2, <2>3, <2>6, <2>7, <2>8, <2>9, <2>10, <2>11, <2>12, <2>13 DEF PlaceInv
<1>8. SentInv(e, n)'
  <2>1. Extra(e, n)' = Extra(e, n)
    BY CourseStays DEF Extra
  <2>2. WritesAt(e, n)' <=> WritesAt(e, n)
    BY DEF WritesAt
  <2>3. todo'[e] # <<>> => Extra(e, n) = 0
    BY DEF n
  <2> QED BY <1>1, <1>2, <2>1, <2>2, <2>3 DEF CoreOf, SentInv
<1>9. SessionInv(e, t)'
  BY <1>1, <1>2, SessionStays, SaidStays, HeardStays DEF CoreOf
<1>10. CipherInv(e, n)'
  <2>1. /\ Switched(e, n, 3)' <=> Switched(e, n, 3)
        /\ e = "client" => (Switched(e, n, 5)' <=> Switched(e, n, 5))
    BY SettingStays DEF Switched, n
  <2> QED BY <1>1, <2>1 DEF CoreOf, CipherInv
<1>11. HeldInv(place["client"], taken["server"])'
  BY <1>1, HeldStays
<1>12. CoreOf(e, n, h, t)'
  BY <1>4, <1>5, <1>6, <1>7, <1>8, <1>9, <1>10 DEF CoreOf
<1>13. /\ e = "client" => HeldInv(n, taken["server"])'
       /\ e = "server" => HeldInv(place["client"], t)'
  BY <1>11 DEF n, t
<1> QED BY <1>1, <1>3, <1>12, <1>13, NewGhosts DEF p

LEMMA CallSucceedsKeeps ==
  ASSUME Typed, NEW place, NEW read, NEW taken, Ghosts(place, read, taken), Core(place, read, taken),
         NEW e \in Ends, CallReturns(e), answer[e] = "ok", UNCHANGED setting
  PROVE  Kept'
<1> DEFINE n == place[e]  r == read[e]  t == taken[e]  p == Peer(e)
<1>1. CoreOf(e, n, r, t) /\ p \in Ends /\ p # e /\ n \in Nat /\ r \in Nat /\ t \in Nat
  BY Here
<1>2. /\ todo' = [todo EXCEPT ![e] = Tail(todo[e])] /\ answer' = [answer EXCEPT ![e] = "none"]
      /\ UNCHANGED <<outcome, held, expired, conduit, reader, framed, coordinator, job, session, queue,
                     stopping, cause, log>>
  BY DEF CallReturns, Answer, Goes, streams, pumps
<1>3. /\ \A x \in Ends : x # e => todo'[x] = todo[x] /\ answer'[x] = answer[x]
      /\ todo'[e] = Tail(todo[e]) /\ answer'[e] = "none"
  BY <1>2 DEF Typed, LoginsTyped
<1>4. todo[e] # <<>> /\ Step(e)[1] \in {"write", "control", "snapshot"}
  BY DEF Typed, LoginsTyped, Calling
<1>5. QueueInv(e, r, t)'
  BY <1>1, <1>2, QueueStays DEF CoreOf
<1>6. PlaceInv(e, n, r)
  BY <1>1 DEF CoreOf
<1>7. CASE Failed(e)
  <2>1. e = "server" /\ Refusing /\ Tail(todo[e]) = <<>>
    BY <1>4, <1>6, <1>7, Ahead DEF Failed
  <2>2. Denied /\ n = 4
    BY <1>6, <2>1 DEF Refusing, PlaceInv
  <2>3. outcome[e] # "none" /\ outcome[e] # "disconnected"
    BY <1>6, <1>7, <2>1 DEF Failed, PlaceInv
  <2>4. r = Had(e, n) + (IF outcome'[e] = "disconnected" THEN 1 ELSE 0)
    BY <1>2, <1>6, <2>3 DEF PlaceInv
  <2>5. n # 3 /\ e # "client"
    BY <2>1, <2>2
  <2>6. UNCHANGED <<setting, conduit, reader, framed, coordinator, job, session, stopping, cause, log,
                    expired, held>>
    BY <1>2
  <2>7. \A x \in Ends : x # e => /\ todo'[x] = todo[x] /\ answer'[x] = answer[x]
                                 /\ outcome'[x] = outcome[x] /\ queue'[x] = queue[x]
    BY <1>2, <1>3
  <2>8. outcome'[e] = outcome[e] /\ todo'[e] = <<>> /\ answer'[e] = "none"
    BY <1>2, <1>3, <2>1
  <2>9. outcome'[e] = "disconnected" => e = "client" /\ Denied
    BY <2>3, <2>8
  <2> HIDE DEF n, r, t
  <2>10. r \in Nat /\ r = Had(e, place[e]) + (IF outcome'[e] = "disconnected" THEN 1 ELSE 0)
         /\ QueueInv(e, r, taken[e])' /\ place[e] # 3 /\ e # "client"
    BY <1>1, <1>5, <2>4, <2>5 DEF n, t
  <2> QED BY <2>3, <2>6, <2>7, <2>8, <2>9, <2>10, StopsHereKeeps
<1>8. CASE ~Failed(e)
  <2>1. /\ n \notin Last(e) /\ Step(e) = StepAt(e, n) /\ MayBe(e, n)
        /\ ~(e = "client" /\ ReadsAt(e, n)) => Tail(todo[e]) = Rest(e, NextPlace(e, n))
    BY <1>4, <1>6, <1>8, Ahead DEF PlaceInv
  <2>2. ~ReadsAt(e, n) /\ StepAt(e, n)[1] # "return"
    BY <1>4, <2>1, KindsOfSteps
  <2>3. PICK m : m = NextPlace(e, n)
    OBVIOUS
  <2>4. Had(e, m) = r /\ r <= Good(Peer(e))
    <3>1. Had(e, m) = Had(e, n) + 0
      BY <2>1, <2>2, <2>3, Onward
    <3>2. outcome[e] # "disconnected"
      BY <1>8 DEF Failed
    <3>3. Had(e, n) \in Nat /\ r = Had(e, n) + 0 /\ Had(e, n) <= Good(Peer(e))
      BY <1>6, <2>1, <3>2, PlacesAreNumbers DEF PlaceInv
    <3> QED BY <3>1, <3>3
  <2>5. todo'[e] = Rest(e, m)
    BY <1>3, <2>1, <2>2, <2>3
  <2>6. answer[e] = "ok" <=> StepAt(e, n)[1] \in {"write", "control", "snapshot"}
    BY <1>4, <2>1
  <2>7. UNCHANGED <<setting, conduit, reader, framed, coordinator, job, session, stopping, cause, log,
                    expired, held>>
    BY <1>2
  <2>8. \A x \in Ends : x # e => /\ todo'[x] = todo[x] /\ answer'[x] = answer[x]
                                 /\ outcome'[x] = outcome[x] /\ queue'[x] = queue[x]
    BY <1>2, <1>3
  <2>9. outcome'[e] = IF StepAt(e, place[e])[1] = "return" THEN "ok" ELSE outcome[e]
    BY <1>2, <2>2
  <2>10. place[e] \notin Last(e) /\ m = NextPlace(e, place[e])
         /\ (answer[e] = "ok" <=> StepAt(e, place[e])[1] \in {"write", "control", "snapshot"})
    BY <2>1, <2>3, <2>6
  <2> HIDE DEF n, r, t
  <2>11. r = Had(e, m) /\ QueueInv(e, r, taken[e])' /\ r <= Good(Peer(e))
    BY <1>5, <2>4 DEF t
  <2> QED BY <1>3, <1>4, <1>8, <2>5, <2>7, <2>8, <2>9, <2>10, <2>11, GoesOnKeeps
<1> QED BY <1>7, <1>8

(* What the acceptor answers with a refusal is at the places of its key exchange.          *)
LEMMA KeyExchangeSteps ==
  ASSUME NEW e \in Ends, InKeyExchange(e)
  PROVE  e = "server" /\ Step(e) \in {Write("encryption_request"), Read("encryption_response"), Control("both"), Verify}
<1> DEFINE a == Write("encryption_request")  b == Read("encryption_response")  c == Control("both")
<1>1. e = "server" /\ \E k \in 1..Len(AcceptorKeys) : AcceptorKeys[k] = Step(e)
  BY DEF InKeyExchange
<1>2. AcceptorKeys = <<a, b, c, Verify>>
  BY DEF AcceptorKeys
<1> HIDE DEF a, b, c
<1>3. Len(AcceptorKeys) = 4 /\ AcceptorKeys[1] = a /\ AcceptorKeys[2] = b /\ AcceptorKeys[3] = c /\ AcceptorKeys[4] = Verify
  BY <1>2
<1>4. \A k \in 1..4 : AcceptorKeys[k] \in {a, b, c, Verify}
  <2>1. SUFFICES ASSUME NEW k \in 1..4 PROVE AcceptorKeys[k] \in {a, b, c, Verify}
    OBVIOUS
  <2>2. k = 1 \/ k = 2 \/ k = 3 \/ k = 4
    OBVIOUS
  <2> QED BY <1>3, <2>2
<1>5. Step(e) \in {a, b, c, Verify}
  <2>1. PICK k \in 1..Len(AcceptorKeys) : AcceptorKeys[k] = Step(e)
    BY <1>1
  <2>2. k \in 1..4
    BY <1>3, <2>1
  <2> QED BY <1>4, <2>1, <2>2
<1> QED BY <1>1, <1>5 DEF a, b, c

LEMMA KeyExchangePlaces ==
  ASSUME NEW e \in Ends, NEW n, NEW r, PlaceInv(e, n, r), todo[e] # <<>>, InKeyExchange(e)
  PROVE  e = "server" /\ n \in 1..4 /\ outcome[e] = "none"
<1>1. e = "server" /\ Step(e) \in {Write("encryption_request"), Read("encryption_response"), Control("both"), Verify}
  BY KeyExchangeSteps
<1>2. Step(e) # Write("disconnect")
  BY <1>1 DEF Write, Read, Control, Verify
<1>3. outcome[e] \in {"none", "ok"} /\ n \notin Last(e) /\ Step(e) = StepAt(e, n) /\ MayBe(e, n)
  BY <1>2, Ahead DEF PlaceInv
<1>4. n \in 0..15 /\ Step(e) = ServerStep(n)
  BY <1>1, <1>3 DEF MayBe, Places, Last, StepAt
<1>5. n \in 1..4
  <2>1. SUFFICES ASSUME n \notin 1..4 PROVE FALSE
    OBVIOUS
  <2>2. ServerStep(n) \in {Read("login_start"), Write("set_compression"), Write("login_success"),
                           Read("login_acknowledged"), Write("known_packs"), Read("known_packs"),
                           Write("registry_data"), Write("configuration_finished"),
                           Read("configuration_finished"), Snapshot, Return, Write("game")}
    BY <1>4, <2>1 DEF ServerStep
  <2> QED BY <1>1, <1>4, <2>2 DEF Write, Read, Control, Verify, Snapshot, Return
<1>6. ~Finished(e, n)
  BY <1>1, <1>5 DEF Finished
<1> QED BY <1>1, <1>3, <1>5, <1>6 DEF PlaceInv

LEMMA CallFailsKeeps ==
  ASSUME Typed, NEW place, NEW read, NEW taken, Ghosts(place, read, taken), Core(place, read, taken),
         NEW e \in Ends, CallReturns(e), answer[e] # "ok", ~OutboundSwitchLost(e), UNCHANGED setting
  PROVE  Astray' \/ Kept'
<1> DEFINE n == place[e]  r == read[e]  t == taken[e]  p == Peer(e)
<1>1. CoreOf(e, n, r, t) /\ p \in Ends /\ p # e /\ n \in Nat /\ r \in Nat /\ t \in Nat
  BY Here
<1>2. /\ Fails(e, Reason(answer[e])) /\ answer' = [answer EXCEPT ![e] = "none"]
      /\ UNCHANGED <<held, expired, conduit, reader, framed, coordinator, job, session, queue,
                     stopping, cause, log>>
  BY DEF CallReturns, Answer, streams, pumps
<1>3. answer[e] \in {"failed", "rejected", "expired"}
  BY <1>1 DEF CallReturns, CoreOf, CallInv
<1>4. Reason(answer[e]) = IF answer[e] = "expired" THEN "expired" ELSE "ended"
  BY <1>3 DEF Reason
<1>5. /\ \A x \in Ends : x # e => todo'[x] = todo[x] /\ answer'[x] = answer[x] /\ outcome'[x] = outcome[x]
      /\ todo'[e] = (IF InKeyExchange(e) THEN Refusal ELSE <<>>) /\ answer'[e] = "none"
      /\ outcome'[e] = (IF outcome[e] = "none" THEN Reason(answer[e]) ELSE outcome[e])
  BY <1>2 DEF Fails, Typed, LoginsTyped
<1>6. todo[e] # <<>>
  BY <1>3 DEF Typed, LoginsTyped, Calling
<1>7. /\ PlaceInv(e, n, r) /\ (answer[e] = "expired" => expired[e])
      /\ (answer[e] \in {"failed", "rejected"} => stopping[e] /\ Extra(e, n) = 0)
      /\ (answer[e] \in {"failed", "rejected"} => coordinator[e] \notin {"writing", "written"})
  BY <1>1, <1>6 DEF CoreOf, StopInv, SentInv, CallInv
<1>8. InKeyExchange(e) => e = "server" /\ n \in 1..4 /\ outcome[e] = "none"
  BY <1>6, <1>7, KeyExchangePlaces
<1>9. CASE e = "server" /\ answer[e] = "expired" /\ outcome[e] # "ok"
  <2>1. expired'["server"]
    BY <1>2, <1>7, <1>9
  <2>2. outcome'["server"] \notin {"none", "ok"}
    BY <1>4, <1>5, <1>9
  <2> QED BY <2>1, <2>2 DEF Astray, Failed
<1>10. CASE ~(e = "server" /\ answer[e] = "expired" /\ outcome[e] # "ok")
  <2>1. QueueInv(e, r, t)'
    BY <1>1, <1>2, QueueStays DEF CoreOf
  <2>2. UNCHANGED <<setting, conduit, reader, framed, coordinator, job, session, stopping, cause, log,
                    expired, held>>
    BY <1>2
  <2>3. \A x \in Ends : x # e => /\ todo'[x] = todo[x] /\ answer'[x] = answer[x]
                                 /\ outcome'[x] = outcome[x] /\ queue'[x] = queue[x]
    BY <1>2, <1>5
  <2>4. /\ outcome[e] # "none" => outcome'[e] = outcome[e]
        /\ outcome[e] = "none" => outcome'[e] \in {"ended", "expired", "disconnected"}
        /\ outcome'[e] = "disconnected" <=> outcome[e] = "disconnected"
    BY <1>4, <1>5
  <2>5. /\ outcome'[e] = "disconnected" => e = "client" /\ Denied
        /\ r = Had(e, n) + (IF outcome'[e] = "disconnected" THEN 1 ELSE 0)
    BY <1>7, <2>4 DEF PlaceInv
  <2>6. \/ todo'[e] = <<>>
        \/ /\ todo'[e] = Refusal /\ e = "server" /\ n \in 1..4 /\ stopping[e] /\ outcome[e] = "none"
           /\ Extra(e, n) = 0 /\ coordinator[e] \notin {"writing", "written"}
    <3>1. InKeyExchange(e) => answer[e] \in {"failed", "rejected"}
      BY <1>3, <1>8, <1>10
    <3> QED BY <1>5, <1>7, <1>8, <3>1
  <2>7. answer[e] \in {"none", "ok", "failed", "rejected", "expired"} /\ answer'[e] = "none" /\ answer[e] # "ok"
    BY <1>3, <1>5
  <2> HIDE DEF n, r, t
  <2>8. /\ outcome'[e] = "disconnected" => e = "client" /\ Denied
        /\ r = Had(e, place[e]) + (IF outcome'[e] = "disconnected" THEN 1 ELSE 0)
        /\ r \in Nat /\ QueueInv(e, r, taken[e])'
    BY <1>1, <2>1, <2>5 DEF n, t
  <2>9. \/ todo'[e] = <<>>
        \/ /\ todo'[e] = Refusal /\ e = "server" /\ place[e] \in 1..4 /\ stopping[e] /\ outcome[e] = "none"
           /\ Extra(e, place[e]) = 0 /\ coordinator[e] \notin {"writing", "written"}
    BY <2>6 DEF n
  <2>10. Kept'
    BY <2>2, <2>3, <2>4, <2>7, <2>8, <2>9, StopsHereKeeps
  <2> QED BY <2>10
<1> QED BY <1>9, <1>10

(* A client whose outbound switch is refused goes on without it: it has written no more     *)
(* than the two frames in the clear, and writes no other while its context lasts.        *)
LEMMA SwitchLostKeeps ==
  ASSUME Typed, NEW place, NEW read, NEW taken, Ghosts(place, read, taken), Core(place, read, taken),
         NEW e \in Ends, CallReturns(e), answer[e] # "ok", OutboundSwitchLost(e), UNCHANGED setting
  PROVE  Kept'
<1> DEFINE n == place[e]  r == read[e]  t == taken[e]  p == Peer(e)  s == taken[p]  l == Len(log[e])
<1>1. /\ CoreOf(e, n, r, t) /\ CoreOf(p, place[p], read[p], s) /\ p \in Ends /\ p # e
      /\ n \in Nat /\ r \in Nat /\ t \in Nat /\ s \in Nat
  BY Here
<1>2. e = "client" /\ p = "server" /\ Step(e) = Control("outbound")
  BY TwoEnds DEF OutboundSwitchLost
<1>3. /\ todo' = [todo EXCEPT ![e] = Tail(todo[e])] /\ answer' = [answer EXCEPT ![e] = "none"] /\ held'
      /\ UNCHANGED <<outcome, expired, conduit, reader, framed, coordinator, job, session, queue,
                     stopping, cause, log>> /\ Denied' = Denied
  BY DEF CallReturns, Answer, Goes, streams, pumps, Denied
<1>4. /\ \A x \in Ends : x # e => todo'[x] = todo[x] /\ answer'[x] = answer[x]
      /\ todo'[e] = Tail(todo[e]) /\ answer'[e] = "none"
  BY <1>3 DEF Typed, LoginsTyped
<1>5. answer[e] \in {"failed", "rejected", "expired"}
  BY <1>1 DEF CallReturns, CoreOf, CallInv
<1>6. todo[e] # <<>> /\ Step(e)[1] = "control" /\ Step(e) # Control("inbound")
  BY <1>2, <1>5 DEF Typed, LoginsTyped, Calling, Control
<1>7. PlaceInv(e, n, r)
  BY <1>1 DEF CoreOf
<1>8. /\ outcome[e] \in {"none", "ok"} /\ n \notin Last(e) /\ todo[e] = Rest(e, n) /\ Step(e) = StepAt(e, n)
      /\ ~(e = "client" /\ ReadsAt(e, n)) => Tail(todo[e]) = Rest(e, NextPlace(e, n))
  <2>1. e # "server"
    BY <1>2
  <2> QED BY <1>6, <1>7, <2>1, Ahead
<1>9. MayBe(e, n)
  BY <1>7 DEF PlaceInv
<1>10. n = 5 /\ Online
  <2>1. n = 3 \/ n = 5
    BY <1>2, <1>6, <1>8, <1>9, KindsOfSteps
  <2>2. n # 3
    BY <1>2, <1>6, <1>8 DEF StepAt, ClientStep
  <2> QED BY <1>2, <1>9, <2>1, <2>2 DEF MayBe, ClientMayBe
<1>11. Sent(e, n) = 2 /\ l = 2 /\ ~WritesAt(e, n) /\ ~ReadsAt(e, n) /\ ~Finished(e, n) /\ outcome[e] = "none"
  <2>1. MayBe("client", n)
    BY <1>2, <1>9
  <2>2. Sent("client", n) = 2
    BY <1>10, <2>1, ClientProfile
  <2>3. ~WritesAt(e, n) /\ ~ReadsAt(e, n) /\ ~Finished(e, n)
    BY <1>2, <1>10 DEF WritesAt, ReadsAt, Finished
  <2>4. Extra(e, n) = 0
    BY <1>1, <1>2, <2>3 DEF CoreOf, SentInv
  <2>5. l \in Nat /\ l - Sent(e, n) = 0
    BY <2>4, LogsAreLong DEF Extra
  <2>6. l = 2
    <3> DEFINE q == Sent(e, n)
    <3>1. q = 2
      BY <1>2, <2>2, Zenon
    <3> HIDE DEF q, l
    <3>2. l \in Nat /\ l - q = 0
      BY <2>5 DEF q
    <3> QED BY <3>1, <3>2
  <2>7. outcome[e] # "ok"
    BY <1>7, <2>3, Zenon DEF PlaceInv
  <2>8. outcome[e] = "none"
    BY <1>8, <2>7
  <2>9. Sent(e, n) = 2
    BY <1>2, <2>2, Zenon
  <2> QED BY <2>3, <2>6, <2>8, <2>9
<1>12. PICK m : m = NextPlace(e, n)
  OBVIOUS
<1>13. /\ m \in Nat /\ MayBe(e, m) /\ m > 5 /\ Sent(e, m) = 2 /\ Had(e, m) = Had(e, n) /\ ~Finished(e, m)
       /\ todo'[e] = Rest(e, m)
  <2>1. MayBe(e, m) /\ m > n /\ Sent(e, m) = Sent(e, n) + 0 /\ Had(e, m) = Had(e, n) + 0 /\ m \in Nat /\ Had(e, n) \in Nat
    BY <1>8, <1>9, <1>11, <1>12, Onward, PlacesAreNumbers
  <2>2. ~Finished(e, m)
    BY <1>8, <1>9, <1>10, <1>11, <1>12, FinishedNext
  <2> QED BY <1>4, <1>8, <1>10, <1>11, <1>12, <2>1, <2>2
<1> HIDE DEF n, r, t, p, s, l
<1>14. coordinator[e] \notin {"writing", "written"} /\ (stopping[e] \/ expired[e])
  <2>1. ~Doing(e, "write")
    BY <1>6 DEF Doing
  <2> QED BY <1>1, <1>5, <1>6, <2>1 DEF CoreOf, CallInv, StopInv
<1>15. \A x \in Ends : \A i : x = "server" \/ i \in 1..2 => Word(x, i)' = Word(x, i)
  <2>1. \A x, i : FrameOf(x, i)' = FrameOf(x, i)
    BY <1>3, FramesStay
  <2>2. ASSUME NEW x \in Ends, NEW i, x = "server" \/ i \in 1..2 PROVE CipherOf(x, i)' = CipherOf(x, i)
    BY <2>2, SettingStays DEF CipherOf, Ends
  <2> QED BY <2>1, <2>2 DEF Word
<1>16. CoreOf(p, place[p], read[p], s)'
  <2>1. QueueInv(p, read[p], s)' /\ FlowInv(p, s)'
    BY <1>1, <1>3, QueueStays, FlowStays DEF CoreOf
  <2>2. LogInv(p)'
    <3>1. \A x, i : FrameOf(x, i)' = FrameOf(x, i)
      BY <1>3, FramesStay
    <3> QED BY <1>1, <1>2, <1>3, <1>15, <3>1 DEF CoreOf, LogInv
  <2>3. StopInv(p)' /\ CallInv(p)'
    BY <1>1, <1>3, <1>4, StopStays, CallStays DEF CoreOf
  <2>4. PlaceInv(p, place[p], read[p])'
    <3>1. Good(Peer(p))' = Good(Peer(p))
      BY <1>1, <1>3, GoodStays, TwoEnds
    <3>2. Refusing => Refusing'
      BY <1>1, <1>2, <1>3, <1>4, RefusingStays
    <3> QED BY <1>1, <1>3, <1>4, <3>1, <3>2, PlaceStays DEF CoreOf
  <2>5. SentInv(p, place[p])'
    BY <1>1, <1>3, <1>4, SentStays DEF CoreOf
  <2>6. SessionInv(p, s)'
    BY <1>1, <1>3, SessionStays, SaidStays, HeardStays DEF CoreOf
  <2>7. CipherInv(p, place[p])'
    <3>1. \A at : Switched(p, place[p], at)' <=> Switched(p, place[p], at)
      BY <1>1, <1>4, SettingStays DEF Switched
    <3> QED BY <1>1, <1>2, <1>3, <3>1 DEF CoreOf, CipherInv
  <2> QED BY <2>1, <2>2, <2>3, <2>4, <2>5, <2>6, <2>7 DEF CoreOf
<1>17. QueueInv(e, r, t)' /\ FlowInv(e, t)'
  BY <1>1, <1>3, QueueStays, FlowStays DEF CoreOf
<1>18. LogInv(e)'
  <2>1. \A i \in 1..l : log[e][i] = Word(e, i)
    BY <1>1 DEF CoreOf, LogInv, l
  <2>2. \A i \in 1..l : log'[e][i] = Word(e, i)'
    BY <1>3, <1>11, <1>15, <2>1
  <2>3. Len(log'[e]) = l
    BY <1>3 DEF l
  <2> QED BY <1>3, <1>14, <2>2, <2>3 DEF LogInv
<1>19. StopInv(e)' /\ CallInv(e)'
  <2>1. StopInv(e) /\ CallInv(e)
    BY <1>1 DEF CoreOf
  <2> QED BY <1>3, <1>4, <1>14, <2>1 DEF StopInv, CallInv
<1>20. PlaceInv(e, m, r)'
  <2>1. MayBe(e, m)' = MayBe(e, m) /\ Had(e, m)' = Had(e, m) /\ Rest(e, m)' = Rest(e, m)
    BY CourseStays, RestStays
  <2>2. Finished(e, m)' <=> Finished(e, m)
    BY DEF Finished
  <2>3. Good(Peer(e))' = Good(Peer(e))
    BY <1>3, GoodStays, TwoEnds
  <2>4. r = Had(e, n) + 0 /\ Had(e, n) <= Good(Peer(e))
    BY <1>7, <1>11 DEF PlaceInv
  <2>5. outcome'[e] = "none" /\ e # "server"
    BY <1>2, <1>3, <1>11
  <2> QED BY <1>13, <2>1, <2>2, <2>3, <2>4, <2>5 DEF PlaceInv, Failed
<1>21. SentInv(e, m)'
  <2>1. Extra(e, m)' = 0
    <3>1. Extra(e, m)' = l - Sent(e, m)
      BY <1>3, CourseStays DEF Extra, l
    <3> QED BY <1>11, <1>13, <3>1
  <2> QED BY <1>3, <1>4, <1>14, <2>1 DEF SentInv
<1>22. SessionInv(e, t)'
  BY <1>1, <1>3, SessionStays, SaidStays, HeardStays DEF CoreOf
<1>23. CipherInv(e, m)'
  <2>1. Online' <=> Online
    BY SettingStays
  <2>2. CipherInv(e, n)
    BY <1>1 DEF CoreOf
  <2>3. (conduit[e].decrypt <=> Online) /\ ~conduit[e].encrypt
    BY <1>2, <1>5, <1>10, <2>2 DEF CipherInv, Switched
  <2>4. Switched(e, m, 3)' <=> Online
    BY <1>13, <2>1 DEF Switched
  <2> QED BY <1>2, <1>3, <2>3, <2>4 DEF CipherInv
<1>24. HeldInv(m, taken["server"])'
  <2>1. Online' <=> Online
    BY SettingStays
  <2>2. Begun("server")' = Begun("server")
    BY <1>3 DEF Begun
  <2>3. s <= 2
    <3>1. s <= Len(log[Peer(p)])
      BY <1>1 DEF CoreOf, QueueInv
    <3> QED BY <1>2, <1>11, <3>1, TwoEnds DEF l
  <2>4. coordinator["server"] # "over" /\ reader["server"] # "exited" => 2 * s + Begun("server") <= 4
    <3>1. SUFFICES ASSUME coordinator["server"] # "over", reader["server"] # "exited"
                   PROVE  2 * s + Begun("server") <= 4
      OBVIOUS
    <3> DEFINE f == Len(Flow("server"))  b == Begun("server")
    <3>2. FlowInv("server", s)
      BY <1>1, <1>2 DEF CoreOf
    <3>3. Len(log[Peer("server")]) = 2
      BY <1>2, <1>11, TwoEnds DEF l
    <3>4. f = 2 * 2 - (2 * s + b)
      BY <3>1, <3>2, <3>3 DEF FlowInv
    <3>5. conduit["server"] \in Conduits
      BY TwoEnds DEF Typed, StreamsTyped
    <3>6. FlowOf(conduit["server"]) \in Seq(UnitSet)
      BY <3>5, FlowsAre
    <3>7. Flow("server") = FlowOf(conduit["server"])
      BY DEF Flow, FlowOf
    <3>8. f \in Nat
      BY <3>6, <3>7
    <3>9. b \in 0..2
      BY DEF Begun
    <3> HIDE DEF f, b
    <3>10. 2 * s + b <= 4
      BY <1>1, <3>4, <3>8, <3>9
    <3> QED BY <3>10 DEF b
  <2>5. s = taken["server"] /\ Len(log["client"]) = 2
    BY <1>2, <1>11 DEF s, l
  <2> QED BY <1>2, <1>3, <1>10, <1>13, <1>14, <2>1, <2>2, <2>3, <2>4, <2>5 DEF HeldInv
<1>25. CoreOf(e, m, r, t)'
  BY <1>17, <1>18, <1>19, <1>20, <1>21, <1>22, <1>23 DEF CoreOf
<1>26. CoreOf(Peer(e), place[Peer(e)], read[Peer(e)], taken[Peer(e)])'
  BY <1>16 DEF p, s
<1>27. (e = "client" => HeldInv(m, taken["server"])') /\ (e = "server" => HeldInv(place["client"], t)')
  BY <1>2, <1>24
<1> QED BY <1>1, <1>13, <1>25, <1>26, <1>27, NewGhosts

LEMMA CallReturnsKeeps ==
  ASSUME Typed, NEW place, NEW read, NEW taken, Ghosts(place, read, taken), Core(place, read, taken),
         NEW e \in Ends, CallReturns(e), UNCHANGED setting
  PROVE  Astray' \/ Kept'
BY CallSucceedsKeeps, CallFailsKeeps, SwitchLostKeeps

(* A login function waits for the session service at one place of its course.           *)
LEMMA AtService ==
  ASSUME Typed, NEW e \in Ends, NEW n, NEW r, PlaceInv(e, n, r), Doing(e, "service")
  PROVE  /\ answer[e] = "none" /\ outcome[e] = "none" /\ todo[e] # <<>>
         /\ n \notin Last(e) /\ MayBe(e, n) /\ Step(e) = StepAt(e, n) /\ Step(e)[1] = "service"
         /\ n = IF e = "client" THEN 2 ELSE 4
         /\ ~ReadsAt(e, n) /\ ~WritesAt(e, n) /\ ~Finished(e, n)
         /\ Tail(todo[e]) = Rest(e, NextPlace(e, n))
<1>1. todo[e] # <<>> /\ Step(e)[1] = "service"
  BY DEF Doing
<1>2. ~Calling(e)
  BY <1>1 DEF Calling
<1>3. answer[e] = "none"
  BY <1>2 DEF Typed, LoginsTyped
<1>4. Step(e) # Write("disconnect")
  BY <1>1, Kinds
<1>5. /\ outcome[e] \in {"none", "ok"} /\ n \notin Last(e) /\ Step(e) = StepAt(e, n) /\ MayBe(e, n)
      /\ ~(e = "client" /\ ReadsAt(e, n)) => Tail(todo[e]) = Rest(e, NextPlace(e, n))
  BY <1>1, <1>4, Ahead DEF PlaceInv
<1>6. n = (IF e = "client" THEN 2 ELSE 4)
  BY <1>1, <1>5, KindsOfSteps
<1>7. ~ReadsAt(e, n) /\ ~WritesAt(e, n) /\ ~Finished(e, n)
  BY <1>6 DEF ReadsAt, WritesAt, Finished
<1>8. outcome[e] # "ok"
  BY <1>7, Zenon DEF PlaceInv
<1> QED BY <1>1, <1>3, <1>5, <1>6, <1>7, <1>8

LEMMA ServiceGoesKeeps ==
  ASSUME Typed, NEW place, NEW read, NEW taken, Ghosts(place, read, taken), Core(place, read, taken),
         NEW e \in Ends, Doing(e, "service"), Goes(e), UNCHANGED <<streams, answer, expired, held, setting>>
  PROVE  Kept'
<1> DEFINE n == place[e]  r == read[e]  t == taken[e]  p == Peer(e)
<1>1. CoreOf(e, n, r, t) /\ p \in Ends /\ p # e /\ n \in Nat /\ r \in Nat /\ t \in Nat
  BY Here
<1>2. /\ todo' = [todo EXCEPT ![e] = Tail(todo[e])]
      /\ UNCHANGED <<setting, outcome, answer, held, expired, conduit, reader, framed, coordinator, job,
                     session, queue, stopping, cause, log>>
  BY DEF Goes, streams, pumps
<1>3. (\A x \in Ends : x # e => todo'[x] = todo[x]) /\ todo'[e] = Tail(todo[e])
  BY <1>2 DEF Typed, LoginsTyped
<1>4. PlaceInv(e, n, r)
  BY <1>1 DEF CoreOf
<1>5. /\ answer[e] = "none" /\ outcome[e] = "none" /\ todo[e] # <<>>
      /\ n \notin Last(e) /\ MayBe(e, n) /\ Step(e) = StepAt(e, n) /\ Step(e)[1] = "service"
      /\ n = (IF e = "client" THEN 2 ELSE 4)
      /\ ~ReadsAt(e, n) /\ ~WritesAt(e, n) /\ ~Finished(e, n)
      /\ Tail(todo[e]) = Rest(e, NextPlace(e, n))
  BY <1>4, AtService
<1>6. PICK m : m = NextPlace(e, n)
  OBVIOUS
<1>7. Had(e, m) = r /\ r <= Good(Peer(e))
  <2>1. Had(e, m) = Had(e, n) + 0
    BY <1>5, <1>6, Onward
  <2>2. Had(e, n) \in Nat /\ r = Had(e, n) + 0 /\ Had(e, n) <= Good(Peer(e))
    BY <1>4, <1>5, PlacesAreNumbers DEF PlaceInv
  <2> QED BY <2>1, <2>2
<1>8. QueueInv(e, r, t)'
  BY <1>1, <1>2, QueueStays DEF CoreOf
<1>9. todo'[e] = Rest(e, m)
  BY <1>3, <1>5, <1>6
<1>10. UNCHANGED <<setting, conduit, reader, framed, coordinator, job, session, stopping, cause, log,
                   expired, held>>
  BY <1>2
<1>11. \A x \in Ends : x # e => /\ todo'[x] = todo[x] /\ answer'[x] = answer[x]
                                /\ outcome'[x] = outcome[x] /\ queue'[x] = queue[x]
  BY <1>2, <1>3
<1>12. /\ place[e] \notin Last(e) /\ m = NextPlace(e, place[e])
       /\ answer[e] = "ok" <=> StepAt(e, place[e])[1] \in {"write", "control", "snapshot"}
       /\ outcome'[e] = IF StepAt(e, place[e])[1] = "return" THEN "ok" ELSE outcome[e]
  BY <1>2, <1>5, <1>6
<1>13. ~Failed(e) /\ answer'[e] = "none" /\ answer[e] \in {"none", "ok"} /\ todo[e] # <<>>
  BY <1>2, <1>5 DEF Failed
<1> HIDE DEF n, r, t
<1>14. r = Had(e, m) /\ QueueInv(e, r, taken[e])' /\ r <= Good(Peer(e))
  BY <1>7, <1>8 DEF t
<1> QED BY <1>9, <1>10, <1>11, <1>12, <1>13, <1>14, GoesOnKeeps

(* A client whose service fails, or whose context ends, stops there.                    *)
LEMMA JoinFailsKeeps ==
  ASSUME Typed, NEW place, NEW read, NEW taken, Ghosts(place, read, taken), Core(place, read, taken),
         NEW e \in Ends, e = "client", Doing(e, "service"), NEW why \in {"authentication", "expired"},
         Fails(e, why), UNCHANGED <<streams, answer, expired, held, setting>>
  PROVE  Kept'
<1> DEFINE n == place[e]  r == read[e]  t == taken[e]  p == Peer(e)
<1>1. CoreOf(e, n, r, t) /\ p \in Ends /\ p # e /\ n \in Nat /\ r \in Nat /\ t \in Nat
  BY Here
<1>2. /\ todo' = [todo EXCEPT ![e] = <<>>] /\ outcome' = [outcome EXCEPT ![e] = IF @ = "none" THEN why ELSE @]
      /\ UNCHANGED <<setting, answer, held, expired, conduit, reader, framed, coordinator, job,
                     session, queue, stopping, cause, log>>
  BY DEF Fails, InKeyExchange, streams, pumps
<1>3. PlaceInv(e, n, r)
  BY <1>1 DEF CoreOf
<1>4. answer[e] = "none" /\ outcome[e] = "none" /\ n = 2
  BY <1>3, AtService
<1>5. /\ \A x \in Ends : x # e => todo'[x] = todo[x] /\ outcome'[x] = outcome[x]
      /\ todo'[e] = <<>> /\ outcome'[e] = why
  BY <1>2, <1>4 DEF Typed, LoginsTyped
<1>6. QueueInv(e, r, t)'
  BY <1>1, <1>2, QueueStays DEF CoreOf
<1>7. UNCHANGED <<setting, conduit, reader, framed, coordinator, job, session, stopping, cause, log,
                  expired, held>>
  BY <1>2
<1>8. \A x \in Ends : x # e => /\ todo'[x] = todo[x] /\ answer'[x] = answer[x]
                               /\ outcome'[x] = outcome[x] /\ queue'[x] = queue[x]
  BY <1>2, <1>5
<1>9. r = Had(e, n) + 0 /\ outcome'[e] # "disconnected"
  <2>1. outcome[e] # "disconnected" /\ outcome'[e] # "disconnected"
    BY <1>4, <1>5
  <2> QED BY <1>3, <2>1 DEF PlaceInv
<1>10. /\ answer[e] \in {"none", "ok", "failed", "rejected", "expired"} /\ answer'[e] = "none"
       /\ answer[e] # "ok"
       /\ outcome[e] # "none" => outcome'[e] = outcome[e]
       /\ outcome[e] = "none" =>
            outcome'[e] \in {"ended", "expired", "disconnected"} \/ (e = "client" /\ outcome'[e] = "authentication")
       /\ outcome'[e] = "disconnected" => e = "client" /\ Denied
  BY <1>2, <1>4, <1>5, <1>9
<1> HIDE DEF n, r, t
<1>11. r \in Nat /\ r = Had(e, place[e]) + (IF outcome'[e] = "disconnected" THEN 1 ELSE 0)
       /\ QueueInv(e, r, taken[e])'
  BY <1>1, <1>6, <1>9 DEF n, t
<1> QED BY <1>5, <1>7, <1>8, <1>10, <1>11, StopsHereKeeps

(* A server whose verifier says no has written one frame, so the disconnect it owes its  *)
(* client is the second; nothing that is on the wire changes.                          *)
LEMMA VerifyFailsKeeps ==
  ASSUME Typed, NEW place, NEW read, NEW taken, Ghosts(place, read, taken), Core(place, read, taken),
         NEW e \in Ends, e = "server", Doing(e, "service"), Fails(e, "authentication"),
         UNCHANGED <<streams, answer, expired, held, setting>>
  PROVE  Kept'
<1> DEFINE n == place[e]  r == read[e]  t == taken[e]  p == Peer(e)  l == Len(log[e])  c == "client"
<1>1. /\ CoreOf(e, n, r, t) /\ CoreOf(p, place[p], read[p], taken[p]) /\ p \in Ends /\ p # e
      /\ HeldInv(place["client"], taken["server"]) /\ n \in Nat /\ r \in Nat /\ t \in Nat
  BY Here
<1>2. p = "client" /\ Peer(p) = "server"
  BY <1>1, TwoEnds
<1>3. /\ todo' = [todo EXCEPT ![e] = IF InKeyExchange(e) THEN Refusal ELSE <<>>]
      /\ outcome' = [outcome EXCEPT ![e] = IF @ = "none" THEN "authentication" ELSE @]
      /\ UNCHANGED <<setting, answer, held, expired, conduit, reader, framed, coordinator, job,
                     session, queue, stopping, cause, log>>
  BY DEF Fails, streams, pumps
<1>4. PlaceInv(e, n, r)
  BY <1>1 DEF CoreOf
<1>5. /\ answer[e] = "none" /\ outcome[e] = "none" /\ todo[e] # <<>> /\ n = 4 /\ Step(e)[1] = "service"
      /\ MayBe(e, n) /\ ~WritesAt(e, n) /\ ~Finished(e, n)
  BY <1>4, AtService
<1>6. /\ \A x \in Ends : x # e => todo'[x] = todo[x] /\ outcome'[x] = outcome[x]
      /\ todo'[e] \in {Refusal, <<>>} /\ outcome'[e] = "authentication"
  BY <1>3, <1>5 DEF Typed, LoginsTyped
<1>7. ~Denied /\ Denied'
  BY <1>5, <1>6 DEF Denied
<1>8. Sent(e, n) = 1
  <2>1. Keyed = 1 /\ e = "server" /\ n = 4
    BY <1>5 DEF MayBe, ServerMayBe, Keyed
  <2>2. Past(4, 1, Keyed) = 1 /\ Past(4, 5, Shrinks) = 0 /\ Past(4, 6, 1) = 0 /\ Past(4, 8, Offers) = 0
        /\ Past(4, 10, GoesOn) = 0 /\ Past(4, 11, GoesOn) = 0 /\ Past(4, 15, 1) = 0
    BY <2>1 DEF Past
  <2> QED BY <2>1, <2>2 DEF Sent
<1>9. Extra(e, n) = 0 /\ l = 1
  <2>1. Extra(e, n) = 0
    BY <1>1, <1>5 DEF CoreOf, SentInv
  <2> DEFINE q == Sent(e, n)
  <2>2. l \in Nat /\ l - q = 0
    BY <2>1, LogsAreLong DEF Extra
  <2>3. q = 1
    BY <1>8
  <2> HIDE DEF q, l
  <2>4. l = 1
    BY <2>2, <2>3
  <2> QED BY <2>1, <2>4
<1>10. coordinator[e] \notin {"writing", "written"}
  <2>1. ~Doing(e, "write")
    BY <1>5 DEF Doing
  <2> QED BY <1>1, <1>5, <2>1 DEF CoreOf, CallInv
<1>11. Good("server")' = 1 /\ Good("server") = 1 /\ Good("client")' = Good("client")
  <2>1. l = Len(log["server"]) /\ Len(log["server"])' = Len(log["server"])
    BY <1>3
  <2>2. Good("server") = l /\ Good("server")' = 1
    BY <1>7, <2>1, Zenon DEF Good
  <2>3. Good("client")' = Good("client")
    BY <1>3, Zenon DEF Good
  <2> HIDE DEF l
  <2> QED BY <1>9, <2>2, <2>3
<1>12. \A x \in Ends : Said(x)' = Said(x) /\ (\A i : Heard(x, i)' = Heard(x, i))
  <2>1. \A x \in Ends : Good(x)' = Good(x) /\ Good(Peer(x))' = Good(Peer(x))
    BY <1>11, TwoEnds DEF Ends
  <2> QED BY <1>3, <2>1 DEF Said, Heard, AtMost
<1>13. \A x \in Ends : \A i : x = "client" \/ i = 1 => FrameOf(x, i)' = FrameOf(x, i) /\ Word(x, i)' = Word(x, i)
  <2>1. \A x \in Ends : \A i : x = "client" \/ i = 1 => FrameOf(x, i)' = FrameOf(x, i)
    BY <1>3, CourseStays, SettingStays DEF FrameOf
  <2>2. \A x, i : CipherOf(x, i)' = CipherOf(x, i)
    BY <1>3, CiphersStay
  <2> QED BY <2>1, <2>2 DEF Word
<1> HIDE DEF n, r, t, p, l
<1>14. CoreOf(p, place[p], read[p], taken[p])'
  <2>1. QueueInv(p, read[p], taken[p])' /\ FlowInv(p, taken[p])'
    BY <1>1, <1>3, QueueStays, FlowStays DEF CoreOf
  <2>2. LogInv(p)'
    BY <1>1, <1>2, <1>3, <1>13 DEF CoreOf, LogInv
  <2>3. StopInv(p)' /\ CallInv(p)'
    BY <1>1, <1>3, <1>6, StopStays, CallStays DEF CoreOf
  <2>4. PlaceInv(p, place[p], read[p])'
    <3>1. /\ MayBe(p, place[p])' = MayBe(p, place[p]) /\ Had(p, place[p])' = Had(p, place[p])
          /\ Rest(p, place[p])' = Rest(p, place[p])
      BY <1>3, CourseStays, RestStays
    <3>2. (Finished(p, place[p])' <=> Finished(p, place[p])) /\ (Failed(p)' <=> Failed(p))
      BY <1>1, <1>6 DEF Finished, Failed
    <3>3. Good(Peer(p))' = Good(Peer(p))
      BY <1>2, <1>11
    <3>4. PlaceInv(p, place[p], read[p]) /\ todo'[p] = todo[p] /\ outcome'[p] = outcome[p] /\ p # "server"
      BY <1>1, <1>2, <1>6 DEF CoreOf
    <3> QED BY <1>7, <3>1, <3>2, <3>3, <3>4 DEF PlaceInv
  <2>5. SentInv(p, place[p])'
    <3>1. Extra(p, place[p])' = Extra(p, place[p]) /\ (WritesAt(p, place[p])' <=> WritesAt(p, place[p]))
      BY <1>3, CourseStays DEF Extra, WritesAt
    <3>2. SentInv(p, place[p]) /\ todo'[p] = todo[p] /\ p # "server"
      BY <1>1, <1>2, <1>6 DEF CoreOf
    <3> QED BY <1>3, <3>1, <3>2 DEF SentInv, Doing, Step
  <2>6. SessionInv(p, taken[p])'
    BY <1>1, <1>3, <1>12, SessionStays DEF CoreOf
  <2>7. CipherInv(p, place[p])'
    BY <1>1, <1>3, CipherStays DEF CoreOf
  <2> QED BY <2>1, <2>2, <2>3, <2>4, <2>5, <2>6, <2>7 DEF CoreOf
<1>15. QueueInv(e, r, t)' /\ FlowInv(e, t)'
  BY <1>1, <1>3, QueueStays, FlowStays DEF CoreOf
<1>16. LogInv(e)'
  <2>1. \A i \in 1..l : log[e][i] = Word(e, i)
    BY <1>1 DEF CoreOf, LogInv, l
  <2>2. \A i \in 1..l : log'[e][i] = Word(e, i)'
    BY <1>3, <1>9, <1>13, <2>1
  <2>3. Len(log'[e]) = l
    BY <1>3 DEF l
  <2> QED BY <1>3, <1>10, <2>2, <2>3 DEF LogInv
<1>17. StopInv(e)' /\ CallInv(e)'
  <2>1. StopInv(e) /\ CallInv(e)
    BY <1>1 DEF CoreOf
  <2> QED BY <1>3, <1>5, <1>10, <2>1 DEF StopInv, CallInv
<1>18. PlaceInv(e, n, r)'
  <2>1. MayBe(e, n)' = MayBe(e, n) /\ Had(e, n)' = Had(e, n)
    BY <1>3, CourseStays
  <2>2. Finished(e, n)' <=> Finished(e, n)
    BY DEF Finished
  <2>3. Good(Peer(e))' = Good(Peer(e))
    BY <1>1, <1>2, <1>11 DEF p
  <2>4. r = Had(e, n) + 0 /\ Had(e, n) <= Good(Peer(e))
    <3>1. outcome[e] # "disconnected"
      BY <1>5
    <3> QED BY <1>4, <3>1 DEF PlaceInv
  <2>5. todo'[e] = <<>> \/ (e = "server" /\ Refusing' /\ n \in 1..4)
    BY <1>5, <1>6, <1>7 DEF Refusing
  <2> QED BY <1>5, <1>6, <2>1, <2>2, <2>3, <2>4, <2>5 DEF PlaceInv, Failed
<1>19. SentInv(e, n)'
  <2>1. Extra(e, n)' = 0
    BY <1>3, <1>9, CourseStays DEF Extra
  <2> QED BY <1>3, <1>5, <1>10, <2>1 DEF SentInv
<1>20. SessionInv(e, t)'
  BY <1>1, <1>3, <1>12, SessionStays DEF CoreOf
<1>21. CipherInv(e, n)'
  BY <1>1, <1>3, CipherStays DEF CoreOf
<1>22. HeldInv(place["client"], taken["server"])'
  BY <1>1, <1>3, HeldStays
<1>23. CoreOf(e, n, r, t)'
  BY <1>15, <1>16, <1>17, <1>18, <1>19, <1>20, <1>21 DEF CoreOf
<1>24. CoreOf(Peer(e), place[Peer(e)], read[Peer(e)], taken[Peer(e)])'
  BY <1>14 DEF p
<1> QED BY <1>22, <1>23, <1>24, SameGhosts DEF n, r, t

LEMMA ServiceReturnsKeeps ==
  ASSUME Typed, NEW place, NEW read, NEW taken, Ghosts(place, read, taken), Core(place, read, taken),
         NEW e \in Ends, ServiceReturns(e), UNCHANGED setting
  PROVE  Astray' \/ Kept'
<1>1. Doing(e, "service") /\ UNCHANGED <<streams, answer, expired, held, setting>>
  BY DEF ServiceReturns
<1>2. CASE Goes(e)
  BY <1>1, <1>2, ServiceGoesKeeps
<1>3. CASE Fails(e, "authentication")
  <2>1. CASE e = "client"
    BY <1>1, <1>3, <2>1, JoinFailsKeeps
  <2>2. CASE e = "server"
    BY <1>1, <1>3, <2>2, VerifyFailsKeeps
  <2> QED BY <2>1, <2>2 DEF Ends
<1>4. CASE expired[e] /\ Fails(e, "expired")
  <2>1. CASE e = "client"
    BY <1>1, <1>4, <2>1, JoinFailsKeeps
  <2>2. CASE e = "server"
    <3>1. PlaceInv(e, place[e], read[e])
      BY Here DEF CoreOf
    <3>2. outcome[e] = "none"
      BY <1>1, <3>1, AtService
    <3>3. outcome' = [outcome EXCEPT ![e] = IF @ = "none" THEN "expired" ELSE @]
      BY <1>4 DEF Fails
    <3>4. outcome'[e] = "expired"
      BY <3>2, <3>3 DEF Typed, LoginsTyped
    <3> QED BY <1>1, <1>4, <2>2, <3>4 DEF Astray, Failed
  <2> QED BY <2>1, <2>2 DEF Ends
<1> QED BY <1>2, <1>3, <1>4 DEF ServiceReturns

(* A login function reads at the places of its course where it awaits a packet.          *)
LEMMA AtRead ==
  ASSUME Typed, NEW e \in Ends, NEW n, NEW r, PlaceInv(e, n, r), Doing(e, "read")
  PROVE  /\ answer[e] = "none" /\ outcome[e] = "none" /\ todo[e] # <<>>
         /\ n \notin Last(e) /\ MayBe(e, n) /\ Step(e) = StepAt(e, n) /\ Step(e)[1] = "read"
         /\ ReadsAt(e, n) /\ ~WritesAt(e, n) /\ ~Finished(e, n)
         /\ e = "server" => Tail(todo[e]) = Rest(e, NextPlace(e, n))
         /\ InKeyExchange(e) => e = "server" /\ n \in 1..4
         /\ r = Had(e, n) /\ r \in Nat /\ r <= Good(Peer(e))
<1>1. todo[e] # <<>> /\ Step(e)[1] = "read"
  BY DEF Doing
<1>2. ~Calling(e)
  BY <1>1 DEF Calling
<1>3. answer[e] = "none"
  BY <1>2 DEF Typed, LoginsTyped
<1>4. Step(e) # Write("disconnect")
  BY <1>1, Kinds
<1>5. /\ outcome[e] \in {"none", "ok"} /\ n \notin Last(e) /\ Step(e) = StepAt(e, n) /\ MayBe(e, n)
      /\ ~(e = "client" /\ ReadsAt(e, n)) => Tail(todo[e]) = Rest(e, NextPlace(e, n))
  BY <1>1, <1>4, Ahead DEF PlaceInv
<1>6. ReadsAt(e, n)
  BY <1>1, <1>5, KindsOfSteps
<1>7. ~WritesAt(e, n) /\ ~Finished(e, n)
  <2>1. CASE e = "client"
    BY <1>6, <2>1 DEF ReadsAt, WritesAt, Finished
  <2>2. CASE e = "server"
    BY <1>6, <2>2 DEF ReadsAt, WritesAt, Finished
  <2> QED BY <2>1, <2>2 DEF Ends
<1>8. outcome[e] # "ok"
  BY <1>7, Zenon DEF PlaceInv
<1>9. outcome[e] = "none"
  BY <1>5, <1>8
<1>10. InKeyExchange(e) => e = "server" /\ n \in 1..4
  BY <1>1, KeyExchangePlaces
<1>11. r = Had(e, n) /\ r \in Nat /\ r <= Good(Peer(e))
  <2>1. Had(e, n) \in Nat
    BY <1>5, PlacesAreNumbers
  <2>2. r = Had(e, n) + 0 /\ Had(e, n) <= Good(Peer(e))
    BY <1>9 DEF PlaceInv
  <2> QED BY <2>1, <2>2
<1> QED BY <1>1, <1>3, <1>5, <1>6, <1>7, <1>9, <1>10, <1>11

(* What it reads is the next packet of its peer, and with it the queue gets shorter.       *)
LEMMA HeadOfQueue ==
  ASSUME Typed, NEW e \in Ends, NEW r \in Nat, NEW t \in Nat, QueueInv(e, r, t), LogInv(Peer(e)),
         queue[e] # <<>>, queue' = [queue EXCEPT ![e] = Tail(queue[e])], UNCHANGED log
  PROVE  /\ Head(queue[e]) = FrameOf(Peer(e), r + 1).packet /\ r + 1 <= Len(log[Peer(e)])
         /\ QueueInv(e, r + 1, t)'
         /\ \A x \in Ends : x # e => queue'[x] = queue[x]
<1> DEFINE q == queue[e]  s == Tail(q)  k == Len(q)  p == Peer(e)  l == Len(log[p])
<1>1. q \in Seq(Packets) /\ p \in Ends /\ l \in Nat
  BY LogsAreLong DEF Typed, StreamsTyped
<1>2. /\ s \in Seq(Packets) /\ Len(s) = k - 1 /\ k \in Nat \ {0} /\ Head(q) = q[1]
      /\ \A i \in 1..(k - 1) : s[i] = q[i + 1]
  BY <1>1, RestOf
<1>3. /\ r <= t /\ t <= l /\ k = t - r
      /\ \A i \in 1..k : q[i] = log[p][r + i].frame.packet
  BY DEF QueueInv
<1>4. /\ queue'[e] = s /\ \A x \in Ends : x # e => queue'[x] = queue[x]
  BY DEF Typed, StreamsTyped
<1>5. \A i \in 1..l : log[p][i] = Word(p, i)
  BY DEF LogInv
<1> HIDE DEF q, s, k, p, l
<1>6. r + 1 \in 1..l /\ r + 1 <= t /\ 1 \in 1..k
  BY <1>1, <1>2, <1>3
<1>7. Head(q) = FrameOf(p, r + 1).packet
  <2>1. q[1] = log[p][r + 1].frame.packet
    BY <1>3, <1>6
  <2>2. log[p][r + 1] = Word(p, r + 1)
    BY <1>5, <1>6
  <2>3. Word(p, r + 1).frame = FrameOf(p, r + 1)
    BY DEF Word
  <2> QED BY <1>2, <2>1, <2>2, <2>3
<1>8. Len(s) = t - (r + 1)
  BY <1>2, <1>3
<1>9. \A i \in 1..Len(s) : s[i] = log[p][(r + 1) + i].frame.packet
  <2>1. SUFFICES ASSUME NEW i \in 1..Len(s) PROVE s[i] = log[p][(r + 1) + i].frame.packet
    OBVIOUS
  <2>2. i \in 1..(k - 1) /\ i + 1 \in 1..k /\ r + (i + 1) = (r + 1) + i
    BY <1>2, <1>8
  <2>3. s[i] = q[i + 1]
    BY <1>2, <2>2
  <2>4. q[i + 1] = log[p][r + (i + 1)].frame.packet
    BY <1>3, <2>2
  <2> QED BY <2>2, <2>3, <2>4
<1>10. log'[p] = log[p] /\ r + 1 <= t /\ t <= Len(log[p])
  BY <1>3, <1>6 DEF l
<1>11. QueueInv(e, r + 1, t)'
  BY <1>4, <1>8, <1>9, <1>10 DEF QueueInv, p
<1> QED BY <1>4, <1>6, <1>7, <1>11 DEF q, p, l

(* A packet that is awaited is neither out of sequence nor out of the blue.              *)
LEMMA AwaitedIsTaken ==
  ASSUME Typed, NEW e \in Ends, NEW n, MayBe(e, n), n \notin Last(e), ReadsAt(e, n), Step(e) = StepAt(e, n),
         e = "server" => Tail(todo[e]) = Rest(e, NextPlace(e, n)),
         NEW packet, packet = PacketOf(Peer(e), Had(e, n) + 1),
         IF e = "client" THEN NegotiatorTakes(packet) ELSE AcceptorTakes(packet)
  PROVE  /\ todo' = [todo EXCEPT ![e] = Rest(e, NextPlace(e, n))] /\ UNCHANGED outcome
<1>1. CASE e = "client"
  <2>1. packet = ClientAwaits(n) /\ n \in {1, 6, 7, 13, 15, 16}
    BY <1>1, AwaitedPacket, TwoEnds DEF ReadsAt
  <2>2. packet \in {"encryption_request", "set_compression", "login_success", "known_packs", "registry_data",
               "configuration_finished"}
    BY <2>1 DEF ClientAwaits
  <2>3. HasRole(packet) \/ StateOf(packet) = "configuration"
    BY <2>2 DEF HasRole, StateOf, LoginPackets, ConfigurationPackets
  <2>4. todo' = [todo EXCEPT !["client"] = NegotiatorReads(packet)] /\ UNCHANGED outcome
    BY <1>1, <2>2, <2>3 DEF NegotiatorTakes
  <2>5. NegotiatorReads(packet) = ClientRest(ClientNext(n))
    BY <1>1, <2>1, ClientSteps
  <2>6. Rest(e, NextPlace(e, n)) = ClientRest(ClientNext(n))
    BY <1>1 DEF Rest, NextPlace
  <2> QED BY <1>1, <2>4, <2>5, <2>6
<1>2. CASE e = "server"
  <2>1. packet = ServerAwaits(n) /\ n \in {0, 2, 7, 9, 12}
    BY <1>2, AwaitedPacket, TwoEnds DEF ReadsAt
  <2>2. Step("server") = Read(ServerAwaits(n))
    BY <1>2, <2>1 DEF StepAt, ServerStep, ServerAwaits
  <2>3. packet = Step("server")[2]
    BY <2>1, <2>2 DEF Read
  <2>4. Goes("server")
    BY <1>2, <2>3 DEF AcceptorTakes
  <2> QED BY <1>2, <2>4 DEF Goes
<1> QED BY <1>1, <1>2 DEF Ends

LEMMA ReadGoesKeeps ==
  ASSUME Typed, NEW place, NEW read, NEW taken, Ghosts(place, read, taken), Core(place, read, taken),
         NEW e \in Ends, ReadReturns(e), UNCHANGED setting,
         ~(e = "client" /\ Denied /\ read[e] + 1 = 2)
  PROVE  Kept'
<1> DEFINE n == place[e]  r == read[e]  t == taken[e]  p == Peer(e)  x == Head(queue[e])
<1>1. CoreOf(e, n, r, t) /\ CoreOf(p, place[p], read[p], taken[p]) /\ p \in Ends /\ n \in Nat /\ r \in Nat /\ t \in Nat
  BY Here
<1>2. /\ Doing(e, "read") /\ queue[e] # <<>> /\ queue' = [queue EXCEPT ![e] = Tail(queue[e])]
      /\ IF e = "client" THEN NegotiatorTakes(x) ELSE AcceptorTakes(x)
      /\ UNCHANGED <<setting, answer, held, expired, conduit, reader, framed, coordinator, job,
                     session, stopping, cause, log>>
  BY DEF ReadReturns, pumps
<1>3. PlaceInv(e, n, r) /\ QueueInv(e, r, t) /\ LogInv(p)
  BY <1>1 DEF CoreOf
<1>4. /\ answer[e] = "none" /\ outcome[e] = "none" /\ todo[e] # <<>>
      /\ n \notin Last(e) /\ MayBe(e, n) /\ Step(e) = StepAt(e, n) /\ Step(e)[1] = "read"
      /\ ReadsAt(e, n) /\ ~WritesAt(e, n) /\ ~Finished(e, n)
      /\ e = "server" => Tail(todo[e]) = Rest(e, NextPlace(e, n))
      /\ r = Had(e, n) /\ r <= Good(Peer(e))
  <2>1. PlaceInv(e, n, r) /\ Doing(e, "read")
    BY <1>2, <1>3
  <2> HIDE DEF n, r
  <2> QED BY <2>1, AtRead
<1>5. /\ x = FrameOf(p, r + 1).packet /\ r + 1 <= Len(log[p])
      /\ QueueInv(e, r + 1, t)' /\ \A y \in Ends : y # e => queue'[y] = queue[y]
  BY <1>1, <1>2, <1>3, HeadOfQueue
<1>6. ~(p = "server" /\ Denied /\ r + 1 = 2)
  BY TwoEnds DEF Ends
<1>7. x = PacketOf(p, Had(e, n) + 1)
  <2>1. FrameOf(p, r + 1).packet = PacketOf(p, r + 1)
    BY <1>6, Zenon DEF FrameOf
  <2> QED BY <1>4, <1>5, <2>1
<1>8. r + 1 <= Good(p)
  <2>1. Good(p) = (IF p = "server" /\ Denied THEN 1 ELSE Len(log[p])) /\ r <= Good(p)
    BY <1>4 DEF Good
  <2> DEFINE g == Good(p)  l == Len(log[p])
  <2>2. g = (IF p = "server" /\ Denied THEN 1 ELSE l) /\ r <= g /\ r + 1 <= l
    BY <1>5, <2>1
  <2> HIDE DEF g, l, r, p
  <2>3. r + 1 <= g
    <3>0. r \in Nat
      BY <1>1
    <3>1. CASE p = "server" /\ Denied
      <4>1. g = 1 /\ r <= g /\ r + 1 # 2
        BY <1>6, <2>2, <3>1
      <4> QED BY <3>0, <4>1
    <3>2. CASE ~(p = "server" /\ Denied)
      BY <2>2, <3>2
    <3> QED BY <3>1, <3>2
  <2> QED BY <2>3 DEF g, r
<1>9. todo' = [todo EXCEPT ![e] = Rest(e, NextPlace(e, n))] /\ UNCHANGED outcome
  BY <1>2, <1>4, <1>7, AwaitedIsTaken
<1>10. PICK m : m = NextPlace(e, n)
  OBVIOUS
<1>11. todo'[e] = Rest(e, m) /\ \A y \in Ends : y # e => todo'[y] = todo[y]
  BY <1>9, <1>10 DEF Typed, LoginsTyped
<1>12. PICK h : h = r + 1
  OBVIOUS
<1>13. h = Had(e, m)
  <2>1. Had(e, m) = Had(e, n) + 1
    BY <1>4, <1>10, Onward
  <2> QED BY <1>4, <1>12, <2>1
<1>14. UNCHANGED <<setting, conduit, reader, framed, coordinator, job, session, stopping, cause, log,
                   expired, held>>
  BY <1>2
<1>15. \A y \in Ends : y # e => /\ todo'[y] = todo[y] /\ answer'[y] = answer[y]
                                /\ outcome'[y] = outcome[y] /\ queue'[y] = queue[y]
  BY <1>2, <1>5, <1>9, <1>11
<1>16. /\ place[e] \notin Last(e) /\ m = NextPlace(e, place[e])
       /\ answer[e] = "ok" <=> StepAt(e, place[e])[1] \in {"write", "control", "snapshot"}
       /\ outcome'[e] = IF StepAt(e, place[e])[1] = "return" THEN "ok" ELSE outcome[e]
  BY <1>4, <1>9, <1>10
<1>17. ~Failed(e) /\ answer'[e] = "none" /\ answer[e] \in {"none", "ok"} /\ todo[e] # <<>>
  BY <1>2, <1>4 DEF Failed
<1>18. QueueInv(e, r + 1, t)'
  BY <1>5
<1>19. QueueInv(e, h, t)'
  BY <1>12, <1>18 DEF QueueInv
<1> HIDE DEF n, r, t
<1>20. QueueInv(e, h, taken[e])' /\ h <= Good(Peer(e))
  BY <1>8, <1>12, <1>19 DEF t
<1> QED BY <1>11, <1>13, <1>14, <1>15, <1>16, <1>17, <1>20, GoesOnKeeps

(* The second packet a denied client reads is the disconnect.                         *)
LEMMA ReadRefusalKeeps ==
  ASSUME Typed, NEW place, NEW read, NEW taken, Ghosts(place, read, taken), Core(place, read, taken),
         NEW e \in Ends, ReadReturns(e), UNCHANGED setting,
         e = "client" /\ Denied /\ read[e] + 1 = 2
  PROVE  Kept'
<1> DEFINE n == place[e]  r == read[e]  t == taken[e]  p == Peer(e)  x == Head(queue[e])
<1>1. CoreOf(e, n, r, t) /\ CoreOf(p, place[p], read[p], taken[p]) /\ p \in Ends /\ n \in Nat /\ r \in Nat /\ t \in Nat
  BY Here
<1>2. /\ Doing(e, "read") /\ queue[e] # <<>> /\ queue' = [queue EXCEPT ![e] = Tail(queue[e])]
      /\ NegotiatorTakes(x)
      /\ UNCHANGED <<setting, answer, held, expired, conduit, reader, framed, coordinator, job,
                     session, stopping, cause, log>>
  BY DEF ReadReturns, pumps
<1>3. PlaceInv(e, n, r) /\ QueueInv(e, r, t) /\ LogInv(p)
  BY <1>1 DEF CoreOf
<1>4. /\ answer[e] = "none" /\ outcome[e] = "none" /\ ReadsAt(e, n) /\ r = Had(e, n)
  BY <1>2, <1>3, AtRead
<1>5. /\ x = FrameOf(p, r + 1).packet
      /\ QueueInv(e, r + 1, t)' /\ \A y \in Ends : y # e => queue'[y] = queue[y]
  BY <1>1, <1>2, <1>3, HeadOfQueue
<1>6. x = "disconnect"
  <2>1. p = "server" /\ r + 1 = 2
    BY TwoEnds
  <2>2. FrameOf(p, 2) = [packet |-> "disconnect", from |-> "server", compressed |-> FALSE]
    BY <2>1, Zenon DEF FrameOf
  <2>3. FrameOf(p, 2).packet = "disconnect"
    BY <2>2
  <2> QED BY <1>5, <2>1, <2>3
<1>7. Fails("client", "disconnected")
  BY <1>2, <1>6 DEF NegotiatorTakes
<1>8. todo' = [todo EXCEPT ![e] = <<>>] /\ outcome' = [outcome EXCEPT ![e] = IF @ = "none" THEN "disconnected" ELSE @]
  BY <1>7 DEF Fails, InKeyExchange
<1>9. /\ \A y \in Ends : y # e => todo'[y] = todo[y] /\ outcome'[y] = outcome[y]
      /\ todo'[e] = <<>> /\ outcome'[e] = "disconnected"
  BY <1>4, <1>8 DEF Typed, LoginsTyped
<1>10. PICK h : h = r + 1
  OBVIOUS
<1>11. h \in Nat /\ h = Had(e, n) + (IF outcome'[e] = "disconnected" THEN 1 ELSE 0)
  BY <1>1, <1>4, <1>9, <1>10
<1>12. UNCHANGED <<setting, conduit, reader, framed, coordinator, job, session, stopping, cause, log,
                   expired, held>>
  BY <1>2
<1>13. \A y \in Ends : y # e => /\ todo'[y] = todo[y] /\ answer'[y] = answer[y]
                                /\ outcome'[y] = outcome[y] /\ queue'[y] = queue[y]
  BY <1>2, <1>5, <1>9
<1>14. /\ answer[e] \in {"none", "ok", "failed", "rejected", "expired"} /\ answer'[e] = "none"
       /\ answer[e] # "ok"
       /\ outcome[e] # "none" => outcome'[e] = outcome[e]
       /\ outcome[e] = "none" =>
            outcome'[e] \in {"ended", "expired", "disconnected"} \/ (e = "client" /\ outcome'[e] = "authentication")
       /\ outcome'[e] = "disconnected" => e = "client" /\ Denied
  BY <1>2, <1>4, <1>9
<1>15. QueueInv(e, r + 1, t)'
  BY <1>5
<1>16. QueueInv(e, h, t)'
  BY <1>10, <1>15 DEF QueueInv
<1> HIDE DEF n, r, t
<1>17. h \in Nat /\ h = Had(e, place[e]) + (IF outcome'[e] = "disconnected" THEN 1 ELSE 0)
       /\ QueueInv(e, h, taken[e])'
  BY <1>11, <1>16 DEF n, t
<1> QED BY <1>9, <1>12, <1>13, <1>14, <1>17, StopsHereKeeps

LEMMA ReadReturnsKeeps ==
  ASSUME Typed, NEW place, NEW read, NEW taken, Ghosts(place, read, taken), Core(place, read, taken),
         NEW e \in Ends, ReadReturns(e), UNCHANGED setting
  PROVE  Kept'
BY ReadGoesKeeps, ReadRefusalKeeps

(* A read that returns an error: the stream has ended, or the context has.               *)
LEMMA ReadReturnsErrorKeeps ==
  ASSUME Typed, NEW place, NEW read, NEW taken, Ghosts(place, read, taken), Core(place, read, taken),
         NEW e \in Ends, ReadReturnsError(e), UNCHANGED setting
  PROVE  Astray' \/ Kept'
<1> DEFINE n == place[e]  r == read[e]  t == taken[e]  p == Peer(e)
<1>1. CoreOf(e, n, r, t) /\ n \in Nat /\ r \in Nat /\ t \in Nat
  BY Here
<1>2. PICK why \in {"ended", "expired"} :
        /\ Fails(e, why) /\ Doing(e, "read")
        /\ coordinator[e] = "over" \/ expired[e]
        /\ UNCHANGED <<setting, answer, held, expired, conduit, reader, framed, coordinator, job,
                       session, queue, stopping, cause, log>>
  BY DEF ReadReturnsError, streams, pumps
<1>3. PlaceInv(e, n, r)
  BY <1>1 DEF CoreOf
<1>4. /\ answer[e] = "none" /\ outcome[e] = "none" /\ todo[e] # <<>> /\ Step(e)[1] = "read"
      /\ ReadsAt(e, n) /\ ~WritesAt(e, n) /\ ~Finished(e, n)
      /\ InKeyExchange(e) => e = "server" /\ n \in 1..4
      /\ r = Had(e, n)
  BY <1>2, <1>3, AtRead
<1>5. /\ \A x \in Ends : x # e => todo'[x] = todo[x] /\ outcome'[x] = outcome[x]
      /\ todo'[e] = (IF InKeyExchange(e) THEN Refusal ELSE <<>>) /\ outcome'[e] = why
  BY <1>2, <1>4 DEF Fails, Typed, LoginsTyped
<1>6. CASE e = "server" /\ expired[e]
  BY <1>2, <1>5, <1>6 DEF Astray, Failed
<1>7. CASE ~(e = "server" /\ expired[e])
  <2>1. QueueInv(e, r, t)'
    BY <1>1, <1>2, QueueStays DEF CoreOf
  <2>2. UNCHANGED <<setting, conduit, reader, framed, coordinator, job, session, stopping, cause, log,
                    expired, held>>
    BY <1>2
  <2>3. \A x \in Ends : x # e => /\ todo'[x] = todo[x] /\ answer'[x] = answer[x]
                                 /\ outcome'[x] = outcome[x] /\ queue'[x] = queue[x]
    BY <1>2, <1>5
  <2>4. \/ todo'[e] = <<>>
        \/ /\ todo'[e] = Refusal /\ e = "server" /\ n \in 1..4 /\ stopping[e] /\ outcome[e] = "none"
           /\ Extra(e, n) = 0 /\ coordinator[e] \notin {"writing", "written"}
    <3>1. SUFFICES ASSUME InKeyExchange(e) PROVE
            /\ todo'[e] = Refusal /\ e = "server" /\ n \in 1..4 /\ stopping[e] /\ outcome[e] = "none"
            /\ Extra(e, n) = 0 /\ coordinator[e] \notin {"writing", "written"}
      BY <1>5
    <3>2. e = "server" /\ n \in 1..4 /\ todo'[e] = Refusal /\ outcome[e] = "none"
      BY <1>4, <1>5, <3>1
    <3>3. coordinator[e] = "over"
      BY <1>2, <1>7, <3>2
    <3>4. stopping[e]
      BY <1>1, <3>3 DEF CoreOf, StopInv
    <3>5. Extra(e, n) = 0
      BY <1>1, <1>4 DEF CoreOf, SentInv
    <3> QED BY <3>2, <3>3, <3>4, <3>5
  <2>5. /\ answer[e] \in {"none", "ok", "failed", "rejected", "expired"} /\ answer'[e] = "none"
        /\ answer[e] # "ok"
        /\ outcome[e] # "none" => outcome'[e] = outcome[e]
        /\ outcome[e] = "none" =>
             outcome'[e] \in {"ended", "expired", "disconnected"} \/ (e = "client" /\ outcome'[e] = "authentication")
        /\ outcome'[e] = "disconnected" => e = "client" /\ Denied
        /\ outcome'[e] # "disconnected"
    BY <1>2, <1>4, <1>5
  <2> HIDE DEF n, r, t
  <2>6. /\ r \in Nat /\ r = Had(e, place[e]) + (IF outcome'[e] = "disconnected" THEN 1 ELSE 0)
        /\ QueueInv(e, r, taken[e])'
    BY <1>1, <1>4, <2>1, <2>5 DEF n, t
  <2>7. \/ todo'[e] = <<>>
        \/ /\ todo'[e] = Refusal /\ e = "server" /\ place[e] \in 1..4 /\ stopping[e] /\ outcome[e] = "none"
           /\ Extra(e, place[e]) = 0 /\ coordinator[e] \notin {"writing", "written"}
    BY <2>4 DEF n
  <2>8. Kept'
    BY <2>2, <2>3, <2>5, <2>6, <2>7, StopsHereKeeps
  <2> QED BY <2>8
<1> QED BY <1>6, <1>7

LEMMA LoginReturnsKeeps ==
  ASSUME Typed, NEW place, NEW read, NEW taken, Ghosts(place, read, taken), Core(place, read, taken),
         NEW e \in Ends, LoginReturns(e), UNCHANGED setting
  PROVE  Kept'
<1> DEFINE n == place[e]  r == read[e]  t == taken[e]
<1>1. CoreOf(e, n, r, t) /\ n \in Nat /\ r \in Nat /\ t \in Nat
  BY Here
<1>2. /\ Doing(e, "return") /\ todo' = [todo EXCEPT ![e] = Tail(todo[e])] /\ outcome' = [outcome EXCEPT ![e] = "ok"]
      /\ UNCHANGED <<setting, answer, held, expired, conduit, reader, framed, coordinator, job,
                     session, queue, stopping, cause, log>>
  BY DEF LoginReturns, streams, pumps
<1>3. PlaceInv(e, n, r)
  BY <1>1 DEF CoreOf
<1>4. todo[e] # <<>> /\ Step(e)[1] = "return"
  BY <1>2 DEF Doing
<1>5. answer[e] = "none"
  <2>1. ~Calling(e)
    BY <1>4 DEF Calling
  <2> QED BY <2>1 DEF Typed, LoginsTyped
<1>6. Step(e) # Write("disconnect")
  BY <1>4, Kinds
<1>7. /\ outcome[e] \in {"none", "ok"} /\ n \notin Last(e) /\ Step(e) = StepAt(e, n) /\ MayBe(e, n)
      /\ ~(e = "client" /\ ReadsAt(e, n)) => Tail(todo[e]) = Rest(e, NextPlace(e, n))
  BY <1>3, <1>4, <1>6, Ahead DEF PlaceInv
<1>8. ~ReadsAt(e, n) /\ StepAt(e, n)[1] = "return"
  BY <1>4, <1>7, KindsOfSteps
<1>9. (\A x \in Ends : x # e => todo'[x] = todo[x] /\ outcome'[x] = outcome[x])
      /\ todo'[e] = Tail(todo[e]) /\ outcome'[e] = "ok"
  BY <1>2 DEF Typed, LoginsTyped
<1>10. PICK m : m = NextPlace(e, n)
  OBVIOUS
<1>11. Had(e, m) = r /\ r <= Good(Peer(e))
  <2>1. Had(e, m) = Had(e, n) + 0
    BY <1>7, <1>8, <1>10, Onward
  <2>2. outcome[e] # "disconnected"
    BY <1>7
  <2>3. Had(e, n) \in Nat /\ r = Had(e, n) + 0 /\ Had(e, n) <= Good(Peer(e))
    BY <1>3, <1>7, <2>2, PlacesAreNumbers DEF PlaceInv
  <2> QED BY <2>1, <2>3
<1>12. QueueInv(e, r, t)'
  BY <1>1, <1>2, QueueStays DEF CoreOf
<1>13. todo'[e] = Rest(e, m)
  BY <1>7, <1>8, <1>9, <1>10
<1>14. UNCHANGED <<setting, conduit, reader, framed, coordinator, job, session, stopping, cause, log,
                   expired, held>>
  BY <1>2
<1>15. \A x \in Ends : x # e => /\ todo'[x] = todo[x] /\ answer'[x] = answer[x]
                                /\ outcome'[x] = outcome[x] /\ queue'[x] = queue[x]
  BY <1>2, <1>9
<1>16. /\ place[e] \notin Last(e) /\ m = NextPlace(e, place[e])
       /\ answer[e] = "ok" <=> StepAt(e, place[e])[1] \in {"write", "control", "snapshot"}
       /\ outcome'[e] = IF StepAt(e, place[e])[1] = "return" THEN "ok" ELSE outcome[e]
  BY <1>5, <1>7, <1>8, <1>9, <1>10
<1>17. ~Failed(e) /\ answer'[e] = "none" /\ answer[e] \in {"none", "ok"} /\ todo[e] # <<>>
  BY <1>2, <1>4, <1>5, <1>7 DEF Failed
<1> HIDE DEF n, r, t
<1>18. r = Had(e, m) /\ QueueInv(e, r, taken[e])' /\ r <= Good(Peer(e))
  BY <1>11, <1>12 DEF t
<1> QED BY <1>13, <1>14, <1>15, <1>16, <1>17, <1>18, GoesOnKeeps
-----------------------------------------------------------------------------
(* Both login functions begin at the first place of their course.                      *)
LEMMA TwoThen ==
  ASSUME NEW s \in Seq(Steps), NEW a \in Steps, NEW b \in Steps
  PROVE  Two(a, b) \o s = One(a) \o (One(b) \o s)
<1> DEFINE A == One(a)  B == One(b)
<1>1. A \in Seq(Steps) /\ B \in Seq(Steps) /\ Two(a, b) = A \o B
  BY OneByOne, Zenon
<1> HIDE DEF A, B
<1>2. (A \o B) \o s = A \o (B \o s)
  BY <1>1
<1>3. Two(a, b) \o s = A \o (B \o s)
  BY <1>1, <1>2, Zenon
<1> QED BY <1>3 DEF A, B

ThreeAhead(s, a, b, c)   == Three(a, b, c) \o s = One(a) \o (One(b) \o (One(c) \o s))
FourAhead(s, a, b, c, d) == Four(a, b, c, d) \o s = One(a) \o (One(b) \o (One(c) \o (One(d) \o s)))

LEMMA ThreeThen ==
  ASSUME NEW s \in Seq(Steps), NEW a \in Steps, NEW b \in Steps, NEW c \in Steps
  PROVE  ThreeAhead(s, a, b, c)
<1> DEFINE A == One(a)  BC == Two(b, c)
<1>1. A \in Seq(Steps) /\ BC \in Seq(Steps) /\ Three(a, b, c) = A \o BC
  BY OneByOne, ZenonT(60)
<1>2. BC \o s = One(b) \o (One(c) \o s)
  BY TwoThen
<1> HIDE DEF A, BC
<1>3. (A \o BC) \o s = A \o (BC \o s)
  BY <1>1
<1>4. Three(a, b, c) \o s = A \o (One(b) \o (One(c) \o s))
  BY <1>1, <1>2, <1>3, Zenon
<1> QED BY <1>4 DEF A, ThreeAhead

LEMMA FourThen ==
  ASSUME NEW s \in Seq(Steps), NEW a \in Steps, NEW b \in Steps, NEW c \in Steps, NEW d \in Steps
  PROVE  FourAhead(s, a, b, c, d)
<1> DEFINE A == One(a)  BCD == Three(b, c, d)
<1>1. A \in Seq(Steps) /\ BCD \in Seq(Steps)
  BY OneByOne, Zenon
<1>2. Four(a, b, c, d) = A \o BCD
  <2> DEFINE v == Four(a, b, c, d)  u == A \o BCD
  <2>1. v \in Seq(Steps) /\ Len(v) = 4 /\ v[1] = a /\ v[2] = b /\ v[3] = c /\ v[4] = d
    BY DEF Four
  <2>2. u \in Seq(Steps) /\ Len(u) = 4 /\ u[1] = a /\ u[2] = b /\ u[3] = c /\ u[4] = d
    BY DEF One, Three
  <2> HIDE DEF v, u
  <2>3. v = u
    BY <2>1, <2>2
  <2> QED BY <2>3 DEF v, u
<1>3. BCD \o s = One(b) \o (One(c) \o (One(d) \o s))
  <2>1. ThreeAhead(s, b, c, d)
    BY ThreeThen, Zenon
  <2> QED BY <2>1, Zenon DEF ThreeAhead
<1> HIDE DEF A, BCD
<1>4. (A \o BCD) \o s = A \o (BCD \o s)
  BY <1>1
<1>5. Four(a, b, c, d) \o s = A \o (One(b) \o (One(c) \o (One(d) \o s)))
  BY <1>2, <1>3, <1>4, Zenon
<1> QED BY <1>5 DEF A, FourAhead

LEMMA NoneThen ==
  ASSUME NEW s \in Seq(Steps)
  PROVE  <<>> \o s = s
OBVIOUS

LEMMA NegotiatorBegins == NegotiatorScript = Client0
<1> DEFINE w == Write("login_start")  any == Read("any")
<1>1. w \in Steps /\ any \in Steps
  BY StepsAre, PacketsAre
<1>2. NegotiatorScript = Two(w, any) /\ Client0 = One(w) \o One(any)
  BY DEF NegotiatorScript, Client0, Awaiting, One, Two
<1> HIDE DEF w, any
<1> QED BY <1>1, <1>2, OneByOne

LEMMA ServerCourse ==
  /\ Server14 \in Seq(Steps) /\ Server13 \in Seq(Steps) /\ Server10 \in Seq(Steps) /\ Behind7 \in Seq(Steps)
  /\ Behind6 \in Seq(Steps) /\ Server6 \in Seq(Steps) /\ Behind4 \in Seq(Steps)
<1> DEFINE game == Write("game")  a == Read("login_acknowledged")  b == Write("known_packs")  c == Read("known_packs")
           d == Write("registry_data")  f == Write("configuration_finished")  g == Read("configuration_finished")
           h == Write("login_success")  i == Write("set_compression")
<1>1. /\ game \in Steps /\ a \in Steps /\ b \in Steps /\ c \in Steps /\ d \in Steps /\ f \in Steps
      /\ g \in Steps /\ h \in Steps /\ i \in Steps /\ Snapshot \in Steps /\ Return \in Steps
  BY StepsAre, PacketsAre
<1>2. Playing = One(game) /\ Server14 = One(Return) \o Playing /\ Server13 = One(Snapshot) \o Server14
  BY DEF Playing, Server14, Server13, One
<1>3. Server10 = One(d) \o (One(f) \o (One(g) \o Server13))
  BY DEF Server10, Server11, Server12, One
<1>4. Behind7 = (IF Packs THEN One(b) \o (One(c) \o Server10) ELSE Server10)
      /\ Behind6 = (IF Acknowledged THEN One(a) \o Behind7 ELSE Server13)
  BY DEF Behind7, Server8, Server9, Behind6, Server7, One
<1>5. Server6 = One(h) \o Behind6 /\ Behind4 = (IF Compresses THEN One(i) \o Server6 ELSE Server6)
  BY DEF Server6, Behind4, Server5, One
<1> HIDE DEF game, a, b, c, d, f, g, h, i
<1>6. \A x \in Steps, s \in Seq(Steps) : One(x) \o s \in Seq(Steps)
  BY DEF One
<1>7. Server14 \in Seq(Steps) /\ Server13 \in Seq(Steps)
  BY <1>1, <1>2, <1>6, OneByOne, Zenon
<1>8. Server10 \in Seq(Steps)
  BY <1>1, <1>3, <1>6, <1>7, Zenon
<1>9. Behind7 \in Seq(Steps) /\ Behind6 \in Seq(Steps)
  BY <1>1, <1>4, <1>6, <1>7, <1>8, Zenon
<1>10. Server6 \in Seq(Steps) /\ Behind4 \in Seq(Steps)
  BY <1>1, <1>5, <1>6, <1>9, Zenon
<1> QED BY <1>7, <1>8, <1>9, <1>10

LEMMA ReachesPlay == ReachPlay \in Seq(Steps) /\ ReachPlay \o Server13 = Server7
<1> DEFINE a == Read("login_acknowledged")  b == Write("known_packs")  c == Read("known_packs")
           d == Write("registry_data")  f == Write("configuration_finished")  g == Read("configuration_finished")
           A == One(a)  P == IF Packs THEN Two(b, c) ELSE <<>>  Q == Three(d, f, g)
<1>1. a \in Steps /\ b \in Steps /\ c \in Steps /\ d \in Steps /\ f \in Steps /\ g \in Steps
  BY StepsAre, PacketsAre
<1>2. ReachPlay = (A \o P) \o Q
  BY DEF ReachPlay, One, Two, Three
<1>3. Server10 = One(d) \o (One(f) \o (One(g) \o Server13))
  BY DEF Server10, Server11, Server12, One
<1>4. Behind7 = (IF Packs THEN One(b) \o (One(c) \o Server10) ELSE Server10) /\ Server7 = One(a) \o Behind7
  BY DEF Behind7, Server8, Server9, Server7, One
<1> HIDE DEF a, b, c, d, f, g
<1>5. A \in Seq(Steps) /\ Two(b, c) \in Seq(Steps) /\ Q \in Seq(Steps) /\ <<>> \in Seq(Steps)
  BY <1>1, OneByOne
<1>6. P \in Seq(Steps)
  BY <1>5, Zenon
<1>7. Q \o Server13 = Server10
  <2>1. Server13 \in Seq(Steps)
    BY ServerCourse, Zenon
  <2>2. ThreeAhead(Server13, d, f, g)
    BY <1>1, <2>1, ThreeThen, Zenon
  <2> QED BY <1>3, <2>2, Zenon DEF ThreeAhead
<1>8. P \o Server10 = Behind7
  <2>0. Server10 \in Seq(Steps)
    BY ServerCourse, Zenon
  <2>1. Two(b, c) \o Server10 = One(b) \o (One(c) \o Server10)
    BY <1>1, <2>0, TwoThen
  <2>2. <<>> \o Server10 = Server10
    BY <2>0, NoneThen
  <2> QED BY <1>4, <2>1, <2>2, Zenon
<1> HIDE DEF A, P, Q
<1>9. A \o P \in Seq(Steps) /\ (A \o P) \o Q \in Seq(Steps) /\ P \o Q \in Seq(Steps)
  BY <1>5, <1>6
<1>10. ((A \o P) \o Q) \o Server13 = (A \o P) \o (Q \o Server13)
  <2>1. A \o P \in Seq(Steps) /\ Q \in Seq(Steps) /\ Server13 \in Seq(Steps)
    BY <1>5, <1>9, ServerCourse
  <2> QED BY <2>1
<1>11. (A \o P) \o Server10 = A \o (P \o Server10)
  <2>1. A \in Seq(Steps) /\ P \in Seq(Steps) /\ Server10 \in Seq(Steps)
    BY <1>5, <1>6, ServerCourse
  <2> QED BY <2>1
<1>12. ReachPlay \o Server13 = A \o Behind7
  BY <1>2, <1>7, <1>8, <1>10, <1>11, Zenon
<1> QED BY <1>2, <1>4, <1>9, <1>12 DEF A

LEMMA AcceptorBegins == AcceptorScript = Server0
<1> DEFINE R == One(Read("login_start"))  K == IF Online THEN AcceptorKeys ELSE <<>>
           C == IF Compresses THEN One(Write("set_compression")) ELSE <<>>  L == One(Write("login_success"))
           P == IF Acknowledged THEN ReachPlay ELSE <<>>  N == One(Snapshot)
           u == Write("encryption_request")  v == Read("encryption_response")  w == Control("both")
<1>1. /\ Read("login_start") \in Steps /\ Write("set_compression") \in Steps /\ Write("login_success") \in Steps
      /\ Snapshot \in Steps /\ Return \in Steps /\ Write("game") \in Steps
      /\ u \in Steps /\ v \in Steps /\ w \in Steps /\ Verify \in Steps
  BY StepsAre, PacketsAre
<1>2. AcceptorKeys = Four(u, v, w, Verify)
  BY DEF AcceptorKeys, Four
<1>3. Four(u, v, w, Verify) \in Seq(Steps)
  <2> HIDE DEF u, v, w
  <2> QED BY <1>1 DEF Four
<1>4. R \in Seq(Steps) /\ L \in Seq(Steps) /\ N \in Seq(Steps) /\ <<>> \in Seq(Steps)
      /\ One(Write("set_compression")) \in Seq(Steps)
  BY <1>1, OneByOne
<1>5. K \in Seq(Steps) /\ C \in Seq(Steps) /\ P \in Seq(Steps)
  BY <1>2, <1>3, <1>4, ReachesPlay, Zenon
<1>6. Reached = Server14
  <2> DEFINE game == Write("game")
  <2>1. Reached = Two(Return, game) /\ Server14 = One(Return) \o One(game)
    BY DEF Reached, Server14, Playing, Two, One
  <2> HIDE DEF game
  <2>2. game \in Steps
    BY <1>1 DEF game
  <2> QED BY ZenonT(60), <1>1, <2>1, <2>2, OneByOne
<1>7. AcceptorScript = ((((((R \o K) \o C) \o L) \o P) \o N) \o Server14)
  BY <1>6 DEF AcceptorScript, One
<1>8. N \o Server14 = Server13 /\ L \o Behind6 = Server6 /\ R \o Behind0 = Server0
  BY DEF Server13, Server6, Server0, One
<1>9. P \o Server13 = Behind6
  BY ServerCourse, ReachesPlay, NoneThen DEF Behind6
<1>10. C \o Server6 = Behind4
  <2>1. <<>> \o Server6 = Server6
    BY ServerCourse, NoneThen
  <2> QED BY <2>1 DEF Behind4, Server5, One
<1>11. K \o Behind4 = Behind0
  <2>1. <<>> \o Behind4 = Behind4
    BY ServerCourse, NoneThen
  <2>2. Four(u, v, w, Verify) \o Behind4 = One(u) \o (One(v) \o (One(w) \o (One(Verify) \o Behind4)))
    <3> HIDE DEF u, v, w
    <3>1. Behind4 \in Seq(Steps)
      BY ServerCourse, Zenon
    <3>2. u \in Steps /\ v \in Steps /\ w \in Steps /\ Verify \in Steps
      BY <1>1
    <3>3. FourAhead(Behind4, u, v, w, Verify)
      BY <3>1, <3>2, FourThen, Zenon
    <3> QED BY <3>3, Zenon DEF FourAhead
  <2>3. Server1 = One(u) \o (One(v) \o (One(w) \o (One(Verify) \o Behind4)))
    BY DEF Server1, Server2, Server3, Server4, One
  <2> HIDE DEF u, v, w
  <2> QED BY <1>2, <2>1, <2>2, <2>3, Zenon DEF Behind0
<1> HIDE DEF R, K, C, L, P, N
<1> DEFINE a == R \o K  b == a \o C  c == b \o L  d == c \o P
<1>12. a \in Seq(Steps)
  BY <1>4, <1>5
<1> HIDE DEF a
<1>13. b \in Seq(Steps)
  BY <1>5, <1>12
<1> HIDE DEF b
<1>14. c \in Seq(Steps)
  BY <1>4, <1>13
<1> HIDE DEF c
<1>15. d \in Seq(Steps)
  BY <1>5, <1>14
<1> HIDE DEF d
<1>16. (d \o N) \o Server14 = d \o (N \o Server14)
  <2>1. d \in Seq(Steps) /\ N \in Seq(Steps) /\ Server14 \in Seq(Steps)
    BY <1>4, <1>15, ServerCourse
  <2> QED BY <2>1
<1>17. (c \o P) \o Server13 = c \o (P \o Server13)
  <2>1. c \in Seq(Steps) /\ P \in Seq(Steps) /\ Server13 \in Seq(Steps)
    BY <1>5, <1>14, ServerCourse
  <2> QED BY <2>1
<1>18. (b \o L) \o Behind6 = b \o (L \o Behind6)
  <2>1. b \in Seq(Steps) /\ L \in Seq(Steps) /\ Behind6 \in Seq(Steps)
    BY <1>4, <1>13, ServerCourse
  <2> QED BY <2>1
<1>19. (a \o C) \o Server6 = a \o (C \o Server6)
  <2>1. a \in Seq(Steps) /\ C \in Seq(Steps) /\ Server6 \in Seq(Steps)
    BY <1>5, <1>12, ServerCourse
  <2> QED BY <2>1
<1>20. (R \o K) \o Behind4 = R \o (K \o Behind4)
  <2>1. R \in Seq(Steps) /\ K \in Seq(Steps) /\ Behind4 \in Seq(Steps)
    BY <1>4, <1>5, ServerCourse
  <2> QED BY <2>1
<1>21. a \o Behind4 = Server0
  BY <1>8, <1>11, <1>20, Zenon DEF a
<1>22. b \o Server6 = Server0
  BY <1>10, <1>19, <1>21, Zenon DEF b
<1>23. c \o Behind6 = Server0
  BY <1>8, <1>18, <1>22, Zenon DEF c
<1>24. d \o Server13 = Server0
  BY <1>9, <1>17, <1>23, Zenon DEF d
<1>25. (d \o N) \o Server14 = Server0
  BY <1>8, <1>16, <1>24, Zenon
<1> QED BY <1>7, <1>25 DEF d, c, b, a
-----------------------------------------------------------------------------
(* A login begins at the first place of each course, with nothing written or read.       *)
LEMMA ConduitBegins ==
  /\ NewConduit \in Conduits /\ Fits(NewConduit)
  /\ FlowOf(NewConduit) = <<>> /\ Len(FlowOf(NewConduit)) = 0
  /\ NewConduit.inHand = <<>> /\ NewConduit.buffered = <<>> /\ NewConduit.pending = 0
  /\ NewConduit.decrypt = FALSE /\ NewConduit.encrypt = FALSE
<1>1. /\ NewConduit.inHand = <<>> /\ NewConduit.buffered = <<>> /\ NewConduit.wire = <<>>
      /\ NewConduit.pending = 0 /\ NewConduit.decrypt = FALSE /\ NewConduit.encrypt = FALSE
  BY DEF NewConduit
<1>2. NewConduit \in Conduits
  BY DEF NewConduit, Conduits
<1>3. WireUnits \in Nat /\ WireUnits >= 2
  BY LoginAssumption
<1>4. Fits(NewConduit)
  BY <1>1, <1>3 DEF Fits
<1>5. FlowOf(NewConduit) = (<<>> \o <<>>) \o <<>>
  BY <1>1, Zenon DEF FlowOf
<1>6. FlowOf(NewConduit) = <<>>
  BY <1>5
<1> QED BY <1>1, <1>2, <1>4, <1>6

LEMMA ScriptsBegin ==
  /\ Rest("client", 0) \in Seq(Steps) /\ Rest("client", 0) = NegotiatorScript
  /\ Rest("server", 0) \in Seq(Steps) /\ Rest("server", 0) = AcceptorScript
  /\ \A e \in Ends : MayBe(e, 0)
<1>1. \A e \in Ends : MayBe(e, 0)
  BY DEF MayBe, Places, ClientMayBe, ServerMayBe
<1>2. MayBe("client", 0) /\ MayBe("server", 0) /\ 0 \notin Last("client") /\ 0 \notin Last("server")
      /\ ~ReadsAt("client", 0)
  BY <1>1, TwoEnds DEF Last, ReadsAt
<1>3. Leads(ClientRest(0), ClientStep(0), ClientRest(ClientNext(0)))
  BY <1>2, ClientSteps
<1>4. Leads(ServerRest(0), ServerStep(0), ServerRest(ServerNext(0)))
  BY <1>2, ServerSteps
<1>5. Rest("client", 0) = ClientRest(0) /\ Rest("server", 0) = ServerRest(0)
  BY DEF Rest
<1>6. ClientRest(0) = Client0 /\ ServerRest(0) = Server0
  BY DEF ClientRest, ServerRest
<1> QED BY <1>1, <1>3, <1>4, <1>5, <1>6, NegotiatorBegins, AcceptorBegins DEF Leads

LEMMA NothingYet ==
  /\ \A e \in Ends : Sent(e, 0) = 0 /\ Had(e, 0) = 0 /\ ~Finished(e, 0)
  /\ StateAt(0) = "login" /\ Keyed \in {0, 1}
BY SettingNumbers DEF Sent, Had, Past, Finished, StateAt

LEMMA TypesBegin ==
  ASSUME Init
  PROVE  Typed
<1>1. setting \in Settings
  BY DEF Init
<1>2. /\ conduit \in [Ends -> Conduits] /\ \A e \in Ends : conduit[e] = NewConduit /\ Fits(conduit[e])
  BY ConduitBegins DEF Init
<1>3. /\ reader = [e \in Ends |-> "length"] /\ framed = [e \in Ends |-> NoFrame]
      /\ coordinator = [e \in Ends |-> "select"] /\ job = [e \in Ends |-> NoFrame]
      /\ stopping = [e \in Ends |-> FALSE] /\ cause = [e \in Ends |-> "none"]
  BY DEF Init
<1>4. session \in [Ends -> Sessions]
  BY DEF Init, Sessions, States
<1>5. queue \in [Ends -> Seq(Packets)] /\ log \in [Ends -> Seq(Words)]
  BY DEF Init
<1>6. StreamsTyped
  BY <1>2, <1>3, <1>4, <1>5 DEF StreamsTyped, Causes
<1>7. todo \in [Ends -> Seq(Steps)]
  <2>1. todo = [e \in Ends |-> IF e = "client" THEN NegotiatorScript ELSE AcceptorScript]
    BY DEF Init
  <2> QED BY <2>1, ScriptsBegin
<1>8. /\ answer = [e \in Ends |-> "none"] /\ expired = [e \in Ends |-> FALSE] /\ held = FALSE
      /\ outcome = [e \in Ends |-> "none"]
  BY DEF Init
<1>9. LoginsTyped
  BY <1>7, <1>8, TwoEnds DEF LoginsTyped, Answers, Outcomes, Failed
<1> QED BY <1>1, <1>6, <1>9 DEF Typed

LEMMA LoginBegins ==
  ASSUME Init
  PROVE  Kept
<1> DEFINE zero == [e \in Ends |-> 0]
<1>1. zero \in [Ends -> Nat]
  OBVIOUS
<1>2. /\ ~Denied /\ ~held /\ \A e \in Ends : log[e] = <<>> /\ Len(log[e]) = 0
  BY TwoEnds DEF Init, Denied
<1>3. ASSUME NEW e \in Ends
      PROVE  CoreOf(e, 0, 0, 0)
  <2>1. Peer(e) \in Ends /\ log[Peer(e)] = <<>> /\ Len(log[Peer(e)]) = 0
    BY <1>2, TwoEnds
  <2>2. /\ conduit[e] = NewConduit /\ reader[e] = "length" /\ coordinator[e] = "select"
        /\ session[e] = [state |-> "login", compressed |-> FALSE] /\ queue[e] = <<>>
        /\ stopping[e] = FALSE /\ cause[e] = "none" /\ answer[e] = "none" /\ expired[e] = FALSE
        /\ outcome[e] = "none"
    BY DEF Init
  <2>3. todo[e] = Rest(e, 0)
    <3>1. todo[e] = IF e = "client" THEN NegotiatorScript ELSE AcceptorScript
      BY DEF Init
    <3> QED BY <3>1, ScriptsBegin DEF Ends
  <2>4. QueueInv(e, 0, 0)
    BY <2>1, <2>2 DEF QueueInv
  <2>5. Begun(e) = 0
    BY <2>2 DEF Begun
  <2>6. Flow(e) = <<>> /\ Len(Flow(e)) = 0 /\ conduit[e].pending = 0 /\ Len(conduit[e].buffered) = 0
    <3>1. Flow(e) = FlowOf(NewConduit)
      BY <2>2, Zenon DEF Flow, FlowOf
    <3>2. conduit[e].pending = 0 /\ conduit[e].buffered = <<>>
      BY <2>2, ConduitBegins
    <3> QED BY <3>1, <3>2, ConduitBegins
  <2>7. FlowInv(e, 0)
    BY <2>1, <2>2, <2>5, <2>6 DEF FlowInv
  <2>8. LogInv(e)
    BY <1>2, <2>2 DEF LogInv
  <2>9. StopInv(e) /\ CallInv(e)
    BY <2>2 DEF StopInv, CallInv
  <2>10. Good(Peer(e)) = 0
    BY <1>2, <2>1 DEF Good
  <2>11. PlaceInv(e, 0, 0)
    BY <1>2, <2>2, <2>3, <2>10, ScriptsBegin, NothingYet DEF PlaceInv, Failed
  <2>12. SentInv(e, 0)
    <3>1. Extra(e, 0) = 0
      BY <1>2, NothingYet DEF Extra
    <3> QED BY <2>2, <3>1 DEF SentInv
  <2>13. SessionInv(e, 0)
    <3>1. Said(e) = 0 /\ Heard(e, 0) = 0
      BY <1>2, <2>1, <2>2, <2>10 DEF Said, Heard, Good, AtMost
    <3>2. Moved(e, 0, 0) = 0
      BY DEF Moved
    <3>3. Compresses /\ (IF e = "client" THEN 0 ELSE 0) >= 1 + Keyed <=> FALSE
      BY NothingYet
    <3>4. SessionAt(e, 0, 0) = [state |-> "login", compressed |-> FALSE]
      BY <3>2, <3>3, NothingYet DEF SessionAt
    <3> QED BY <2>2, <3>1, <3>4 DEF SessionInv, SessionOf
  <2>14. CipherInv(e, 0)
    <3>1. ~Switched(e, 0, 3) /\ ~Switched(e, 0, 5)
      BY DEF Switched
    <3>2. conduit[e].decrypt = FALSE /\ conduit[e].encrypt = FALSE
      BY <2>2, ConduitBegins
    <3> QED BY <3>1, <3>2 DEF CipherInv
  <2> QED BY <2>4, <2>7, <2>8, <2>9, <2>11, <2>12, <2>13, <2>14 DEF CoreOf
<1>4. HeldInv(0, 0)
  BY <1>2 DEF HeldInv
<1>5. \A e \in Ends : zero[e] = 0
  OBVIOUS
<1>6. Core(zero, zero, zero)
  <2>1. ASSUME NEW e \in Ends PROVE CoreOf(e, zero[e], zero[e], zero[e])
    BY <1>3, <1>5, Zenon
  <2>2. HeldInv(zero["client"], zero["server"])
    BY <1>4, <1>5, TwoEnds, Zenon
  <2> QED BY <2>1, <2>2 DEF Core
<1> HIDE DEF zero
<1> QED BY <1>1, <1>6 DEF Kept

(* A step that changes nothing.                                                   *)
LEMMA RestsTyped ==
  ASSUME Typed, UNCHANGED vars
  PROVE  Typed'
<1>1. UNCHANGED <<setting, conduit, reader, framed, coordinator, job, session, queue, stopping, cause, log,
                  todo, answer, expired, held, outcome>>
  BY DEF vars, streams, pumps, logins
<1>2. StreamsTyped'
  BY <1>1 DEF Typed, StreamsTyped
<1>3. LoginsTyped'
  BY <1>1 DEF Typed, LoginsTyped, Failed, Calling, Step
<1> QED BY <1>1, <1>2, <1>3 DEF Typed

LEMMA RestsKeep ==
  ASSUME Typed, Kept, UNCHANGED vars
  PROVE  Kept'
<1>1. UNCHANGED <<setting, conduit, reader, framed, coordinator, job, session, queue, stopping, cause, log,
                  todo, answer, expired, held, outcome>>
  BY DEF vars, streams, pumps, logins
<1>2. PICK place \in [Ends -> Nat], read \in [Ends -> Nat], taken \in [Ends -> Nat] : Core(place, read, taken)
  BY DEF Kept
<1>3. Ghosts(place, read, taken)
  BY <1>2 DEF Ghosts
<1>4. PICK e \in Ends : e = "client"
  BY TwoEnds
<1>5. /\ CoreOf(e, place[e], read[e], taken[e])
      /\ CoreOf(Peer(e), place[Peer(e)], read[Peer(e)], taken[Peer(e)])
  BY <1>2, <1>3, Here
<1>6. Untouched(e) /\ Untouched(Peer(e)) /\ (Denied' <=> Denied) /\ Peer(e) \in Ends
  BY <1>1, TwoEnds DEF Untouched, Denied
<1>7. CoreOf(e, place[e], read[e], taken[e])'
  BY <1>1, <1>5, <1>6, UntouchedStays
<1>8. CoreOf(Peer(e), place[Peer(e)], read[Peer(e)], taken[Peer(e)])'
  BY <1>1, <1>5, <1>6, UntouchedStays
<1>9. HeldInv(place["client"], taken["server"])'
  <2>1. HeldInv(place["client"], taken["server"])
    BY <1>2 DEF Core
  <2> QED BY <1>1, <2>1, HeldStays
<1> QED BY <1>3, <1>7, <1>8, <1>9, SameGhosts

(* The inductive invariant.                                                       *)
LoginInv == Typed /\ (Astray \/ Kept)

LEMMA LoginInvStays ==
  ASSUME LoginInv, Next \/ UNCHANGED vars
  PROVE  LoginInv'
<1>1. CASE UNCHANGED vars
  <2>1. Typed'
    BY <1>1, RestsTyped DEF LoginInv
  <2>2. Astray => Astray'
    BY <1>1 DEF vars, streams, pumps, logins, Astray, Failed
  <2> QED BY <1>1, <2>1, <2>2, RestsKeep DEF LoginInv
<1>2. CASE Next
  <2>1. Typed'
    BY <1>2, TypesStay DEF LoginInv
  <2>2. CASE Astray
    BY <1>2, <2>1, <2>2, AstrayStays DEF LoginInv
  <2>3. CASE Kept
    <3>1. PICK place \in [Ends -> Nat], read \in [Ends -> Nat], taken \in [Ends -> Nat] : Core(place, read, taken)
      BY <2>3 DEF Kept
    <3>2. Ghosts(place, read, taken) /\ Typed
      BY <3>1 DEF Ghosts, LoginInv
    <3>3. PICK e \in Ends : StreamRuns(e) \/ LoginRuns(e) \/ Expires(e) \/ HangsUp(e)
      BY <1>2 DEF Next
    <3>4. UNCHANGED setting
      BY <1>2 DEF Next
    <3>5. Astray' \/ Kept'
      <4>1. CASE StreamRuns(e)
        BY <3>1, <3>2, <3>4, <4>1, ReadsTransportKeeps, HandsOutKeeps, ReadFailsKeeps, TakesFrameKeeps,
           TakesWriteKeeps, TransmitsKeeps, WriteFailsKeeps, FinishesWriteKeeps, TakesControlKeeps,
           TakesSnapshotKeeps, CoordinatorEndsKeeps DEF StreamRuns
      <4>2. CASE LoginRuns(e)
        BY <3>1, <3>2, <3>4, <4>2, MakesCallKeeps, CallRejectedKeeps, CallExpiresKeeps, CallReturnsKeeps,
           ServiceReturnsKeeps, ReadReturnsKeeps, ReadReturnsErrorKeeps, LoginReturnsKeeps, CallerClosesKeeps
           DEF LoginRuns
      <4>3. CASE Expires(e)
        BY <3>1, <3>2, <3>4, <4>3, ExpiresKeeps
      <4>4. CASE HangsUp(e)
        BY <3>1, <3>2, <3>4, <4>4, HangsUpKeeps
      <4> QED BY <3>3, <4>1, <4>2, <4>3, <4>4
    <3> QED BY <2>1, <3>5 DEF LoginInv
  <2> QED BY <2>2, <2>3 DEF LoginInv
<1> QED BY <1>1, <1>2
-----------------------------------------------------------------------------
(* What the invariant says of the bytes and of what the ends return.                    *)
LEMMA ClearPackets ==
  ASSUME NEW k \in Nat, k >= 1, Online
  PROVE  /\ PacketOf("client", k) \in Clear <=> k <= 2
         /\ PacketOf("server", k) \in Clear <=> k <= 1
         /\ "disconnect" \notin Clear
<1>1. Keyed = 1 /\ Shrinks \in {0, 1} /\ Offers \in {0, 1}
  BY SettingNumbers
<1>2. PacketOf("client", k) \in Clear <=> k <= 2
  BY <1>1 DEF PacketOf, Clear
<1>3. PacketOf("server", k) \in Clear <=> k <= 1
  BY <1>1 DEF PacketOf, Clear
<1> QED BY <1>2, <1>3 DEF Clear

LEMMA TypesHold ==
  ASSUME Typed
  PROVE  TypeOK
<1>1. WireUnits \in Nat
  BY LoginAssumption
<1>2. ASSUME NEW e \in Ends
      PROVE  /\ conduit[e].pending \in 0..WireUnits
             /\ {conduit[e].decrypt, conduit[e].encrypt} \subseteq BOOLEAN
             /\ Len(conduit[e].wire) \in 0..WireUnits /\ Len(conduit[e].inHand) \in 0..1
  <2>1. conduit[e] \in Conduits /\ Fits(conduit[e])
    BY DEF Typed, StreamsTyped
  <2>2. /\ conduit[e].pending \in Nat /\ conduit[e].decrypt \in BOOLEAN /\ conduit[e].encrypt \in BOOLEAN
        /\ conduit[e].wire \in Seq(UnitSet) /\ conduit[e].inHand \in Seq(UnitSet)
    BY <2>1, FlowsAre
  <2> DEFINE p == conduit[e].pending  w == Len(conduit[e].wire)  h == Len(conduit[e].inHand)
  <2>3. p \in Nat /\ w \in Nat /\ h \in Nat
    BY <2>2
  <2>4. p <= WireUnits /\ w <= WireUnits /\ h <= 1
    BY <2>1, Zenon DEF Fits
  <2> HIDE DEF p, w, h
  <2>5. p \in 0..WireUnits /\ w \in 0..WireUnits /\ h \in 0..1
    BY <1>1, <2>3, <2>4
  <2>6. {conduit[e].decrypt, conduit[e].encrypt} \subseteq BOOLEAN
    BY <2>2
  <2> QED BY <2>5, <2>6, Zenon DEF p, w, h
<1>3. StreamsTyped /\ LoginsTyped
  BY DEF Typed
<1> QED BY <1>2, <1>3 DEF TypeOK, StreamsTyped, LoginsTyped, Causes, Answers, Outcomes

LEMMA Undisturbed ==
  ASSUME LoginInv, \A e \in Ends : ~expired[e]
  PROVE  /\ Typed
         /\ \E place, read, taken \in [Ends -> Nat] : Core(place, read, taken)
BY TwoEnds DEF LoginInv, Astray, Kept

LEMMA NothingIsGarbled ==
  ASSUME LoginInv
  PROVE  NeverGarbled
<1> SUFFICES ASSUME \A e \in Ends : ~expired[e], NEW e \in Ends
             PROVE  /\ cause[e] # "garbled"
                    /\ \A k \in 1..Len(log[e]) :
                         log[e][k].enciphered <=> Online /\ log[e][k].frame.packet \notin Clear
  BY DEF NeverGarbled
<1>1. PICK place \in [Ends -> Nat], read \in [Ends -> Nat], taken \in [Ends -> Nat] : Core(place, read, taken)
  BY Undisturbed
<1>2. Typed /\ Ghosts(place, read, taken)
  BY <1>1, Undisturbed DEF Ghosts
<1>3. CoreOf(e, place[e], read[e], taken[e]) /\ HeldInv(place["client"], taken["server"])
  BY <1>1, <1>2, Here DEF Core
<1>4. ~expired["client"]
  BY TwoEnds
<1>5. cause[e] # "garbled"
  BY <1>3, <1>4 DEF CoreOf, StopInv
<1>6. held => ~(Len(log["client"]) > 2)
  BY <1>3, <1>4 DEF HeldInv
<1>7. ASSUME NEW k \in 1..Len(log[e])
      PROVE  log[e][k].enciphered <=> Online /\ log[e][k].frame.packet \notin Clear
  <2>1. Len(log[e]) \in Nat /\ Len(log["client"]) \in Nat /\ log[e] \in Seq(Words)
    BY <1>2, LogsAreLong, TwoEnds
  <2>2. k \in Nat /\ k >= 1 /\ k <= Len(log[e]) /\ log[e][k] \in Words
    BY <2>1
  <2>3. log[e][k] = Word(e, k)
    BY <1>3, <1>7 DEF CoreOf, LogInv
  <2>4. log[e][k].frame = FrameOf(e, k) /\ (log[e][k].enciphered <=> CipherOf(e, k))
    BY <2>3 DEF Word, Words
  <2> DEFINE x == FrameOf(e, k).packet  y == log[e][k].enciphered  q == log[e][k].frame.packet
  <2>5. /\ e = "server" /\ k = 2 /\ Denied => x = "disconnect"
        /\ ~(e = "server" /\ k = 2 /\ Denied) => x = PacketOf(e, k)
    BY <2>2, FramesAre
  <2>6. q = x /\ (y <=> CipherOf(e, k))
    BY <2>4
  <2> HIDE DEF x, y, q
  <2>7. CASE ~Online
    BY <2>6, <2>7 DEF CipherOf, y
  <2>8. CASE Online /\ e = "client"
    <3>1. x \in Clear <=> k <= 2
      BY <2>2, <2>5, <2>8, ClearPackets
    <3>2. CipherOf(e, k) <=> k > 2 /\ ~held
      BY <2>8 DEF CipherOf
    <3>3. k > 2 => ~held
      BY <1>6, <2>1, <2>2, <2>8
    <3>4. y <=> x \notin Clear
      BY <2>2, <2>6, <3>1, <3>2, <3>3
    <3> QED BY <2>6, <2>8, <3>4 DEF y, q
  <2>9. CASE Online /\ e = "server"
    <3>1. x \in Clear <=> k <= 1
      <4>1. "disconnect" \notin Clear
        BY DEF Clear
      <4> QED BY <2>2, <2>5, <2>9, <4>1, ClearPackets
    <3>2. CipherOf(e, k) <=> k > 1
      BY <2>9 DEF CipherOf
    <3>3. y <=> x \notin Clear
      BY <2>2, <2>6, <3>1, <3>2
    <3> QED BY <2>6, <2>9, <3>3 DEF y, q
  <2> QED BY <2>7, <2>8, <2>9 DEF Ends
<1> QED BY <1>5, <1>7

LEMMA NothingSurprises ==
  ASSUME LoginInv
  PROVE  NeverSurprised
<1> SUFFICES ASSUME \A e \in Ends : ~expired[e], NEW e \in Ends
             PROVE  outcome[e] \notin {"unexpected", "not_switched", "unencodable", "not_in_play"}
  BY DEF NeverSurprised
<1>1. PICK place \in [Ends -> Nat], read \in [Ends -> Nat], taken \in [Ends -> Nat] : Core(place, read, taken)
  BY Undisturbed
<1>2. PlaceInv(e, place[e], read[e])
  BY <1>1 DEF Core, CoreOf
<1> QED BY <1>2 DEF PlaceInv
-----------------------------------------------------------------------------
(* A behaviour of the logins keeps the invariant, and one of the sessions does not move   *)
(* them.                                                                         *)
LEMMA PartsKeep ==
  ASSUME [PartsNext]_<<part, vars, crossing>>, LoginInv
  PROVE  LoginInv'
<1>1. Next \/ UNCHANGED vars
  BY DEF PartsNext
<1> QED BY <1>1, LoginInvStays

LEMMA PartsLoginInv == PartsSpec => []LoginInv
<1>1. PartsInit => LoginInv
  BY TypesBegin, LoginBegins DEF PartsInit, LoginInv
<1>2. LoginInv /\ [PartsNext]_<<part, vars, crossing>> => LoginInv'
  BY PartsKeep
<1> QED BY <1>1, <1>2, PTL DEF PartsSpec

(* Whatever crosses, and whichever end is ahead, no end of a login reads bytes that a     *)
(* cipher it does not have has changed, or meets a packet it has no place for; nothing    *)
(* of a login is sent in the clear that should not be; and every variable keeps its type  *)
(* (login/negotiator.go, login/acceptor.go, conduit.go).                            *)
THEOREM SpecEndsUnderstandEachOther == PartsSpec => []EndsUnderstandEachOther
<1>1. LoginInv => EndsUnderstandEachOther
  BY TypesHold, NothingIsGarbled, NothingSurprises DEF LoginInv, EndsUnderstandEachOther
<1> QED BY <1>1, PartsLoginInv, PTL
-----------------------------------------------------------------------------
(* What it takes for the client to learn that it has been refused.  A stream of it that   *)
(* is told to stop before the login is over, or a login that has ended for another        *)
(* reason, means that the server cannot refuse it any more, for it waits for an answer    *)
(* that will not come, is past the refusal or has been stopped as well; or that the        *)
(* refusal is already waiting for the client to read it.                             *)
Disturbed == \E e \in Ends : expired[e]
Idle      == todo["client"] = <<>> /\ coordinator["client"] # "writing"
Short     == Len(log["client"]) < 2 /\ (stopping["client"] \/ Idle)
Beyond    == Len(log["server"]) >= 2 /\ ~Refused
Queued    == \E k \in 1..Len(queue["client"]) : queue["client"][k] = "disconnect"
Waiting   == stopping["server"] /\ (Refused => Queued)
Silenced  == stopping["server"] /\ ~Refused

Closable == <<"client", "hangs_up">> \in Faults

StopsInTime == stopping["client"] /\ outcome["client"] = "none" => Short \/ Beyond \/ Waiting
EndsInTime  ==
  outcome["client"] \in {"ended", "authentication"} => Short \/ Beyond \/ Silenced

Learns ==
  Disturbed \/
    /\ \A e \in Ends : ~stopping[e] => cause[e] = "none"
    /\ Denied => <<"verify", "fails">> \in Faults
    /\ outcome["client"] # "expired"
    /\ Closable \/ (StopsInTime /\ EndsInTime)

LEMMA OnlyTheRefusal ==
  ASSUME NEW i \in Nat, i >= 1
  PROVE  FrameOf("server", i).packet = "disconnect" <=> i = 2 /\ Denied
<1>1. PacketOf("server", i) # "disconnect"
  BY DEF PacketOf
<1>2. CASE i = 2 /\ Denied
  <2>1. FrameOf("server", i).packet = "disconnect"
    BY <1>2, FramesAre, TwoEnds
  <2> QED BY <1>2, <2>1
<1>3. CASE ~(i = 2 /\ Denied)
  <2>1. FrameOf("server", i).packet = PacketOf("server", i)
    BY <1>3, FramesAre, TwoEnds
  <2> QED BY <1>1, <1>3, <2>1
<1> QED BY <1>2, <1>3

(* A refusal is the second frame of a server that has denied its client.                *)
LEMMA RefusedMeans ==
  ASSUME Typed, Kept
  PROVE  /\ Refused <=> Denied /\ Len(log["server"]) >= 2
         /\ Refused => Len(log["client"]) >= 2 /\ Len(log["server"]) = 2
         /\ Len(log["client"]) \in Nat /\ Len(log["server"]) \in Nat
<1>1. PICK place \in [Ends -> Nat], read \in [Ends -> Nat], taken \in [Ends -> Nat] : Core(place, read, taken)
  BY DEF Kept
<1>2. Ghosts(place, read, taken)
  BY <1>1 DEF Ghosts
<1> DEFINE c == place["client"]  s == place["server"]  a == Len(log["client"])  b == Len(log["server"])
           i == taken["client"]  j == taken["server"]
<1>3. Between(c, s, a, b, i, j) /\ \A e \in Ends : CoreOf(e, place[e], read[e], taken[e])
  BY <1>1, <1>2, Standing
<1>4. a \in Nat /\ b \in Nat
  BY LogsAreLong, TwoEnds
<1>5. \A k \in 1..b : log["server"][k] = Word("server", k)
  <2>1. LogInv("server")
    BY <1>3, TwoEnds DEF CoreOf
  <2> QED BY <2>1 DEF LogInv
<1> HIDE DEF a, b, c, s, i, j
<1>6. ASSUME NEW k \in 1..b
      PROVE  log["server"][k].frame.packet = "disconnect" <=> k = 2 /\ Denied
  <2>1. k \in Nat /\ k >= 1
    BY <1>4
  <2>2. Word("server", k).frame = FrameOf("server", k)
    BY DEF Word
  <2> QED BY <1>5, <2>1, <2>2, OnlyTheRefusal
<1>7. Refused <=> Denied /\ b >= 2
  <2>1. Refused <=> \E k \in 1..b : log["server"][k].frame.packet = "disconnect"
    BY DEF Refused, b
  <2>2. ASSUME Denied, b >= 2 PROVE Refused
    <3>1. 2 \in 1..b
      BY <1>4, <2>2
    <3> QED BY <1>6, <2>1, <2>2, <3>1
  <2>3. ASSUME Refused PROVE Denied /\ b >= 2
    <3>1. PICK k \in 1..b : k = 2 /\ Denied
      BY <1>6, <2>1, <2>3
    <3> QED BY <1>4, <3>1
  <2> QED BY <2>2, <2>3
<1>8. Denied => a >= 2 /\ b <= 2
  <2>1. SUFFICES ASSUME Denied PROVE a >= 2 /\ b <= 2
    OBVIOUS
  <2>2. s = 4 /\ MayBe("server", s) /\ Had("server", s) <= j /\ j <= a /\ j \in Nat
        /\ (b <= Top("server", s) \/ b <= 2)
    BY <1>3, <2>1 DEF Between
  <2>3. Had("server", 4) = 2 /\ Top("server", 4) = 1
    BY <2>2, ServerProfile
  <2> QED BY <1>4, <2>2, <2>3
<1>9. /\ Refused <=> Denied /\ b >= 2
      /\ Refused => a >= 2 /\ b = 2
      /\ a \in Nat /\ b \in Nat
  BY <1>4, <1>7, <1>8
<1> QED BY <1>9 DEF a, b

(* A client that has a frame to write beyond its second has been let through.            *)
LEMMA WritesBeyond ==
  ASSUME Typed, Kept, coordinator["client"] = "writing", Len(log["client"]) >= 2
  PROVE  Beyond
<1>1. PICK place \in [Ends -> Nat], read \in [Ends -> Nat], taken \in [Ends -> Nat] : Core(place, read, taken)
  BY DEF Kept
<1>2. Ghosts(place, read, taken)
  BY <1>1 DEF Ghosts
<1> DEFINE c == place["client"]  s == place["server"]  a == Len(log["client"])  b == Len(log["server"])
           i == taken["client"]  j == taken["server"]
<1>3. Between(c, s, a, b, i, j) /\ \A e \in Ends : CoreOf(e, place[e], read[e], taken[e])
  BY <1>1, <1>2, Standing
<1>4. a \in Nat /\ b \in Nat
  BY LogsAreLong, TwoEnds
<1>5. SentInv("client", c)
  BY <1>3, TwoEnds DEF CoreOf
<1> HIDE DEF b, c, s, i, j
<1>6. WritesAt("client", c) /\ a - Sent("client", c) = 0
  BY <1>5 DEF SentInv, Extra
<1>7. MayBe("client", c) /\ Had("client", c) <= i /\ i <= b /\ i \in Nat
  BY <1>3 DEF Between
<1>8. Sent("client", c) \in Nat /\ Had("client", c) \in Nat
  BY <1>7, PlacesAreNumbers, TwoEnds
<1>9. a >= 2
  OBVIOUS
<1> HIDE DEF a
<1>10. Sent("client", c) >= 2
  BY <1>4, <1>6, <1>8, <1>9
<1>11. c \in {0, 4, 10, 14, 17, 19} /\ ClientMayBe(c)
  BY <1>6, <1>7 DEF WritesAt, MayBe
<1>12. c >= 10 /\ Had("client", c) >= 2
  BY <1>10, <1>11, SettingNumbers DEF Sent, Had, Past, ClientMayBe
<1>13. b >= 2
  BY <1>4, <1>7, <1>8, <1>12
<1>14. ~Denied
  <2>1. Denied => c <= 7
    BY <1>3, InStep
  <2>2. c \in Nat
    BY <1>11
  <2> QED BY <1>12, <2>1, <2>2
<1>15. ~Refused
  BY <1>14, RefusedMeans
<1> QED BY <1>13, <1>15 DEF Beyond, b

(* With nothing on the way to a client any more, the refusal has reached its queue.        *)
LEMMA RefusalIsQueued ==
  ASSUME Typed, Kept, Refused, outcome["client"] = "none", coordinator["client"] # "over",
         reader["client"] \in {"length", "payload"}, conduit["client"].wire = <<>>,
         conduit["client"].buffered = <<>>, conduit["client"].inHand = <<>>
  PROVE  Queued
<1>1. PICK place \in [Ends -> Nat], read \in [Ends -> Nat], taken \in [Ends -> Nat] : Core(place, read, taken)
  BY DEF Kept
<1>2. Ghosts(place, read, taken)
  BY <1>1 DEF Ghosts
<1> DEFINE c == place["client"]  r == read["client"]  t == taken["client"]
           b == Len(log["server"])  q == queue["client"]  l == Len(q)
<1>3. /\ CoreOf("client", c, r, t) /\ CoreOf("server", place["server"], read["server"], taken["server"])
      /\ c \in Nat /\ r \in Nat /\ t \in Nat
  BY <1>1, <1>2, TwoEnds DEF Core, Ghosts
<1>4. Denied /\ b = 2
  BY RefusedMeans
<1>5. FlowInv("client", t) /\ QueueInv("client", r, t) /\ PlaceInv("client", c, r) /\ LogInv("server")
  BY <1>3 DEF CoreOf
<1>6. Peer("client") = "server"
  BY TwoEnds
<1>7. Begun("client") \in {0, 1}
  BY DEF Begun
<1>8. Len(Flow("client")) = 0
  BY DEF Flow
<1>9. Len(Flow("client")) = 2 * b - (2 * t + Begun("client"))
  BY <1>5, <1>6 DEF FlowInv
<1> DEFINE g == Begun("client")  f == Len(Flow("client"))
<1>10. t = 2
  <2>1. g \in {0, 1} /\ f = 0 /\ f = 2 * b - (2 * t + g) /\ b = 2 /\ t \in Nat
    BY <1>3, <1>4, <1>7, <1>8, <1>9
  <2> HIDE DEF g, f, b, t
  <2> QED BY <2>1
<1>11. r <= 1
  <2>1. r = Had("client", c) + (IF outcome["client"] = "disconnected" THEN 1 ELSE 0)
        /\ Had("client", c) <= Good("server") /\ MayBe("client", c)
    BY <1>5, <1>6 DEF PlaceInv
  <2>2. Good("server") = 1
    BY <1>4 DEF Good
  <2>3. Had("client", c) \in Nat
    BY <2>1, PlacesAreNumbers, TwoEnds
  <2> QED BY <2>1, <2>2, <2>3
<1>12. l = t - r /\ \A k \in 1..l : q[k] = log["server"][r + k].frame.packet
  BY <1>5, <1>6 DEF QueueInv
<1>13. PICK k : k = 2 - r
  OBVIOUS
<1>14. k \in 1..l /\ r + k = 2
  <2> HIDE DEF l, r, t
  <2> QED BY <1>3, <1>10, <1>11, <1>12, <1>13
<1>15. log["server"][2].frame.packet = "disconnect"
  <2>1. 2 \in 1..b
    <3> HIDE DEF b
    <3> QED BY <1>4
  <2>2. log["server"][2] = Word("server", 2)
    BY <1>5, <2>1 DEF LogInv
  <2>3. Word("server", 2).frame = FrameOf("server", 2)
    BY DEF Word
  <2>4. FrameOf("server", 2).packet = "disconnect"
    BY <1>4, OnlyTheRefusal
  <2> QED BY <2>2, <2>3, <2>4
<1>16. q[k] = "disconnect"
  BY <1>12, <1>14, <1>15
<1> QED BY <1>14, <1>16 DEF Queued

(* No call that fails ends the login of a client that has been refused.                *)
LEMMA RefusedGoesOn ==
  ASSUME Typed, Kept, Refused, outcome["client"] = "none", answer["client"] \in {"rejected", "failed"}
  PROVE  OutboundSwitchLost("client")
<1>1. PICK place \in [Ends -> Nat], read \in [Ends -> Nat], taken \in [Ends -> Nat] : Core(place, read, taken)
  BY DEF Kept
<1>2. Ghosts(place, read, taken)
  BY <1>1 DEF Ghosts
<1> DEFINE c == place["client"]  r == read["client"]  t == taken["client"]  a == Len(log["client"])
<1>3. Between(c, place["server"], a, Len(log["server"]), t, taken["server"])
      /\ \A e \in Ends : CoreOf(e, place[e], read[e], taken[e])
  BY <1>1, <1>2, Standing
<1>4. CoreOf("client", c, r, t)
  BY <1>3, TwoEnds
<1>5. SentInv("client", c) /\ PlaceInv("client", c, r)
  BY <1>4 DEF CoreOf
<1>6. Denied /\ a >= 2 /\ a \in Nat
  BY RefusedMeans
<1>7. Calling("client")
  BY TwoEnds DEF Typed, LoginsTyped
<1>8. todo["client"] # <<>> /\ Step("client")[1] \in {"write", "control", "snapshot"}
  BY <1>7 DEF Calling
<1>9. a - Sent("client", c) = 0
  BY <1>5, <1>8 DEF SentInv, Extra
<1>10. c \notin Last("client") /\ Step("client") = StepAt("client", c) /\ MayBe("client", c)
  <2>1. ~Failed("client")
    BY DEF Failed
  <2> HIDE DEF c, r
  <2>2. "client" \in Ends
    BY TwoEnds
  <2>3. c \notin Last("client") /\ Step("client") = StepAt("client", c)
    BY <1>5, <1>8, <2>1, <2>2, Ahead
  <2> QED BY <1>5, <2>3 DEF PlaceInv
<1>11. c <= 7
  BY <1>3, <1>6, InStep
<1> HIDE DEF c, r, t, a
<1>12. Sent("client", c) \in Nat
  BY <1>10, PlacesAreNumbers, TwoEnds
<1>13. Sent("client", c) >= 2
  BY <1>6, <1>9, <1>12
<1>14. c \in 0..20
  BY <1>10 DEF MayBe, Places
<1>15. c \in 5..7
  <2>1. c <= 4 => Sent("client", c) <= 1
    BY <1>14, SettingNumbers DEF Sent, Past
  <2> QED BY <1>11, <1>12, <1>13, <1>14, <2>1
<1>16. c = 5
  <2>1. ~WritesAt("client", c)
    BY <1>15 DEF WritesAt
  <2>2. StepAt("client", c)[1] \in {"write", "control", "snapshot"}
    BY <1>8, <1>10
  <2> QED BY <1>10, <1>15, <2>1, <2>2, KindsOfSteps, TwoEnds
<1>17. StepAt("client", 5) = Control("outbound")
  BY DEF StepAt, ClientStep
<1> QED BY <1>10, <1>16, <1>17 DEF OutboundSwitchLost

(* A client that asks the session service has written one frame.                      *)
LEMMA JoinsEarly ==
  ASSUME Typed, Kept, Doing("client", "service")
  PROVE  Len(log["client"]) < 2 /\ coordinator["client"] # "writing"
<1>1. PICK place \in [Ends -> Nat], read \in [Ends -> Nat], taken \in [Ends -> Nat] : Core(place, read, taken)
  BY DEF Kept
<1> DEFINE c == place["client"]  r == read["client"]  t == taken["client"]  a == Len(log["client"])
<1>2. CoreOf("client", c, r, t) /\ "client" \in Ends
  BY <1>1, TwoEnds DEF Core
<1>3. SentInv("client", c) /\ PlaceInv("client", c, r) /\ CallInv("client")
  BY <1>2 DEF CoreOf
<1>4. answer["client"] = "none" /\ todo["client"] # <<>> /\ MayBe("client", c) /\ c = 2
      /\ Step("client")[1] = "service"
  <2>1. PlaceInv("client", c, r) /\ Doing("client", "service")
    BY <1>3
  <2> HIDE DEF c, r
  <2> QED BY <1>2, <2>1, AtService
<1>5. a - Sent("client", c) = 0
  BY <1>3, <1>4 DEF SentInv, Extra
<1>6. a \in Nat
  BY LogsAreLong, TwoEnds
<1> HIDE DEF a
<1>7. Sent("client", c) = 1
  BY <1>4, SettingNumbers DEF Sent, Past
<1>8. coordinator["client"] # "writing"
  BY <1>3, <1>4 DEF CallInv, Doing
<1> QED BY <1>5, <1>6, <1>7, <1>8 DEF a

(* What a login that is not over, and one that is, has left.                          *)
LEMMA OutcomesAre ==
  ASSUME Typed, Kept
  PROVE  /\ outcome["client"] \in {"none", "ok", "ended", "expired", "authentication", "disconnected"}
         /\ outcome["client"] = "none" => todo["client"] # <<>>
         /\ outcome["client"] = "ok" => ~Denied
         /\ \A e \in Ends : StopInv(e)
<1>1. PICK place \in [Ends -> Nat], read \in [Ends -> Nat], taken \in [Ends -> Nat] : Core(place, read, taken)
  BY DEF Kept
<1>2. Ghosts(place, read, taken)
  BY <1>1 DEF Ghosts
<1> DEFINE c == place["client"]  r == read["client"]
<1>3. Between(c, place["server"], Len(log["client"]), Len(log["server"]), taken["client"], taken["server"])
      /\ \A e \in Ends : CoreOf(e, place[e], read[e], taken[e])
  BY <1>1, <1>2, Standing
<1>4. PlaceInv("client", c, r)
  BY <1>3, TwoEnds DEF CoreOf
<1>5. Denied => c <= 7
  BY <1>3, InStep
<1> HIDE DEF c, r
<1>6. outcome["client"] = "ok" => ~Denied
  BY <1>4, <1>5 DEF PlaceInv, Finished
<1>7. outcome["client"] = "none" => todo["client"] # <<>>
  <2>1. SUFFICES ASSUME outcome["client"] = "none" PROVE todo["client"] # <<>>
    OBVIOUS
  <2>2. MayBe("client", c) /\ todo["client"] = ClientRest(c) /\ c \notin Last("client")
    BY <1>4, <2>1 DEF PlaceInv, Finished, Last, Rest
  <2> QED BY <2>2, ClientSteps DEF Leads
<1> QED BY <1>3, <1>4, <1>6, <1>7 DEF PlaceInv, CoreOf

(* A step stops a stream for a reason, and adds a frame only to what a stream writes that  *)
(* has not been stopped.                                                           *)
LEMMA StreamsStop ==
  ASSUME Typed, Next, NEW x \in Ends
  PROVE  /\ stopping[x] => stopping'[x]
         /\ stopping'[x] \/ (~stopping[x] /\ cause'[x] = cause[x])
         /\ expired[x] => expired'[x]
<1>1. PICK e \in Ends : StreamRuns(e) \/ LoginRuns(e) \/ Expires(e) \/ HangsUp(e)
  BY DEF Next
<1>2. stopping \in [Ends -> BOOLEAN] /\ cause \in [Ends -> Causes] /\ expired \in [Ends -> BOOLEAN]
  BY DEF Typed, StreamsTyped, LoginsTyped
<1>3. ASSUME NEW y \in Ends, NEW why, Stop(y, why)
      PROVE  /\ stopping[x] => stopping'[x]
             /\ stopping'[x] \/ (~stopping[x] /\ cause'[x] = cause[x])
  BY <1>2, <1>3 DEF Stop
<1>4. UNCHANGED <<stopping, cause>> \/ \E y \in Ends, why \in Causes : Stop(y, why)
  <2>1. CASE StreamRuns(e)
    BY <2>1 DEF StreamRuns, ReadsTransport, HandsOut, ReadFails, TakesFrame, TakesWrite, Transmits, WriteFails,
       FinishesWrite, TakesControl, TakesSnapshot, CoordinatorEnds, streams, Causes
  <2>2. CASE LoginRuns(e)
    BY <2>2 DEF LoginRuns, MakesCall, CallRejected, CallExpires, CallReturns, ServiceReturns, ReadReturns,
       ReadReturnsError, LoginReturns, CallerCloses, streams, Causes
  <2>3. CASE Expires(e) \/ HangsUp(e)
    BY <2>3 DEF Expires, HangsUp, streams, Causes
  <2> QED BY <1>1, <2>1, <2>2, <2>3
<1>5. expired' = expired \/ \E y \in Ends : expired' = [expired EXCEPT ![y] = TRUE]
  BY <1>1 DEF StreamRuns, LoginRuns, Expires, HangsUp, ReadsTransport, HandsOut, ReadFails,
     TakesFrame, TakesWrite, Transmits, WriteFails, FinishesWrite, TakesControl, TakesSnapshot, CoordinatorEnds,
     MakesCall, CallRejected, CallExpires, CallReturns, ServiceReturns, ReadReturns, ReadReturnsError,
     LoginReturns, CallerCloses, logins
<1>6. expired[x] => expired'[x]
  BY <1>2, <1>5
<1>7. /\ stopping[x] => stopping'[x]
      /\ stopping'[x] \/ (~stopping[x] /\ cause'[x] = cause[x])
  BY <1>3, <1>4
<1> QED BY <1>6, <1>7

LEMMA LogsGrow ==
  ASSUME Typed, Next, NEW x \in Ends
  PROVE  \/ log'[x] = log[x]
         \/ /\ ~stopping[x] /\ coordinator[x] = "writing" /\ Len(log'[x]) = Len(log[x]) + 1
            /\ outcome' = outcome /\ UNCHANGED <<stopping, queue>>
<1>1. PICK e \in Ends : StreamRuns(e) \/ LoginRuns(e) \/ Expires(e) \/ HangsUp(e)
  BY DEF Next
<1>2. log' = log \/ Transmits(e)
  <2>1. CASE StreamRuns(e)
    BY <2>1 DEF StreamRuns, ReadsTransport, HandsOut, ReadFails, TakesFrame, TakesWrite, WriteFails,
       FinishesWrite, TakesControl, TakesSnapshot, CoordinatorEnds, streams
  <2>2. CASE LoginRuns(e)
    BY <2>2 DEF LoginRuns, MakesCall, CallRejected, CallExpires, CallReturns, ServiceReturns, ReadReturns,
       ReadReturnsError, LoginReturns, CallerCloses, streams
  <2>3. CASE Expires(e) \/ HangsUp(e)
    BY <2>3 DEF Expires, HangsUp, streams
  <2> QED BY <1>1, <2>1, <2>2, <2>3
<1>3. ASSUME Transmits(e), x = e
      PROVE  /\ ~stopping[x] /\ coordinator[x] = "writing" /\ Len(log'[x]) = Len(log[x]) + 1
             /\ outcome' = outcome /\ UNCHANGED <<stopping, queue>>
  <2> DEFINE w == [frame |-> job[e], enciphered |-> conduit[e].encrypt]
  <2>1. log' = [log EXCEPT ![e] = Append(@, w)] /\ log \in [Ends -> Seq(Words)]
    BY <1>3 DEF Transmits, Typed, StreamsTyped
  <2> HIDE DEF w
  <2>2. log'[x] = Append(log[x], w) /\ log[x] \in Seq(Words)
    BY <1>3, <2>1
  <2>3. Len(log'[x]) = Len(log[x]) + 1
    BY <2>2
  <2> QED BY <1>3, <2>3 DEF Transmits, logins
<1>4. Transmits(e) /\ x # e => log'[x] = log[x]
  BY DEF Transmits, Typed, StreamsTyped
<1> QED BY <1>2, <1>3, <1>4

(* A login function that has nothing left to do gets nothing more.                     *)
LEMMA IdleStays ==
  ASSUME Typed, Next, Idle
  PROVE  Idle'
<1>1. PICK e \in Ends : StreamRuns(e) \/ LoginRuns(e) \/ Expires(e) \/ HangsUp(e)
  BY DEF Next
<1>2. todo["client"] = <<>> /\ coordinator["client"] # "writing" /\ answer["client"] = "none"
  BY TwoEnds DEF Idle, Typed, LoginsTyped, Calling
<1>3. todo \in [Ends -> Seq(Steps)] /\ coordinator \in [Ends -> {"select", "writing", "written", "over"}]
  BY DEF Typed, LoginsTyped, StreamsTyped
<1>4. todo'["client"] = <<>>
  <2>1. CASE e = "client"
    <3>1. ~Doing(e, "service") /\ ~Doing(e, "read") /\ ~Doing(e, "return") /\ answer[e] = "none"
      BY <1>2, <2>1 DEF Doing
    <3>2. todo' = todo
      BY <1>1, <3>1 DEF StreamRuns, LoginRuns, Expires, HangsUp, ReadsTransport, HandsOut, ReadFails,
         TakesFrame, TakesWrite, Transmits, WriteFails, FinishesWrite, TakesControl, TakesSnapshot,
         CoordinatorEnds, MakesCall, CallRejected, CallExpires, CallReturns, ServiceReturns, ReadReturns,
         ReadReturnsError, LoginReturns, CallerCloses, logins
    <3> QED BY <1>2, <3>2
  <2>2. CASE e = "server"
    <3>1. todo' = todo \/ \E s : todo' = [todo EXCEPT !["server"] = s]
      BY <1>1, <2>2 DEF StreamRuns, LoginRuns, Expires, HangsUp, ReadsTransport, HandsOut, ReadFails,
         TakesFrame, TakesWrite, Transmits, WriteFails, FinishesWrite, TakesControl, TakesSnapshot,
         CoordinatorEnds, MakesCall, CallRejected, CallExpires, CallReturns, ServiceReturns, ReadReturns,
         ReadReturnsError, LoginReturns, CallerCloses, logins, Goes, Fails, AcceptorTakes
    <3> QED BY <1>2, <1>3, <3>1, TwoEnds
  <2> QED BY <2>1, <2>2, TwoEnds
<1>5. coordinator'["client"] # "writing"
  <2>1. ~Asks("client", "write")
    BY <1>2 DEF Asks
  <2>2. CASE StreamRuns(e)
    BY <1>2, <1>3, <2>1, <2>2, TwoEnds DEF StreamRuns, ReadsTransport, HandsOut, ReadFails, TakesFrame, TakesWrite,
       Transmits, WriteFails, FinishesWrite, TakesControl, TakesSnapshot, CoordinatorEnds, streams
  <2>3. CASE LoginRuns(e) \/ Expires(e) \/ HangsUp(e)
    BY <1>2, <2>3 DEF LoginRuns, MakesCall, CallRejected, CallExpires, CallReturns, ServiceReturns, ReadReturns,
       ReadReturnsError, LoginReturns, CallerCloses, Expires, HangsUp, streams
  <2> QED BY <1>1, <2>2, <2>3
<1> QED BY <1>4, <1>5 DEF Idle

(* Whatever has told the client apart from a refusal goes on doing so.                  *)
Known ==
  /\ Refused <=> Denied /\ Len(log["server"]) >= 2
  /\ cause["client"] = "garbled" => expired["client"]

LEMMA KnownOfLogins ==
  ASSUME LoginInv
  PROVE  Disturbed \/ Known
<1>1. SUFFICES ASSUME ~Disturbed PROVE Known
  OBVIOUS
<1>2. Typed /\ Kept
  BY <1>1, TwoEnds DEF LoginInv, Astray, Disturbed
<1>3. \A e \in Ends : StopInv(e)
  BY <1>2, OutcomesAre
<1> QED BY <1>2, <1>3, RefusedMeans, TwoEnds DEF Known, StopInv

LEMMA RefusedByLog ==
  ASSUME log'["server"] = log["server"]
  PROVE  Refused' <=> Refused
BY DEF Refused

LEMMA AnswersStay ==
  ASSUME Typed, Kept, Known', Next
  PROVE  (Short => Short') /\ (Beyond => Beyond') /\ (Silenced => Silenced')
<1>1. Short => Short'
  <2>1. SUFFICES ASSUME Short PROVE Short'
    OBVIOUS
  <2>2. stopping["client"] \/ coordinator["client"] # "writing"
    BY <2>1 DEF Short, Idle
  <2>3. log'["client"] = log["client"]
    BY <2>2, LogsGrow, TwoEnds
  <2>4. stopping["client"] => stopping'["client"]
    BY StreamsStop, TwoEnds
  <2> QED BY <2>1, <2>3, <2>4, IdleStays DEF Short
<1>2. Silenced => Silenced'
  <2>1. SUFFICES ASSUME Silenced PROVE Silenced'
    OBVIOUS
  <2>2. log'["server"] = log["server"] /\ stopping'["server"]
    BY <2>1, LogsGrow, StreamsStop, TwoEnds DEF Silenced
  <2> QED BY <2>1, <2>2, RefusedByLog DEF Silenced
<1>3. Beyond => Beyond'
  <2>1. SUFFICES ASSUME Beyond PROVE Beyond'
    OBVIOUS
  <2>2. CASE log'["server"] = log["server"]
    BY <2>1, <2>2, RefusedByLog DEF Beyond
  <2>3. CASE log'["server"] # log["server"]
    <3>1. Len(log'["server"]) = Len(log["server"]) + 1 /\ outcome' = outcome
      BY <2>3, LogsGrow, TwoEnds
    <3>2. ~Denied
      BY <2>1, RefusedMeans DEF Beyond
    <3>3. ~Denied'
      BY <3>1, <3>2 DEF Denied
    <3>4. ~Refused'
      BY <3>3 DEF Known
    <3> DEFINE b == Len(log["server"])  d == Len(log'["server"])
    <3>5. b \in Nat /\ b >= 2 /\ d = b + 1
      BY <2>1, <3>1, RefusedMeans DEF Beyond
    <3> HIDE DEF b, d
    <3>6. d >= 2
      BY <3>5
    <3> QED BY <3>4, <3>6 DEF Beyond, d
  <2> QED BY <2>2, <2>3
<1> QED BY <1>1, <1>2, <1>3

(* A refusal that waits for the client is not lost: reading it ends the login.            *)
LEMMA QueuedStays ==
  ASSUME Typed, Next, Queued, outcome'["client"] = "none"
  PROVE  Queued'
<1>1. PICK e \in Ends : StreamRuns(e) \/ LoginRuns(e) \/ Expires(e) \/ HangsUp(e)
  BY DEF Next
<1>2. "client" \in Ends /\ queue \in [Ends -> Seq(Packets)] /\ queue["client"] \in Seq(Packets)
  BY TwoEnds DEF Typed, StreamsTyped
<1>3. PICK k \in 1..Len(queue["client"]) : queue["client"][k] = "disconnect"
  BY DEF Queued
<1> DEFINE q == queue["client"]
<1>4. \/ queue'["client"] = q
      \/ \E p \in Packets : queue'["client"] = Append(q, p)
      \/ q # <<>> /\ queue'["client"] = Tail(q) /\ NegotiatorTakes(Head(q))
  <2>1. queue' = queue \/ TakesFrame(e) \/ ReadReturns(e)
    <3>1. CASE StreamRuns(e)
      BY <3>1 DEF StreamRuns, ReadsTransport, HandsOut, ReadFails, TakesWrite, Transmits, WriteFails,
         FinishesWrite, TakesControl, TakesSnapshot, CoordinatorEnds, streams
    <3>2. CASE LoginRuns(e)
      BY <3>2 DEF LoginRuns, MakesCall, CallRejected, CallExpires, CallReturns, ServiceReturns,
         ReadReturnsError, LoginReturns, CallerCloses, streams
    <3>3. CASE Expires(e) \/ HangsUp(e)
      BY <3>3 DEF Expires, HangsUp, streams
    <3> QED BY <1>1, <3>1, <3>2, <3>3
  <2>2. CASE TakesFrame(e)
    <3> DEFINE p == framed[e].packet
    <3>1. queue' = queue \/ (Legible(session[e], framed[e]) /\ queue' = [queue EXCEPT ![e] = Append(@, p)])
      BY <2>2 DEF TakesFrame
    <3>2. Legible(session[e], framed[e]) => p \in Packets
      <4>1. framed[e] \in Frames \cup {Garbage}
        BY <2>2 DEF TakesFrame, Typed, StreamsTyped
      <4> QED BY <4>1 DEF Legible, Frames
    <3> HIDE DEF p
    <3>3. queue' = queue \/ (p \in Packets /\ queue'[e] = Append(queue[e], p)
                              /\ \A x \in Ends : x # e => queue'[x] = queue[x])
      BY <1>2, <3>1, <3>2
    <3> QED BY <1>2, <3>3
  <2>3. CASE ReadReturns(e)
    <3>1. e # "client" => queue'["client"] = q
      BY <1>2, <2>3 DEF ReadReturns
    <3>2. e = "client" => q # <<>> /\ queue'["client"] = Tail(q) /\ NegotiatorTakes(Head(q))
      BY <1>2, <2>3 DEF ReadReturns
    <3> QED BY <3>1, <3>2
  <2> QED BY <2>1, <2>2, <2>3
<1> HIDE DEF q
<1>5. q \in Seq(Packets) /\ k \in 1..Len(q) /\ q[k] = "disconnect"
  BY <1>2, <1>3 DEF q
<1>6. CASE queue'["client"] = q
  BY <1>5, <1>6 DEF Queued
<1>7. CASE \E p \in Packets : queue'["client"] = Append(q, p)
  <2>1. PICK p \in Packets : queue'["client"] = Append(q, p)
    BY <1>7
  <2>2. Len(queue'["client"]) = Len(q) + 1 /\ queue'["client"][k] = q[k]
    BY <1>5, <2>1, Appended
  <2> DEFINE l == Len(q)  m == Len(queue'["client"])
  <2>3. k \in 1..l /\ l \in Nat /\ m = l + 1
    BY <1>5, <2>2
  <2> HIDE DEF l, m
  <2>4. k \in 1..m
    BY <2>3
  <2> QED BY <1>5, <2>2, <2>4 DEF Queued, m
<1>8. CASE q # <<>> /\ queue'["client"] = Tail(q) /\ NegotiatorTakes(Head(q))
  <2>1. Head(q) # "disconnect"
    <3>1. SUFFICES ASSUME Head(q) = "disconnect" PROVE FALSE
      OBVIOUS
    <3>2. Fails("client", "disconnected")
      BY <1>8, <3>1 DEF NegotiatorTakes
    <3>3. outcome' = [outcome EXCEPT !["client"] = IF @ = "none" THEN "disconnected" ELSE @]
          /\ outcome \in [Ends -> Outcomes]
      BY <3>2 DEF Fails, Typed, LoginsTyped
    <3> QED BY <1>2, <3>3
  <2>2. /\ Len(Tail(q)) = Len(q) - 1 /\ Len(q) \in Nat \ {0} /\ Head(q) = q[1]
        /\ \A i \in 1..(Len(q) - 1) : Tail(q)[i] = q[i + 1]
    BY <1>5, <1>8, RestOf
  <2> DEFINE l == Len(q)  m == Len(Tail(q))
  <2>3. k \in 1..l /\ l \in Nat /\ m = l - 1 /\ k # 1
    BY <1>5, <2>1, <2>2
  <2>4. PICK j : j = k - 1
    OBVIOUS
  <2> HIDE DEF l, m
  <2>5. j \in 1..m /\ j + 1 = k /\ m = l - 1
    BY <2>3, <2>4
  <2>6. Tail(q)[j] = q[j + 1]
    BY <2>2, <2>5 DEF l
  <2>7. queue'["client"][j] = "disconnect" /\ j \in 1..Len(queue'["client"])
    BY <1>5, <1>8, <2>5, <2>6 DEF m
  <2> QED BY <2>7 DEF Queued
<1> QED BY <1>4, <1>6, <1>7, <1>8

(* Why a login function ends.                                                    *)
Unanswered(e) ==
  \/ answer[e] \in {"rejected", "failed"} /\ ~OutboundSwitchLost(e)
  \/ coordinator[e] = "over" /\ queue[e] = <<>>

LEMMA OutcomesCome ==
  ASSUME Typed, Kept, ~Disturbed, Next, NEW x \in Ends, outcome'[x] # outcome[x]
  PROVE  \/ outcome'[x] \notin {"ended", "authentication", "expired"}
         \/ x = "server" /\ outcome'[x] = "authentication" /\ <<"verify", "fails">> \in Faults
         \/ outcome'[x] = "ended" /\ outcome[x] = "none" /\ Unanswered(x)
         \/ /\ x = "client" /\ outcome'[x] = "authentication" /\ Doing(x, "service")
            /\ todo'[x] = <<>> /\ coordinator'[x] = coordinator[x]
<1>1. PICK e \in Ends : StreamRuns(e) \/ LoginRuns(e) \/ Expires(e) \/ HangsUp(e)
  BY DEF Next
<1>2. outcome \in [Ends -> Outcomes] /\ answer \in [Ends -> Answers] /\ todo \in [Ends -> Seq(Steps)]
  BY DEF Typed, LoginsTyped
<1>3. PICK place \in [Ends -> Nat], read \in [Ends -> Nat], taken \in [Ends -> Nat] : Core(place, read, taken)
  BY DEF Kept
<1>4. /\ PlaceInv(e, place[e], read[e]) /\ StopInv(e)
  BY <1>3 DEF Core, CoreOf
<1>5. answer[e] # "expired" /\ ~expired[e]
  BY <1>4 DEF StopInv, Disturbed
<1>6. ASSUME NEW why, Fails(e, why)
      PROVE  x = e /\ outcome[x] = "none" /\ outcome'[x] = why
  BY <1>2, <1>6 DEF Fails
<1>7. CASE StreamRuns(e) \/ Expires(e) \/ HangsUp(e)
  BY <1>7 DEF StreamRuns, Expires, HangsUp, ReadsTransport, HandsOut, ReadFails, TakesFrame, TakesWrite, Transmits,
     WriteFails, FinishesWrite, TakesControl, TakesSnapshot, CoordinatorEnds, logins
<1>8. CASE MakesCall(e) \/ CallRejected(e) \/ CallExpires(e) \/ CallerCloses(e)
  BY <1>8 DEF MakesCall, CallRejected, CallExpires, CallerCloses, logins
<1>9. CASE CallReturns(e)
  <2>1. ~OutboundSwitchLost(e) /\ Fails(e, Reason(answer[e]))
    BY <1>9 DEF CallReturns, Goes
  <2>2. x = e /\ outcome[x] = "none" /\ outcome'[x] = Reason(answer[e])
    BY <1>6, <2>1
  <2>3. answer[e] \in Answers /\ answer[e] # "expired"
    BY <1>2, <1>5
  <2>4. answer[e] \in {"rejected", "failed"} \/ Reason(answer[e]) \notin {"ended", "authentication", "expired"}
    BY <2>3 DEF Reason, Answers
  <2>5. answer[e] \in {"rejected", "failed"} => Reason(answer[e]) = "ended"
    BY DEF Reason
  <2> QED BY <2>1, <2>2, <2>4, <2>5 DEF Unanswered
<1>10. CASE ServiceReturns(e)
  <2>1. Doing(e, "service") /\ <<Step(e)[2], "fails">> \in Faults /\ Fails(e, "authentication")
        /\ coordinator' = coordinator
    BY <1>5, <1>10 DEF ServiceReturns, Goes, streams
  <2>2. x = e /\ outcome'[x] = "authentication"
    BY <1>6, <2>1
  <2>3. CASE e = "client"
    <3>1. ~InKeyExchange(e)
      BY <2>3 DEF InKeyExchange
    <3>2. todo'[e] = <<>>
      BY <1>2, <2>1, <3>1 DEF Fails
    <3> QED BY <2>1, <2>2, <2>3, <3>2
  <2>4. CASE e = "server"
    <3>1. PlaceInv(e, place[e], read[e]) /\ Doing(e, "service")
      BY <1>4, <2>1
    <3> DEFINE n == place[e]  r == read[e]
    <3>2. PlaceInv(e, n, r) /\ Doing(e, "service")
      BY <3>1
    <3> HIDE DEF n, r
    <3>3. n = (IF e = "client" THEN 2 ELSE 4) /\ Step(e) = StepAt(e, n)
      BY <3>2, AtService
    <3>4. Step(e) = Verify
      BY <2>4, <3>3 DEF StepAt, ServerStep
    <3>5. Step(e)[2] = "verify"
      BY <3>4 DEF Verify
    <3> QED BY <2>1, <2>2, <2>4, <3>5
  <2> QED BY <2>3, <2>4, TwoEnds
<1>11. CASE ReadReturns(e)
  <2>1. outcome' = outcome \/ Fails(e, "disconnected") \/ Fails(e, "unexpected")
    <3>1. CASE e = "client"
      BY <1>11, <3>1 DEF ReadReturns, NegotiatorTakes
    <3>2. CASE e = "server"
      BY <1>11, <3>2 DEF ReadReturns, AcceptorTakes, Goes
    <3> QED BY <3>1, <3>2, TwoEnds
  <2> QED BY <1>6, <2>1
<1>12. CASE ReadReturnsError(e)
  <2>1. coordinator[e] = "over" /\ queue[e] = <<>> /\ Fails(e, "ended")
    BY <1>5, <1>12 DEF ReadReturnsError
  <2> QED BY <1>6, <2>1 DEF Unanswered
<1>13. CASE LoginReturns(e)
  <2>1. outcome'[x] = "ok"
    BY <1>2, <1>13 DEF LoginReturns
  <2> QED BY <2>1
<1> QED BY <1>1, <1>7, <1>8, <1>9, <1>10, <1>11, <1>12, <1>13 DEF LoginRuns

(* A login function that has returned does not come back.                            *)
LEMMA OutcomesLast ==
  ASSUME Typed, Next, NEW x \in Ends, outcome'[x] = "none"
  PROVE  outcome[x] = "none"
<1>1. PICK e \in Ends : StreamRuns(e) \/ LoginRuns(e) \/ Expires(e) \/ HangsUp(e)
  BY DEF Next
<1>2. outcome \in [Ends -> Outcomes]
  BY DEF Typed, LoginsTyped
<1>3. ASSUME NEW why, Fails(e, why)
      PROVE  outcome[x] = "none"
  BY <1>2, <1>3 DEF Fails
<1>4. CASE StreamRuns(e) \/ Expires(e) \/ HangsUp(e)
  BY <1>4 DEF StreamRuns, Expires, HangsUp, ReadsTransport, HandsOut, ReadFails, TakesFrame, TakesWrite, Transmits,
     WriteFails, FinishesWrite, TakesControl, TakesSnapshot, CoordinatorEnds, logins
<1>5. CASE LoginRuns(e) /\ ~ReadReturns(e) /\ ~LoginReturns(e)
  BY <1>3, <1>5 DEF LoginRuns, MakesCall, CallRejected, CallExpires, CallReturns, ServiceReturns,
     ReadReturnsError, CallerCloses, logins, Goes
<1>6. CASE LoginReturns(e)
  BY <1>2, <1>6 DEF LoginReturns
<1>7. CASE ReadReturns(e)
  <2>1. outcome' = outcome \/ Fails(e, "disconnected") \/ Fails(e, "unexpected")
    <3>1. CASE e = "client"
      BY <1>7, <3>1 DEF ReadReturns, NegotiatorTakes
    <3>2. CASE e = "server"
      BY <1>7, <3>2 DEF ReadReturns, AcceptorTakes, Goes
    <3> QED BY <3>1, <3>2, TwoEnds
  <2> QED BY <1>3, <2>1
<1> QED BY <1>1, <1>4, <1>5, <1>6, <1>7

(* A client whose stream is stopped while its login runs.                             *)
LEMMA StopsSoon ==
  ASSUME Typed, Kept, Known', ~Disturbed', Next, ~Closable,
         ~stopping["client"] => cause["client"] = "none",
         ~stopping["client"], stopping'["client"], outcome'["client"] = "none"
  PROVE  Short' \/ Beyond' \/ Waiting'
<1>1. PICK e \in Ends : StreamRuns(e) \/ LoginRuns(e) \/ Expires(e) \/ HangsUp(e)
  BY DEF Next
<1>2. /\ "client" \in Ends /\ stopping \in [Ends -> BOOLEAN] /\ cause \in [Ends -> Causes]
      /\ cause["client"] = "none"
  BY TwoEnds DEF Typed, StreamsTyped
<1>3. ~(e = "client" /\ Stop(e, "garbled"))
  <2>1. SUFFICES ASSUME e = "client", Stop(e, "garbled") PROVE FALSE
    OBVIOUS
  <2>2. cause'["client"] = "garbled"
    BY <1>2, <2>1 DEF Stop
  <2> QED BY <1>2, <2>2 DEF Known, Disturbed
<1>4. e = "client"
  <2>1. \A why : e # "client" /\ Stop(e, why) => stopping'["client"] = stopping["client"]
    BY <1>2 DEF Stop
  <2>2. stopping' = stopping \/ \E why : Stop(e, why)
    BY <1>1 DEF StreamRuns, LoginRuns, Expires, HangsUp, ReadsTransport, HandsOut, ReadFails,
       TakesFrame, TakesWrite, Transmits, WriteFails, FinishesWrite, TakesControl, TakesSnapshot,
       CoordinatorEnds, MakesCall, CallRejected, CallExpires, CallReturns, ServiceReturns, ReadReturns,
       ReadReturnsError, LoginReturns, CallerCloses, streams
  <2> QED BY <2>1, <2>2
<1>5. ReadFails(e) \/ WriteFails(e) \/ CallExpires(e) \/ CallerCloses(e) \/ HangsUp(e)
  <2>1. CASE StreamRuns(e)
    BY <1>3, <1>4, <2>1 DEF StreamRuns, ReadsTransport, HandsOut, TakesFrame, TakesWrite, Transmits,
       FinishesWrite, TakesControl, TakesSnapshot, CoordinatorEnds, streams
  <2>2. CASE LoginRuns(e)
    BY <1>3, <1>4, <2>2 DEF LoginRuns, MakesCall, CallRejected, CallReturns, ServiceReturns, ReadReturns,
       ReadReturnsError, LoginReturns, streams
  <2>3. CASE Expires(e)
    BY <2>3 DEF Expires, streams
  <2> QED BY <1>1, <2>1, <2>2, <2>3
<1>6. /\ log' = log /\ outcome' = outcome /\ queue' = queue /\ expired' = expired
  BY <1>5 DEF ReadFails, WriteFails, CallExpires, CallerCloses, HangsUp, logins
<1>7. CASE ReadFails(e)
  <2>1. /\ reader["client"] \in {"length", "payload"} /\ stopping["server"]
        /\ conduit["client"].wire = <<>> /\ conduit["client"].buffered = <<>> /\ conduit["client"].inHand = <<>>
    BY <1>4, <1>7, TwoEnds DEF ReadFails
  <2>2. stopping'["server"]
    BY <2>1, StreamsStop, TwoEnds
  <2>3. coordinator["client"] # "over"
    <3>1. StopInv("client")
      BY OutcomesAre, TwoEnds
    <3> QED BY <3>1 DEF StopInv
  <2>4. Refused' => Queued'
    <3>1. Refused' <=> Refused
      BY <1>6, RefusedByLog
    <3>2. Refused => Queued
      BY <1>6, <2>1, <2>3, RefusalIsQueued
    <3>3. Queued => Queued'
      BY <1>6 DEF Queued
    <3> QED BY <3>1, <3>2, <3>3
  <2> QED BY <2>2, <2>4 DEF Waiting
<1>8. CASE WriteFails(e)
  <2>1. coordinator["client"] = "writing"
    BY <1>4, <1>8 DEF WriteFails
  <2>2. CASE Len(log["client"]) < 2
    BY <1>6, <2>2 DEF Short
  <2>3. CASE ~(Len(log["client"]) < 2)
    <3>1. Len(log["client"]) >= 2
      <4> DEFINE a == Len(log["client"])
      <4>1. a \in Nat /\ ~(a < 2)
        BY <2>3, RefusedMeans
      <4> HIDE DEF a
      <4>2. a >= 2
        BY <4>1
      <4> QED BY <4>2 DEF a
    <3>2. Beyond
      BY <2>1, <3>1, WritesBeyond
    <3> QED BY <1>6, <3>2, RefusedByLog DEF Beyond
  <2> QED BY <2>2, <2>3
<1>9. CASE CallExpires(e)
  <2>1. expired["client"]
    BY <1>4, <1>9 DEF CallExpires
  <2> QED BY <1>2, <1>6, <2>1 DEF Disturbed
<1>10. CASE CallerCloses(e)
  <2>1. todo["client"] = <<>> /\ outcome["client"] = "none"
    BY <1>4, <1>6, <1>10 DEF CallerCloses
  <2> QED BY <2>1, OutcomesAre
<1>11. CASE HangsUp(e)
  BY <1>4, <1>11 DEF HangsUp, Closable
<1> QED BY <1>5, <1>7, <1>8, <1>9, <1>10, <1>11

LEMMA LearnsStays ==
  ASSUME LoginInv, Learns, Known' \/ Disturbed', Next
  PROVE  Learns'
<1>1. SUFFICES ASSUME ~Disturbed' PROVE Learns'
  BY DEF Learns
<1>2. ~Disturbed /\ Typed /\ Kept /\ Known'
  <2>1. Typed
    BY DEF LoginInv
  <2>2. ~Disturbed
    BY <1>1, <2>1, StreamsStop DEF Disturbed
  <2> QED BY <1>1, <2>1, <2>2, TwoEnds DEF LoginInv, Astray, Disturbed
<1>3. /\ \A e \in Ends : ~stopping[e] => cause[e] = "none"
      /\ Denied => <<"verify", "fails">> \in Faults
      /\ outcome["client"] # "expired"
      /\ Closable \/ (StopsInTime /\ EndsInTime)
  BY <1>2 DEF Learns
<1>4. "client" \in Ends /\ "server" \in Ends /\ UNCHANGED setting
  BY TwoEnds DEF Next
<1>5. \A e \in Ends : ~stopping'[e] => cause'[e] = "none"
  BY <1>2, <1>3, StreamsStop
<1>6. Faults' = Faults /\ (Closable' <=> Closable)
  BY <1>4 DEF Faults, Closable
<1>7. Denied' => <<"verify", "fails">> \in Faults'
  <2>1. SUFFICES ASSUME Denied', ~Denied PROVE <<"verify", "fails">> \in Faults
    BY <1>3, <1>6
  <2>2. outcome'["server"] # outcome["server"] /\ outcome'["server"] = "authentication"
    BY <2>1 DEF Denied
  <2> QED BY <1>2, <1>4, <2>2, OutcomesCome
<1>8. outcome'["client"] # "expired"
  <2>1. SUFFICES ASSUME outcome'["client"] = "expired", outcome'["client"] # outcome["client"] PROVE FALSE
    BY <1>3
  <2> QED BY <1>2, <1>4, <2>1, OutcomesCome
<1>9. ASSUME ~Closable
      PROVE  StopsInTime' /\ EndsInTime'
  <2>1. StopsInTime /\ EndsInTime
    BY <1>3, <1>9
  <2>2. (Short => Short') /\ (Beyond => Beyond') /\ (Silenced => Silenced')
    BY <1>2, AnswersStay
  <2>3. ASSUME stopping'["client"], outcome'["client"] = "none"
        PROVE  Short' \/ Beyond' \/ Waiting'
    <3>1. CASE ~stopping["client"]
      BY <1>1, <1>2, <1>3, <1>4, <1>9, <2>3, <3>1, StopsSoon
    <3>2. CASE stopping["client"]
      <4>1. outcome["client"] = "none"
        BY <1>2, <1>4, <2>3, OutcomesLast
      <4>2. Short \/ Beyond \/ Waiting
        BY <2>1, <3>2, <4>1 DEF StopsInTime
      <4>3. Waiting => Waiting'
        <5>1. SUFFICES ASSUME Waiting PROVE Waiting'
          OBVIOUS
        <5>2. stopping["server"] /\ stopping'["server"] /\ log'["server"] = log["server"]
          BY <1>2, <1>4, <5>1, StreamsStop, LogsGrow DEF Waiting
        <5>3. Queued => Queued'
          BY <1>2, <2>3, QueuedStays
        <5> QED BY <5>1, <5>2, <5>3, RefusedByLog DEF Waiting
      <4> QED BY <2>2, <4>2, <4>3
    <3> QED BY <3>1, <3>2
  <2>4. ASSUME outcome'["client"] \in {"ended", "authentication"}
        PROVE  Short' \/ Beyond' \/ Silenced'
    <3>1. CASE outcome'["client"] = outcome["client"]
      BY <2>1, <2>2, <2>4, <3>1 DEF EndsInTime
    <3>2. CASE outcome'["client"] # outcome["client"]
      <4>1. \/ outcome["client"] = "none" /\ Unanswered("client")
            \/ /\ Doing("client", "service") /\ todo'["client"] = <<>>
               /\ coordinator'["client"] = coordinator["client"]
        BY <1>2, <1>4, <2>4, <3>2, OutcomesCome
      <4>2. CASE outcome["client"] = "none" /\ Unanswered("client")
        <5>1. StopInv("client")
          BY <1>2, <1>4, OutcomesAre
        <5>2. stopping["client"]
          BY <4>2, <5>1 DEF StopInv, Unanswered
        <5>3. Refused => ~Queued
          <6>1. SUFFICES ASSUME Refused PROVE ~Queued
            OBVIOUS
          <6>2. ~(answer["client"] \in {"rejected", "failed"} /\ ~OutboundSwitchLost("client"))
            BY <1>2, <4>2, <6>1, RefusedGoesOn
          <6>3. queue["client"] = <<>>
            BY <4>2, <6>2 DEF Unanswered
          <6> QED BY <6>3 DEF Queued
        <5>4. Short \/ Beyond \/ Waiting
          BY <2>1, <4>2, <5>2 DEF StopsInTime
        <5> QED BY <2>2, <5>3, <5>4 DEF Waiting, Silenced
      <4>3. CASE Doing("client", "service") /\ todo'["client"] = <<>>
                 /\ coordinator'["client"] = coordinator["client"]
        <5>1. Len(log["client"]) < 2 /\ coordinator["client"] # "writing"
          BY <1>2, <4>3, JoinsEarly
        <5>2. log'["client"] = log["client"]
          BY <1>2, <1>4, <5>1, LogsGrow
        <5> QED BY <4>3, <5>1, <5>2 DEF Short, Idle
      <4> QED BY <4>1, <4>2, <4>3
    <3> QED BY <3>1, <3>2
  <2> QED BY <2>3, <2>4 DEF StopsInTime, EndsInTime
<1> QED BY <1>5, <1>6, <1>7, <1>8, <1>9 DEF Learns

LEMMA LearnsBegins ==
  ASSUME Init
  PROVE  Learns
<1>1. /\ \A e \in Ends : stopping[e] = FALSE /\ cause[e] = "none" /\ outcome[e] = "none"
      /\ "client" \in Ends /\ "server" \in Ends
  BY TwoEnds DEF Init
<1> QED BY <1>1 DEF Learns, Denied, StopsInTime, EndsInTime

LEMMA LearnsRests ==
  ASSUME Learns, UNCHANGED vars
  PROVE  Learns'
<1>1. UNCHANGED <<setting, conduit, reader, framed, coordinator, job, session, queue, stopping, cause, log,
                  todo, answer, expired, held, outcome>>
  BY DEF vars, streams, pumps, logins
<1>2. (Refused' <=> Refused) /\ (Idle' <=> Idle) /\ (Queued' <=> Queued) /\ (Closable' <=> Closable)
      /\ (Denied' <=> Denied) /\ Faults' = Faults /\ (Disturbed' <=> Disturbed)
  BY <1>1 DEF Refused, Idle, Queued, Closable, Denied, Faults, Disturbed
<1>3. (Short' <=> Short) /\ (Beyond' <=> Beyond) /\ (Waiting' <=> Waiting) /\ (Silenced' <=> Silenced)
  BY <1>1, <1>2 DEF Short, Beyond, Waiting, Silenced
<1>4. (StopsInTime' <=> StopsInTime) /\ (EndsInTime' <=> EndsInTime)
  BY <1>1, <1>3 DEF StopsInTime, EndsInTime
<1> QED BY <1>1, <1>2, <1>4 DEF Learns

LEMMA PartsLearns == PartsSpec => []Learns
<1>1. PartsInit => Learns
  BY LearnsBegins DEF PartsInit
<1>2. LoginInv => Known \/ Disturbed
  BY KnownOfLogins
<1>3. LoginInv /\ Learns /\ (Known \/ Disturbed)' /\ [PartsNext]_<<part, vars, crossing>> => Learns'
  <2>1. SUFFICES ASSUME LoginInv, Learns, Known' \/ Disturbed', [PartsNext]_<<part, vars, crossing>>
                 PROVE  Learns'
    OBVIOUS
  <2>2. Next \/ UNCHANGED vars
    BY <2>1 DEF PartsNext
  <2> QED BY <2>1, <2>2, LearnsStays, LearnsRests
<1> QED BY <1>1, <1>2, <1>3, PartsLoginInv, PTL DEF PartsSpec

(* The caller of a client that is refused does not close its stream meanwhile.           *)
Uncut == ~({<<"verify", "fails">>, <<"client", "hangs_up">>} \subseteq Faults)

LEMMA RefusalsAreLearned ==
  ASSUME LoginInv, Learns, Uncut
  PROVE  RefusalIsLearned
<1>1. SUFFICES ASSUME Refused, ~Disturbed
               PROVE  outcome["client"] \in {"none", "disconnected"}
  BY DEF RefusalIsLearned, Disturbed
<1>2. Typed /\ Kept
  BY <1>1, TwoEnds DEF LoginInv, Astray, Disturbed
<1>3. /\ Denied /\ Len(log["client"]) >= 2 /\ Len(log["client"]) \in Nat
  BY <1>1, <1>2, RefusedMeans
<1>4. /\ <<"verify", "fails">> \in Faults /\ outcome["client"] # "expired"
      /\ Closable \/ EndsInTime
  BY <1>1, <1>3 DEF Learns
<1>5. EndsInTime
  BY <1>4 DEF Uncut, Closable
<1>6. ~Short /\ ~Beyond /\ ~Silenced
  <2> DEFINE a == Len(log["client"])
  <2>1. a \in Nat /\ a >= 2
    BY <1>3
  <2> HIDE DEF a
  <2>2. ~(a < 2)
    BY <2>1
  <2> QED BY <1>1, <2>2 DEF a, Short, Beyond, Silenced
<1>7. outcome["client"] \notin {"ended", "authentication"}
  BY <1>5, <1>6 DEF EndsInTime
<1> QED BY <1>2, <1>3, <1>4, <1>7, OutcomesAre

(* A client that was written a disconnect returns nothing else, whatever else of its     *)
(* streams, its calls and the session service fails and however its own writes run into   *)
(* the stop, while the contexts of both logins last and its caller does not close its      *)
(* stream over the refusal (negotiator.go:212-214, acceptor.go:176-177).            *)
THEOREM SpecRefusalIsLearned == PartsSpec => [](Uncut => RefusalIsLearned)
<1>1. LoginInv /\ Learns => (Uncut => RefusalIsLearned)
  BY RefusalsAreLearned
<1> QED BY <1>1, PartsLoginInv, PartsLearns, PTL
-----------------------------------------------------------------------------
(* What both ends report.  The sessions and the ciphers of two logins that are done are   *)
(* what the invariant says of their places, but for a client that went on without its      *)
(* outbound cipher.  Its server notices, in 775, for it reads on.  In 47 both are done,    *)
(* and what remains to be seen is that a stream stops early only if something outside       *)
(* stops it, or if one of the logins has failed.                                        *)
Sound == Faults \subseteq Refusals

Calm ==
  Sound => /\ \A e \in Ends : ~expired[e]
           /\ \A e \in Ends : stopping[e] => Failed("client") \/ Failed("server")

(* Garbled bytes take a context that has ended.                                      *)
Unharmed == \A e \in Ends : cause[e] = "garbled" => expired["client"]

LEMMA UnharmedOfLogins == LoginInv => Unharmed \/ Disturbed
<1>1. SUFFICES ASSUME LoginInv, ~Disturbed PROVE Unharmed
  OBVIOUS
<1>2. Typed /\ Kept
  BY <1>1, TwoEnds DEF LoginInv, Astray, Disturbed
<1> QED BY <1>2, OutcomesAre DEF Unharmed, StopInv

LEMMA SoundMeans ==
  ASSUME Sound, NEW e \in Ends
  PROVE  <<e, "expires">> \notin Faults /\ <<e, "hangs_up">> \notin Faults
BY TwoEnds DEF Sound, Refusals

(* A login function that has failed does not return, and one that has nothing left has    *)
(* returned or failed.                                                             *)
LEMMA FailuresLast ==
  ASSUME Typed, Kept, NEW e \in Ends
  PROVE  /\ Failed(e) => ~Doing(e, "return")
         /\ todo[e] = <<>> => outcome[e] # "none"
<1>1. PICK place \in [Ends -> Nat], read \in [Ends -> Nat], taken \in [Ends -> Nat] : Core(place, read, taken)
  BY DEF Kept
<1> DEFINE n == place[e]  r == read[e]
<1>2. PlaceInv(e, n, r)
  BY <1>1 DEF Core, CoreOf
<1> HIDE DEF n, r
<1>3. Failed(e) => ~Doing(e, "return")
  <2>1. Failed(e) => todo[e] \in {<<>>, Refusal}
    BY <1>2 DEF PlaceInv, Refusing
  <2>2. Refusal = <<Write("disconnect")>> /\ Head(<<Write("disconnect")>>)[1] = "write"
    BY DEF Refusal, Write
  <2>3. todo[e] = Refusal => Step(e)[1] = "write"
    BY <2>2 DEF Step
  <2> QED BY <2>1, <2>3 DEF Doing
<1>4. ASSUME todo[e] = <<>>, outcome[e] = "none" PROVE FALSE
  <2>1. MayBe(e, n) /\ Rest(e, n) = <<>> /\ ~Finished(e, n)
    BY <1>2, <1>4 DEF PlaceInv
  <2>2. CASE e = "client"
    <3>1. MayBe("client", n) /\ n \notin Last("client") /\ ClientRest(n) = <<>>
      BY <2>1, <2>2 DEF Finished, Last, Rest
    <3> QED BY <3>1, ClientSteps DEF Leads
  <2>3. CASE e = "server"
    <3>1. MayBe("server", n) /\ n \notin Last("server") /\ ServerRest(n) = <<>>
      BY <2>1, <2>3 DEF Finished, Last, Rest
    <3> QED BY <3>1, ServerSteps DEF Leads
  <2> QED BY <2>2, <2>3, TwoEnds
<1> QED BY <1>3, <1>4

LEMMA FailedStays ==
  ASSUME Typed, Kept, Next, NEW x \in Ends, Failed(x)
  PROVE  Failed(x)'
<1>1. PICK e \in Ends : StreamRuns(e) \/ LoginRuns(e) \/ Expires(e) \/ HangsUp(e)
  BY DEF Next
<1>2. outcome \in [Ends -> Outcomes]
  BY DEF Typed, LoginsTyped
<1>3. \/ outcome' = outcome
      \/ \E why : Fails(e, why)
      \/ LoginReturns(e)
  <2>1. CASE StreamRuns(e) \/ Expires(e) \/ HangsUp(e)
    BY <2>1 DEF StreamRuns, Expires, HangsUp, ReadsTransport, HandsOut, ReadFails, TakesFrame, TakesWrite,
       Transmits, WriteFails, FinishesWrite, TakesControl, TakesSnapshot, CoordinatorEnds, logins
  <2>2. CASE MakesCall(e) \/ CallRejected(e) \/ CallExpires(e) \/ CallerCloses(e)
    BY <2>2 DEF MakesCall, CallRejected, CallExpires, CallerCloses, logins
  <2>3. CASE CallReturns(e) \/ ServiceReturns(e) \/ ReadReturnsError(e)
    BY <2>3 DEF CallReturns, ServiceReturns, ReadReturnsError, Goes
  <2>4. CASE ReadReturns(e)
    <3>1. CASE e = "client"
      BY <2>4, <3>1 DEF ReadReturns, NegotiatorTakes
    <3>2. CASE e = "server"
      BY <2>4, <3>2 DEF ReadReturns, AcceptorTakes, Goes
    <3> QED BY <3>1, <3>2, TwoEnds
  <2> QED BY <1>1, <2>1, <2>2, <2>3, <2>4 DEF LoginRuns
<1>4. CASE \E why : Fails(e, why)
  BY <1>2, <1>4 DEF Fails, Failed
<1>5. CASE LoginReturns(e)
  <2>1. ~Failed(e)
    BY <1>5, FailuresLast DEF LoginReturns
  <2>2. x # e
    BY <2>1
  <2> QED BY <1>2, <1>5, <2>2 DEF LoginReturns, Failed
<1> QED BY <1>3, <1>4, <1>5 DEF Failed

(* A context of a sound setting lasts, and what stops the first of its streams is the     *)
(* caller of a login that has failed.                                               *)
LEMMA StaysUndisturbed ==
  ASSUME Typed, Next, Sound, NEW x \in Ends, ~expired[x]
  PROVE  ~expired'[x]
<1>1. PICK e \in Ends : StreamRuns(e) \/ LoginRuns(e) \/ Expires(e) \/ HangsUp(e)
  BY DEF Next
<1>2. ~Expires(e)
  BY SoundMeans DEF Expires
<1>3. expired' = expired
  BY <1>1, <1>2 DEF StreamRuns, LoginRuns, HangsUp, ReadsTransport, HandsOut, ReadFails,
     TakesFrame, TakesWrite, Transmits, WriteFails, FinishesWrite, TakesControl, TakesSnapshot, CoordinatorEnds,
     MakesCall, CallRejected, CallExpires, CallReturns, ServiceReturns, ReadReturns, ReadReturnsError,
     LoginReturns, CallerCloses, logins
<1> QED BY <1>3

LEMMA StopsForFailure ==
  ASSUME Typed, Kept, Unharmed', Next, Sound, \A e \in Ends : ~expired[e],
         \A e \in Ends : ~stopping[e] /\ cause[e] = "none", NEW x \in Ends, stopping'[x]
  PROVE  Failed("client")' \/ Failed("server")'
<1>1. PICK e \in Ends : StreamRuns(e) \/ LoginRuns(e) \/ Expires(e) \/ HangsUp(e)
  BY DEF Next
<1>2. /\ stopping \in [Ends -> BOOLEAN] /\ cause \in [Ends -> Causes]
      /\ ~stopping[e] /\ cause[e] = "none" /\ ~stopping[Peer(e)]
  BY TwoEnds DEF Typed, StreamsTyped
<1>3. ~Stop(e, "garbled")
  <2>1. ~expired'["client"]
    BY StaysUndisturbed, TwoEnds
  <2>2. SUFFICES ASSUME Stop(e, "garbled") PROVE FALSE
    OBVIOUS
  <2>3. cause'[e] = "garbled"
    BY <1>2, <2>2 DEF Stop
  <2> QED BY <2>1, <2>3 DEF Unharmed
<1>4. stopping' # stopping
  OBVIOUS
<1>5. ReadFails(e) \/ WriteFails(e) \/ CallExpires(e) \/ CallerCloses(e) \/ HangsUp(e)
  <2>1. CASE StreamRuns(e)
    BY <1>3, <1>4, <2>1 DEF StreamRuns, ReadsTransport, HandsOut, TakesFrame, TakesWrite, Transmits,
       FinishesWrite, TakesControl, TakesSnapshot, CoordinatorEnds, streams
  <2>2. CASE LoginRuns(e)
    BY <1>4, <2>2 DEF LoginRuns, MakesCall, CallRejected, CallReturns, ServiceReturns, ReadReturns,
       ReadReturnsError, LoginReturns, streams
  <2>3. CASE Expires(e)
    BY <1>4, <2>3 DEF Expires, streams
  <2> QED BY <1>1, <2>1, <2>2, <2>3
<1>6. CallerCloses(e)
  <2>2. ~WriteFails(e)
    BY <1>2 DEF WriteFails
  <2>3. ~CallExpires(e) /\ ~HangsUp(e)
    BY SoundMeans DEF CallExpires, HangsUp
  <2>4. ~ReadFails(e)
    BY <1>2 DEF ReadFails
  <2> QED BY <1>5, <2>2, <2>3, <2>4
<1>7. todo[e] = <<>> /\ outcome[e] # "ok" /\ outcome' = outcome
  BY <1>6 DEF CallerCloses, logins
<1>8. Failed(e)'
  BY <1>7, FailuresLast DEF Failed
<1> QED BY <1>8, TwoEnds

LEMMA CalmStays ==
  ASSUME LoginInv, Learns, Calm, Unharmed' \/ Disturbed', Next
  PROVE  Calm'
<1>1. SUFFICES ASSUME Sound' PROVE Calm'
  BY DEF Calm
<1>2. Sound /\ Typed
  BY <1>1 DEF Sound, Faults, Next, LoginInv
<1>3. (\A e \in Ends : ~expired[e]) /\ \A e \in Ends : stopping[e] => Failed("client") \/ Failed("server")
  BY <1>2 DEF Calm
<1>4. Kept /\ \A e \in Ends : ~stopping[e] => cause[e] = "none"
  BY <1>3, TwoEnds DEF LoginInv, Astray, Learns, Disturbed
<1>5. \A e \in Ends : ~expired'[e]
  BY <1>2, <1>3, StaysUndisturbed
<1>6. Unharmed'
  BY <1>5 DEF Disturbed
<1>7. Failed("client") \/ Failed("server") => Failed("client")' \/ Failed("server")'
  BY <1>2, <1>4, FailedStays, TwoEnds
<1>8. ASSUME NEW x \in Ends, stopping'[x]
      PROVE  Failed("client")' \/ Failed("server")'
  <2>1. CASE \E e \in Ends : stopping[e]
    BY <1>3, <1>7, <2>1
  <2>2. CASE \A e \in Ends : ~stopping[e]
    BY <1>2, <1>3, <1>4, <1>6, <1>8, <2>2, StopsForFailure
  <2> QED BY <2>1, <2>2
<1> QED BY <1>5, <1>8 DEF Calm

LEMMA CalmRests ==
  ASSUME Calm, UNCHANGED vars
  PROVE  Calm'
<1>1. UNCHANGED <<setting, expired, stopping, outcome>>
  BY DEF vars, streams, logins
<1>2. Faults' = Faults
  BY <1>1 DEF Faults
<1> QED BY <1>1, <1>2 DEF Calm, Sound, Failed

LEMMA PartsCalm == PartsSpec => []Calm
<1>1. PartsInit => Calm
  BY TwoEnds DEF PartsInit, Init, Calm
<1>2. LoginInv => Unharmed \/ Disturbed
  BY UnharmedOfLogins
<1>3. LoginInv /\ Learns /\ Calm /\ (Unharmed \/ Disturbed)' /\ [PartsNext]_<<part, vars, crossing>> => Calm'
  <2>1. SUFFICES ASSUME LoginInv, Learns, Calm, Unharmed' \/ Disturbed', [PartsNext]_<<part, vars, crossing>>
                 PROVE  Calm'
    OBVIOUS
  <2>2. Next \/ UNCHANGED vars
    BY <2>1 DEF PartsNext
  <2> QED BY <2>1, <2>2, CalmStays, CalmRests
<1> QED BY <1>1, <1>2, <1>3, PartsLoginInv, PartsLearns, PTL DEF PartsSpec

(* What a server, and a client that goes on to play, have said and heard when they are    *)
(* done.                                                                         *)
LEMMA ServerIsDone ==
  ASSUME Typed, NEW place, NEW read, NEW taken, Ghosts(place, read, taken), Core(place, read, taken),
         outcome["server"] = "ok"
  PROVE  LET x == session["server"]  j == taken["server"] IN
         /\ x \in Sessions /\ x.state = "play" /\ (x.compressed <=> Compresses)
         /\ place["server"] \in {15, 16} /\ ~Denied
         /\ j \in Nat /\ (Acknowledged => j >= 3)
<1> DEFINE a == Len(log["client"])  b == Len(log["server"])  c == place["client"]  s == place["server"]
           i == taken["client"]  j == taken["server"]  r == read["server"]
           x == session["server"]  said == Said("server")  v == Sent("server", s)
           k == Keyed  z == Shrinks  o == Offers
<1>1. Between(c, s, a, b, i, j) /\ CoreOf("server", s, r, j)
  BY Standing, TwoEnds
<1>2. ~Denied /\ s \in {15, 16}
  BY <1>1 DEF CoreOf, PlaceInv, Finished, Denied
<1>3. b \in Nat /\ j \in Nat /\ (Acknowledged => j >= 3 + k + o) /\ b >= 1 + k + z
  <2> HIDE DEF a, b, c, s, i, j, k, z, o
  <2>1. s >= 13
    BY <1>2
  <2>2. Between(c, s, a, b, i, j)
    BY <1>1
  <2>3. (Acknowledged => j >= 3 + k + o) /\ b >= 1 + k + z
    BY <2>1, <2>2, InStep DEF k, z, o
  <2>4. b \in Nat /\ j \in Nat
    BY <2>2 DEF Between
  <2> QED BY <2>3, <2>4
<1>4. v \in Nat /\ v >= 1 + k + z
  <2> HIDE DEF s, k, z, o
  <2>1. s >= 13 /\ MayBe("server", s)
    BY <1>1, <1>2 DEF Between
  <2> QED BY <2>1, ServerProfile DEF k, z
<1>5. coordinator["server"] = "written" => b - v = 1
  BY <1>1 DEF CoreOf, SentInv, Extra
<1>6. said = AtMost(b - (IF coordinator["server"] = "written" THEN 1 ELSE 0), b) /\ Heard("server", j) = AtMost(j, a)
  BY <1>2 DEF Said, Heard, Good, Peer
<1>7. j <= a /\ a \in Nat
  BY <1>1 DEF Between
<1>8. x = SessionAt("server", said, AtMost(j, a))
  BY <1>1, <1>6 DEF CoreOf, SessionInv, SessionOf
<1>9. k \in {0, 1} /\ z \in {0, 1} /\ o \in {0, 1}
  BY SettingNumbers
<1> HIDE DEF a, b, c, s, i, j, r, x, said, v, k, z, o
<1>10. said \in Nat /\ said >= 1 + k + z /\ AtMost(j, a) = j
  BY <1>3, <1>4, <1>5, <1>6, <1>7, <1>9 DEF AtMost
<1>11. /\ x \in Sessions
       /\ Acknowledged => x.state = StateAt(j)
       /\ ~Acknowledged => x.state = StateAt(said)
       /\ x.compressed <=> Compresses /\ said >= 1 + k
  BY <1>3, <1>8, <1>10, TheSessions DEF k
<1>12. x.state = "play"
  BY <1>3, <1>9, <1>10, <1>11 DEF StateAt, k, z, o
<1>13. x.compressed <=> Compresses
  BY <1>9, <1>10, <1>11
<1>14. Acknowledged => j >= 3
  BY <1>3, <1>9
<1> QED BY <1>2, <1>3, <1>11, <1>12, <1>13, <1>14 DEF x, j, s

LEMMA ClientIsDone ==
  ASSUME Typed, NEW place, NEW read, NEW taken, Ghosts(place, read, taken), Core(place, read, taken),
         outcome["client"] = "ok", ~Denied, Terminal = "play"
  PROVE  LET x == session["client"] IN
         /\ x \in Sessions /\ x.state = "play" /\ (x.compressed <=> Compresses)
         /\ place["client"] \in {19, 20}
<1> DEFINE a == Len(log["client"])  b == Len(log["server"])  c == place["client"]  s == place["server"]
           i == taken["client"]  j == taken["server"]  r == read["client"]
           x == session["client"]  said == Said("client")  y == Sent("client", c)  h == Had("client", c)
           k == Keyed  z == Shrinks  o == Offers
<1>1. Between(c, s, a, b, i, j) /\ CoreOf("client", c, r, i)
  BY Standing, TwoEnds
<1>2. MayBe("client", c) /\ Finished("client", c) /\ c \in {19, 20}
  <2>1. MayBe("client", c) /\ Finished("client", c)
    BY <1>1 DEF CoreOf, PlaceInv
  <2> HIDE DEF c
  <2> QED BY <2>1 DEF MayBe, ClientMayBe, Finished
<1>3. /\ h \in Nat /\ y \in Nat /\ h >= 1 + k + z
      /\ Acknowledged => y >= 3 + k + o
  <2> HIDE DEF c, k, z, o
  <2>1. c >= 8
    BY <1>2
  <2> QED BY <1>2, <2>1, ClientProfile DEF k, z, o
<1>4. coordinator["client"] = "written" => a - y = 1
  BY <1>1 DEF CoreOf, SentInv, Extra
<1>5. said = AtMost(a - (IF coordinator["client"] = "written" THEN 1 ELSE 0), a) /\ Heard("client", i) = AtMost(i, b)
  BY DEF Said, Heard, Good, Peer
<1>6. a \in Nat /\ b \in Nat /\ i \in Nat /\ i <= b /\ h <= i /\ y <= a
  BY <1>1 DEF Between
<1>7. x = SessionAt("client", said, AtMost(i, b))
  BY <1>1, <1>5 DEF CoreOf, SessionInv, SessionOf
<1>8. k \in {0, 1} /\ z \in {0, 1} /\ o \in {0, 1}
  BY SettingNumbers
<1> HIDE DEF a, b, c, s, i, j, r, x, said, y, h, k, z, o
<1>9. said \in Nat /\ said >= y /\ AtMost(i, b) = i
  BY <1>3, <1>4, <1>5, <1>6 DEF AtMost
<1>10. /\ x \in Sessions
       /\ Acknowledged => x.state = StateAt(said)
       /\ ~Acknowledged => x.state = StateAt(i)
       /\ x.compressed <=> Compresses /\ i >= 1 + k
  BY <1>6, <1>7, <1>9, TheSessions DEF k
<1>11. x.state = "play"
  BY <1>3, <1>6, <1>8, <1>9, <1>10 DEF StateAt, k, z, o
<1>12. x.compressed <=> Compresses
  BY <1>3, <1>6, <1>8, <1>10
<1> QED BY <1>2, <1>10, <1>11, <1>12 DEF x, c

LEMMA SameSessions ==
  ASSUME NEW x \in Sessions, NEW y \in Sessions, x.state = y.state, x.compressed <=> y.compressed
  PROVE  x = y
<1>1. x.compressed \in BOOLEAN /\ y.compressed \in BOOLEAN
  BY DEF Sessions
<1>2. x.compressed = y.compressed
  BY <1>1
<1> QED BY <1>2 DEF Sessions

(* The server of protocol 775 has read on, a login without a verifier has no cipher, and   *)
(* in a sound setting nothing has stopped the client before its second switch.           *)
LEMMA NothingIsHeld ==
  ASSUME Typed, NEW place, NEW read, NEW taken, Ghosts(place, read, taken), Core(place, read, taken),
         Calm, Acknowledged \/ ~Online \/ Sound, \A e \in Ends : outcome[e] = "ok"
  PROVE  ~held
<1> DEFINE j == taken["server"]
<1>1. held => /\ Online /\ j <= 2
              /\ stopping["client"] \/ expired["client"]
  BY DEF Core, HeldInv
<1>2. j \in Nat /\ (Acknowledged => j >= 3)
  BY ServerIsDone, TwoEnds
<1>3. Sound => ~expired["client"] /\ ~stopping["client"]
  BY TwoEnds DEF Calm, Failed
<1> HIDE DEF j
<1>4. Acknowledged => ~(j <= 2)
  BY <1>2
<1> QED BY <1>1, <1>3, <1>4

LEMMA DoneAgrees ==
  ASSUME LoginInv, Calm, Acknowledged \/ ~Online \/ Sound
  PROVE  DoneMeansAgreed
<1>1. SUFFICES ASSUME outcome["server"] = "ok" PROVE DoneMeansAgreed
  BY TwoEnds DEF DoneMeansAgreed
<1>2. Typed /\ Kept
  BY <1>1 DEF LoginInv, Astray, Failed
<1>3. PICK place \in [Ends -> Nat], read \in [Ends -> Nat], taken \in [Ends -> Nat] : Core(place, read, taken)
  BY <1>2 DEF Kept
<1>4. Ghosts(place, read, taken)
  BY <1>3 DEF Ghosts
<1> DEFINE c == place["client"]  s == place["server"]  x == session["client"]  y == session["server"]
<1>5. y \in Sessions /\ y.state = "play" /\ (y.compressed <=> Compresses) /\ s \in {15, 16} /\ ~Denied
  BY <1>1, <1>2, <1>3, <1>4, ServerIsDone
<1>6. ASSUME \A e \in Ends : outcome[e] = "ok", Terminal = "play"
      PROVE  /\ x = y
             /\ \A e \in Ends : conduit[e].decrypt = Online /\ conduit[e].encrypt = Online
  <2>1. x \in Sessions /\ x.state = "play" /\ (x.compressed <=> Compresses) /\ c \in {19, 20}
    BY <1>2, <1>3, <1>4, <1>5, <1>6, ClientIsDone, TwoEnds
  <2>2. x = y
    <3> HIDE DEF x, y
    <3> QED BY <1>5, <2>1, SameSessions
  <2>3. ~held
    BY <1>2, <1>3, <1>4, <1>6, NothingIsHeld
  <2>4. CipherInv("client", c) /\ CipherInv("server", s)
    BY <1>3, TwoEnds DEF Core, CoreOf
  <2>5. \A e \in Ends : (conduit[e].decrypt <=> Online) /\ (conduit[e].encrypt <=> Online)
    <3> HIDE DEF c, s
    <3>1. c > 5 /\ c > 3 /\ s > 3
      BY <1>5, <2>1
    <3>2. (conduit["client"].decrypt <=> Online) /\ (conduit["client"].encrypt <=> Online)
      BY <2>3, <2>4, <3>1 DEF CipherInv, Switched
    <3>3. (conduit["server"].decrypt <=> Online) /\ (conduit["server"].encrypt <=> Online)
      BY <2>4, <3>1 DEF CipherInv, Switched
    <3> QED BY <3>2, <3>3 DEF Ends
  <2>6. \A e \in Ends : conduit[e].decrypt \in BOOLEAN /\ conduit[e].encrypt \in BOOLEAN
    BY <1>2 DEF Typed, StreamsTyped, Conduits
  <2>7. Online \in BOOLEAN
    BY <1>2, LoginAssumption DEF Typed, Online
  <2>8. ASSUME NEW e \in Ends
        PROVE  conduit[e].decrypt = Online /\ conduit[e].encrypt = Online
    <3> DEFINE d == conduit[e].decrypt  f == conduit[e].encrypt  g == Online
    <3>1. d \in BOOLEAN /\ f \in BOOLEAN /\ g \in BOOLEAN /\ (d <=> g) /\ (f <=> g)
      BY <2>5, <2>6, <2>7
    <3> HIDE DEF d, f, g
    <3>2. d = g /\ f = g
      BY <3>1
    <3> QED BY <3>2 DEF d, f, g
  <2> QED BY <2>2, <2>8
<1> QED BY <1>5, <1>6 DEF DoneMeansAgreed

(* A server that reports a login as done is in play, and a login that both ends report as   *)
(* done leaves them in one state, under one envelope and with the same ciphers             *)
(* (acceptor.go:303-308, negotiator.go:395-428).  In protocol 47, where the server reads    *)
(* nothing more, that takes a connection which nothing closes from outside while a client   *)
(* with a verifier switches its ciphers.                                              *)
THEOREM SpecDoneMeansAgreed ==
  PartsSpec => [](Acknowledged \/ ~Online \/ Sound => DoneMeansAgreed)
<1>1. LoginInv /\ Calm => (Acknowledged \/ ~Online \/ Sound => DoneMeansAgreed)
  BY DoneAgrees
<1> QED BY <1>1, PartsLoginInv, PartsCalm, PTL
=============================================================================
