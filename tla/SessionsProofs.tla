---------------------------- MODULE SessionsProofs ----------------------------
(* Proofs about the sessions of two ends, for any thresholds and any number of      *)
(* frames on their way.                                                        *)
EXTENDS MCLogin, SumProofs

(***************************************************************************)
(* SessionsInStep is not inductive: whether a frame will be read in the state it    *)
(* was written in depends on every frame before it and, because both ends move,      *)
(* on what the other end may still write.  A link leads from the session of its     *)
(* reader to that of its writer as long as nothing is on its way back that moves.    *)
(***************************************************************************)
Session(e)  == <<state[e], compression[e]>>
Written(f)  == <<f.state, f.compression>>
After(s, p) == <<Exchange!StateAfter(s[1], p), Exchange!CompressionAfter(s[2], p)>>
Behind(f)   == After(Written(f), f.packet)

Leads(l, from, to) ==
  /\ l = <<>> => from = to
  /\ l # <<>> => Written(l[1]) = from /\ Behind(l[Len(l)]) = to
  /\ \A i \in 1..(Len(l) - 1) : Written(l[i + 1]) = Behind(l[i])

Moves(p) ==
  \/ p.kind \in {"handshake", "acknowledged", "finished", "started", "compress"}
  \/ p.kind = "success" /\ version = 47

Still(l) == \A i \in 1..Len(l) : ~Moves(l[i].packet)

InStep ==
  \A e \in Exchange!Ends :
    /\ Still(link[Exchange!Peer(e)])
         => Leads(link[e], Session(e), Session(Exchange!Peer(e)))
    /\ link[e] = <<>> \/ Still(link[Exchange!Peer(e)])

(* What either end may have on its way, and in which state it wrote it.            *)
Kinds == {"handshake", "login start", "answer", "acknowledged", "finished", "started",
          "data", "ask", "success", "finish", "start", "compress"}
Levels == Nat \union {Exchange!Off}
Crossing == [packet : [kind : Kinds, arg : Int \union {"status", "login"}],
             state : Exchange!States, compression : Levels]

OfClient(f) ==
  \/ f.packet.kind = "handshake" /\ f.state = "handshaking" /\ f.packet.arg \in {"status", "login"}
  \/ f.packet.kind \in {"login start", "answer"} /\ f.state = "login"
  \/ f.packet.kind = "acknowledged" /\ f.state = "login" /\ version = 775
  \/ f.packet.kind = "finished" /\ f.state = "configuration"
  \/ f.packet.kind = "started" /\ f.state = "play" /\ version = 775
  \/ f.packet.kind = "data" /\ f.state \in {"status", "configuration", "play"}

OfServer(f) ==
  \/ f.packet.kind \in {"ask", "success"} /\ f.state = "login"
  \/ f.packet.kind = "finish" /\ f.state = "configuration"
  \/ f.packet.kind = "start" /\ f.state = "play" /\ version = 775
  \/ f.packet.kind = "compress" /\ (f.state = "login" \/ (f.state = "play" /\ version = 47))
       /\ f.packet.arg \in Int
  \/ f.packet.kind = "data" /\ f.state \in {"status", "configuration", "play"}

LinksTyped ==
  /\ version \in {47, 775}
  /\ state \in [Exchange!Ends -> Exchange!States] /\ compression \in [Exchange!Ends -> Levels]
  /\ version = 47 => \A e \in Exchange!Ends : state[e] # "configuration"
  /\ link \in [Exchange!Ends -> Seq(Crossing)]
  /\ \A e \in Exchange!Ends : Len(link[e]) <= MaxInFlight
  /\ \A i \in 1..Len(link["client"]) : OfServer(link["client"][i])
  /\ \A i \in 1..Len(link["server"]) : OfClient(link["server"][i])

AppsTyped ==
  /\ asked \in DOMAIN Exchange!Answers \union {"none"}
  /\ owed \in DOMAIN Exchange!Answers \union {"none"}
  /\ joined \in [Exchange!Ends -> BOOLEAN]

(* One question at a time is on its way, or to be answered, or answered, and while     *)
(* it is not on its way the server is silent.                                    *)
Question(p) == p.kind \in {"ask", "finish", "start"} \/ (p.kind = "success" /\ version = 775)
Reply(p)    == p.kind \notin {"handshake", "data"}

Asking(i)    == Question(link["client"][i].packet)
Answering(i) == Reply(link["server"][i].packet)

Rounds ==
  /\ \A i \in 1..Len(link["client"]) :
       Asking(i) => i = Len(link["client"]) /\ asked # "none" /\ owed = "none"
  /\ \A i, j \in 1..Len(link["server"]) :
       Answering(i) => asked # "none" /\ owed = "none" /\ (Answering(j) => i = j)
  /\ owed # "none" => asked # "none"
  /\ owed # "none" \/ (\E i \in 1..Len(link["server"]) : Answering(i)) =>
       link["client"] = <<>> \/ state["client"] = "status"

OwedFits ==
  /\ owed \in {"ask", "success"} => state["client"] = "login"
  /\ owed = "success" => version = 775
  /\ owed = "finish" => state["client"] = "configuration"
  /\ owed = "start" => state["client"] = "play" /\ version = 775
  /\ owed = "who" => state["client"] \in {"handshaking", "status", "login"}

(* Whether it is to be a login or a query is decided once.                        *)
Begins ==
  /\ state["client"] = "handshaking" =>
       state["server"] = "handshaking" /\ link["client"] = <<>> /\ link["server"] = <<>>
  /\ state["client"] \in {"handshaking", "status"} => owed = "who"
  /\ state["server"] = "status" => state["client"] = "status"
  /\ \A i \in 1..Len(link["server"]) :
       link["server"][i].packet.kind = "handshake" =>
         /\ i = 1 /\ state["server"] = "handshaking"
         /\ link["server"][i].packet.arg = "status" => state["client"] = "status"

(* No threshold is set behind the first data of play.                             *)
PlayData(f) == f.packet.kind = "data" /\ f.state = "play"

Joins ==
  /\ joined["client"] => joined["server"]
  /\ joined["server"] => state["server"] \in {"play", "configuration"}
  /\ \A i \in 1..Len(link["server"]) : PlayData(link["server"][i]) => joined["client"]
  /\ \A i \in 1..Len(link["client"]) : PlayData(link["client"][i]) => joined["server"]
  /\ \A j \in 1..Len(link["client"]) :
       link["client"][j].packet.kind = "compress" =>
         /\ ~joined["client"]
         /\ \A i \in 1..Len(link["client"]) : i < j => ~PlayData(link["client"][i])

StepIInv == LinksTyped /\ AppsTyped /\ InStep /\ Rounds /\ OwedFits /\ Begins /\ Joins

LEMMA OtherEnd ==
  \A e \in Exchange!Ends :
    /\ Exchange!Peer(e) \in Exchange!Ends /\ Exchange!Peer(Exchange!Peer(e)) = e
    /\ Exchange!Peer(e) # e /\ \A d \in Exchange!Ends : d = e \/ d = Exchange!Peer(e)
BY DEF Exchange!Ends, Exchange!Peer

LEMMA Rests == \A s, p : ~Moves(p) => After(<<s[1], s[2]>>, p) = <<s[1], s[2]>>
BY DEF Moves, After, Exchange!StateAfter, Exchange!CompressionAfter

LEMMA AppendLeads ==
  ASSUME NEW S, NEW l \in Seq(S), NEW from, NEW to, NEW f \in S,
         Leads(l, from, to), Written(f) = to
  PROVE  Leads(Append(l, f), from, After(to, f.packet))
<1> DEFINE m == Append(l, f)
<1>1. /\ Len(l) \in Nat /\ Len(m) = Len(l) + 1 /\ m[Len(l) + 1] = f
      /\ \A i \in 1..Len(l) : m[i] = l[i]
      /\ l = <<>> <=> Len(l) = 0
      /\ m # <<>>
  OBVIOUS
<1> HIDE DEF m
<1>2. Behind(m[Len(m)]) = After(to, f.packet)
  BY <1>1 DEF Behind
<1>3. Written(m[1]) = from
  BY <1>1 DEF Leads
<1>4. \A i \in 1..(Len(m) - 1) : Written(m[i + 1]) = Behind(m[i])
  <2> TAKE i \in 1..(Len(m) - 1)
  <2>1. CASE i = Len(l)
    BY <1>1, <2>1 DEF Leads
  <2>2. CASE i \in 1..(Len(l) - 1)
    BY <1>1, <2>2 DEF Leads
  <2> QED BY <1>1, <2>1, <2>2
<1> QED BY <1>1, <1>2, <1>3, <1>4 DEF Leads, m

LEMMA RestOf ==
  \A S : \A l \in Seq(S) : l # <<>> =>
    /\ Len(l) \in Nat \ {0} /\ Len(Tail(l)) = Len(l) - 1 /\ Tail(l) \in Seq(S)
    /\ \A i \in 1..Len(Tail(l)) : Tail(l)[i] = l[i + 1]
    /\ Head(l) = l[1]
    /\ Tail(l) = <<>> <=> Len(Tail(l)) = 0
<1> TAKE S
<1> TAKE l \in Seq(S)
<1> HAVE l # <<>>
<1>1. Len(l) \in Nat \ {0} /\ Tail(l) \in Seq(S) /\ Head(l) = l[1]
  OBVIOUS
<1>2. Len(Tail(l)) = Len(l) - 1 /\ \A i \in 1..Len(Tail(l)) : Tail(l)[i] = l[i + 1]
  OBVIOUS
<1>3. \A t \in Seq(S) : t = <<>> <=> Len(t) = 0
  OBVIOUS
<1> QED BY <1>1, <1>2, <1>3

LEMMA TailLeads ==
  ASSUME NEW S, NEW l \in Seq(S), NEW from, NEW to, l # <<>>, Leads(l, from, to)
  PROVE  Written(Head(l)) = from /\ Leads(Tail(l), After(from, Head(l).packet), to)
<1> DEFINE m == Tail(l)
<1>1. /\ Len(l) \in Nat \ {0} /\ Len(m) = Len(l) - 1 /\ m \in Seq(S)
      /\ \A i \in 1..Len(m) : m[i] = l[i + 1]
      /\ Head(l) = l[1]
      /\ m = <<>> <=> Len(m) = 0
  BY RestOf
<1> HIDE DEF m
<1>2. Written(Head(l)) = from /\ Behind(Head(l)) = After(from, Head(l).packet)
  BY <1>1 DEF Leads, Behind
<1>3. m = <<>> => Behind(Head(l)) = to
  <2>1. m = <<>> => Len(l) = 1
    BY <1>1
  <2>2. Behind(l[Len(l)]) = to
    BY DEF Leads
  <2> QED BY <1>1, <2>1, <2>2
<1>4. m # <<>> => Written(m[1]) = Behind(Head(l)) /\ Behind(m[Len(m)]) = to
  <2> SUFFICES ASSUME m # <<>> PROVE Written(m[1]) = Behind(Head(l)) /\ Behind(m[Len(m)]) = to
    OBVIOUS
  <2>1. m[1] = l[2] /\ m[Len(m)] = l[Len(l)] /\ 1 \in 1..(Len(l) - 1)
    BY <1>1
  <2> QED BY <1>1, <2>1 DEF Leads
<1>5. \A i \in 1..(Len(m) - 1) : Written(m[i + 1]) = Behind(m[i])
  <2> TAKE i \in 1..(Len(m) - 1)
  <2>1. i + 1 \in 1..(Len(l) - 1) /\ m[i] = l[i + 1] /\ m[i + 1] = l[(i + 1) + 1]
    BY <1>1
  <2> QED BY <2>1 DEF Leads
<1> QED BY <1>1, <1>2, <1>3, <1>4, <1>5 DEF Leads, m

(* Until something moves, a link keeps its session.                               *)
LEMMA LeadsUntil ==
  ASSUME NEW S, NEW l \in Seq(S), NEW s, NEW c, NEW to, Leads(l, <<s, c>>, to),
         NEW i \in 1..Len(l), \A j \in 1..Len(l) : j < i => ~Moves(l[j].packet)
  PROVE  Written(l[i]) = <<s, c>>
<1> DEFINE Bad == {j \in 1..i : Written(l[j]) # <<s, c>>}
<1> SUFFICES ASSUME Bad # {} PROVE FALSE
  OBVIOUS
<1>0. i \in Nat /\ i <= Len(l) /\ Len(l) \in Nat /\ l # <<>>
  OBVIOUS
<1>1. PICK j \in Bad : \A k \in Bad : j <= k
  <2>1. Bad \subseteq Nat /\ Bad # {}
    OBVIOUS
  <2> HIDE DEF Bad
  <2> QED BY <2>1, Smallest
<1>2. j # 1
  BY DEF Leads
<1>3. j - 1 \in 1..i /\ j - 1 \notin Bad /\ j - 1 \in 1..(Len(l) - 1) /\ j - 1 < i /\ j - 1 \in 1..Len(l)
  BY <1>0, <1>1, <1>2
<1>4. Written(l[j - 1]) = <<s, c>> /\ ~Moves(l[j - 1].packet)
  BY <1>3
<1>5. Behind(l[j - 1]) = <<s, c>>
  BY <1>4, Rests DEF Behind
<1>6. Written(l[(j - 1) + 1]) = Behind(l[j - 1])
  BY <1>3 DEF Leads
<1> QED BY <1>0, <1>1, <1>5, <1>6

LEMMA StillLeads ==
  ASSUME NEW S, NEW l \in Seq(S), NEW s, NEW c, NEW to, Leads(l, <<s, c>>, to), Still(l)
  PROVE  to = <<s, c>> /\ \A i \in 1..Len(l) : Written(l[i]) = <<s, c>>
<1>1. ASSUME NEW i \in 1..Len(l) PROVE Written(l[i]) = <<s, c>>
  BY LeadsUntil DEF Still
<1>2. CASE l = <<>>
  BY <1>1, <1>2 DEF Leads
<1>3. CASE l # <<>>
  <2>1. Len(l) \in 1..Len(l)
    BY <1>3
  <2>2. Behind(l[Len(l)]) = <<s, c>>
    BY <1>1, <2>1, Rests DEF Still, Behind
  <2> QED BY <1>1, <1>3, <2>2 DEF Leads
<1> QED BY <1>2, <1>3

(* Whatever moves first on a link was written in the session it begins with.      *)
LEMMA FirstMove ==
  ASSUME NEW S, NEW l \in Seq(S), NEW s, NEW c, NEW to, Leads(l, <<s, c>>, to), ~Still(l)
  PROVE  \E i \in 1..Len(l) : Moves(l[i].packet) /\ Written(l[i]) = <<s, c>>
<1> DEFINE M == {i \in 1..Len(l) : Moves(l[i].packet)}
<1>1. M \subseteq Nat /\ M # {}
  BY DEF Still
<1>2. PICK i \in M : \A k \in M : i <= k
  <2> HIDE DEF M
  <2> QED BY <1>1, Smallest
<1>3. \A j \in 1..Len(l) : j < i => ~Moves(l[j].packet)
  BY <1>2
<1> QED BY <1>2, <1>3, LeadsUntil

(* A write.                                                                    *)
Sending(e, p) == [packet |-> p, state |-> state[e], compression |-> compression[e]]

LEMMA WriteEffects ==
  \A e \in Exchange!Ends : \A p :
    LinksTyped /\ Exchange!Writes(e, p) =>
      /\ link'[Exchange!Peer(e)] = Append(link[Exchange!Peer(e)], Sending(e, p))
      /\ link'[e] = link[e]
      /\ Session(e)' = After(Session(e), p)
      /\ Session(Exchange!Peer(e))' = Session(Exchange!Peer(e))
      /\ Written(Sending(e, p)) = Session(e) /\ Sending(e, p).packet = p
<1> TAKE e \in Exchange!Ends
<1> TAKE p
<1>s. SUFFICES ASSUME LinksTyped, Exchange!Writes(e, p)
       PROVE  /\ link'[Exchange!Peer(e)] = Append(link[Exchange!Peer(e)], Sending(e, p))
              /\ link'[e] = link[e]
              /\ Session(e)' = After(Session(e), p)
              /\ Session(Exchange!Peer(e))' = Session(Exchange!Peer(e))
              /\ Written(Sending(e, p)) = Session(e) /\ Sending(e, p).packet = p
  OBVIOUS
<1>1. Exchange!Peer(e) \in Exchange!Ends /\ Exchange!Peer(e) # e
  BY OtherEnd
<1>2. Written(Sending(e, p)) = Session(e) /\ Sending(e, p).packet = p
  BY DEF Written, Sending, Session
<1>3. /\ link'[Exchange!Peer(e)] = Append(link[Exchange!Peer(e)], Sending(e, p))
      /\ link'[e] = link[e]
  BY <1>s, <1>1 DEF Exchange!Writes, LinksTyped, Sending
<1>4. state'[e] = Exchange!StateAfter(state[e], p) /\ compression'[e] = Exchange!CompressionAfter(compression[e], p)
  BY <1>s, <1>1 DEF Exchange!Writes, Exchange!Commits, LinksTyped
<1>5. state'[Exchange!Peer(e)] = state[Exchange!Peer(e)] /\ compression'[Exchange!Peer(e)] = compression[Exchange!Peer(e)]
  BY <1>s, <1>1 DEF Exchange!Writes, Exchange!Commits, LinksTyped
<1> QED BY <1>2, <1>3, <1>4, <1>5 DEF Session, After

(* The rules of a protocol do not change.                                        *)
LEMMA SameRules ==
  version' = version =>
    /\ \A l, x, y : Leads(l, x, y)' <=> Leads(l, x, y)
    /\ \A l : Still(l)' <=> Still(l)
BY DEF Leads, Behind, Written, After, Exchange!StateAfter, Exchange!CompressionAfter,
       Exchange!CompressionFor, Exchange!Off, Still, Moves

(* A write is safe where nothing is on its way to the writer that moves, and nothing   *)
(* at all if what it writes does.                                               *)
LEMMA WritesInStep ==
  \A e \in Exchange!Ends : \A p :
    /\ LinksTyped /\ InStep /\ version' = version
    /\ Exchange!Writes(e, p) /\ Sending(e, p) \in Crossing
    /\ Still(link[e]) /\ (Moves(p) => link[e] = <<>>)
    => InStep'
<1> TAKE e \in Exchange!Ends
<1> TAKE p
<1>s. SUFFICES ASSUME LinksTyped, InStep, version' = version, Exchange!Writes(e, p),
                      Sending(e, p) \in Crossing, Still(link[e]), Moves(p) => link[e] = <<>>
               PROVE  InStep'
  OBVIOUS
<1>0. PICK d : d = Exchange!Peer(e)
  OBVIOUS
<1>1. d \in Exchange!Ends /\ Exchange!Peer(d) = e /\ \A x \in Exchange!Ends : x = e \/ x = d
  BY <1>0, OtherEnd
<1>2. /\ link'[d] = Append(link[d], Sending(e, p)) /\ link'[e] = link[e]
      /\ Session(e)' = After(Session(e), p) /\ Session(d)' = Session(d)
      /\ Written(Sending(e, p)) = Session(e) /\ Sending(e, p).packet = p
  BY <1>s, <1>0, WriteEffects
<1>3. link[d] \in Seq(Crossing) /\ link[e] \in Seq(Crossing)
  BY <1>s, <1>1 DEF LinksTyped
<1>4. Leads(link[d], Session(d), Session(e)) /\ (link[d] = <<>> \/ Still(link[e]))
  BY <1>s, <1>1 DEF InStep
<1>5. Leads(link'[d], Session(d)', Session(e)')
  BY <1>s, <1>2, <1>3, <1>4, AppendLeads
<1>6. \A l : Still(l)' <=> Still(l)
  BY <1>s, SameRules
<1>7. Still(link'[d]) => Still(link[d]) /\ ~Moves(p)
  <2>1. \A s \in Seq(Crossing) : \A f :
          /\ Len(Append(s, f)) = Len(s) + 1 /\ Len(s) \in Nat
          /\ Append(s, f)[Len(s) + 1] = f /\ \A i \in 1..Len(s) : Append(s, f)[i] = s[i]
    OBVIOUS
  <2> QED BY SMTT(60), <1>2, <1>3, <2>1 DEF Still
<1>8. link'[e] = <<>> \/ Still(link'[d])
  <2>1. CASE link[e] # <<>>
    <3>1. Still(link[d]) /\ ~Moves(p)
      BY <1>s, <1>1, <2>1, <1>0 DEF InStep
    <3>2. \A s \in Seq(Crossing) : \A f :
          /\ Len(Append(s, f)) = Len(s) + 1 /\ Len(s) \in Nat
          /\ Append(s, f)[Len(s) + 1] = f /\ \A i \in 1..Len(s) : Append(s, f)[i] = s[i]
      OBVIOUS
    <3>3. \A i \in 1..Len(link'[d]) : i = Len(link[d]) + 1 \/ i \in 1..Len(link[d])
      BY <1>2, <1>3, <3>2
    <3> QED BY <1>2, <1>3, <3>1, <3>2, <3>3 DEF Still
  <2> QED BY <1>2, <2>1
<1>9. Still(link'[d]) => Leads(link'[e], Session(e)', Session(d)')
  <2>1. Still(link'[d]) => Session(e)' = Session(e)
    BY <1>2, <1>7, Rests DEF Session
  <2> QED BY <1>s, <1>0, <1>2, <1>7, <2>1 DEF InStep
<1>10. link'[d] = <<>> \/ Still(link'[e])
  BY <1>s, <1>2
<1>11. \A l, x, y : Leads(l, x, y)' <=> Leads(l, x, y)
  BY <1>s, SameRules
<1>12. /\ Still(link[d])' => Leads(link[e], Session(e), Session(d))'
       /\ Still(link[e])' => Leads(link[d], Session(d), Session(e))'
       /\ (link[e] = <<>> \/ Still(link[d]))' /\ (link[d] = <<>> \/ Still(link[e]))'
  BY <1>5, <1>6, <1>8, <1>9, <1>10, <1>11
<1> QED BY <1>0, <1>1, <1>12 DEF InStep

(* A read.                                                                     *)
LEMMA ReadEffects ==
  \A e \in Exchange!Ends :
    LinksTyped /\ Exchange!Reads(e) =>
      /\ link[e] # <<>> /\ link'[e] = Tail(link[e])
      /\ link'[Exchange!Peer(e)] = link[Exchange!Peer(e)]
      /\ Session(e)' = After(Session(e), Head(link[e]).packet)
      /\ Session(Exchange!Peer(e))' = Session(Exchange!Peer(e))
<1> TAKE e \in Exchange!Ends
<1>s. SUFFICES ASSUME LinksTyped, Exchange!Reads(e)
       PROVE  /\ link[e] # <<>> /\ link'[e] = Tail(link[e])
              /\ link'[Exchange!Peer(e)] = link[Exchange!Peer(e)]
              /\ Session(e)' = After(Session(e), Head(link[e]).packet)
              /\ Session(Exchange!Peer(e))' = Session(Exchange!Peer(e))
  OBVIOUS
<1>1. Exchange!Peer(e) \in Exchange!Ends /\ Exchange!Peer(e) # e
  BY OtherEnd
<1>2. /\ link[e] # <<>> /\ link'[e] = Tail(link[e])
      /\ link'[Exchange!Peer(e)] = link[Exchange!Peer(e)]
  BY <1>s, <1>1 DEF Exchange!Reads, LinksTyped
<1> DEFINE p == Head(link[e]).packet
<1>3. Exchange!Commits(e, p)
  BY <1>s DEF Exchange!Reads
<1> HIDE DEF p
<1>4. state'[e] = Exchange!StateAfter(state[e], p) /\ compression'[e] = Exchange!CompressionAfter(compression[e], p)
  BY <1>s, <1>1, <1>3 DEF Exchange!Commits, LinksTyped
<1>5. state'[Exchange!Peer(e)] = state[Exchange!Peer(e)] /\ compression'[Exchange!Peer(e)] = compression[Exchange!Peer(e)]
  BY <1>s, <1>1, <1>3 DEF Exchange!Commits, LinksTyped
<1>6. Session(e)' = After(Session(e), p) /\ Session(Exchange!Peer(e))' = Session(Exchange!Peer(e))
  BY <1>4, <1>5 DEF Session, After
<1> QED BY <1>2, <1>6 DEF p

(* What there is to read was written in the session of its reader; reading it is     *)
(* always safe.                                                                *)
LEMMA ReadsAsWrittenBy ==
  \A e \in Exchange!Ends :
    LinksTyped /\ InStep /\ link[e] # <<>> => Written(Head(link[e])) = Session(e)
<1> TAKE e \in Exchange!Ends
<1>s. SUFFICES ASSUME LinksTyped, InStep, link[e] # <<>> PROVE Written(Head(link[e])) = Session(e)
  OBVIOUS
<1>1. link[e] \in Seq(Crossing)
  BY <1>s DEF LinksTyped
<1>2. Leads(link[e], Session(e), Session(Exchange!Peer(e)))
  BY <1>s DEF InStep
<1> QED BY <1>s, <1>1, <1>2, TailLeads

LEMMA StillRest ==
  ASSUME NEW S, NEW l \in Seq(S), l # <<>>
  PROVE  Still(l) <=> ~Moves(Head(l).packet) /\ Still(Tail(l))
<1>1. /\ Len(l) \in Nat \ {0} /\ Len(Tail(l)) = Len(l) - 1
      /\ \A i \in 1..Len(Tail(l)) : Tail(l)[i] = l[i + 1]
      /\ Head(l) = l[1]
  BY RestOf
<1>2. ASSUME Still(l) PROVE ~Moves(Head(l).packet) /\ Still(Tail(l))
  <2>1. 1 \in 1..Len(l) /\ \A i \in 1..Len(Tail(l)) : i + 1 \in 1..Len(l)
    BY <1>1
  <2> QED BY <1>1, <1>2, <2>1 DEF Still
<1>3. ASSUME ~Moves(Head(l).packet), Still(Tail(l)), NEW i \in 1..Len(l) PROVE ~Moves(l[i].packet)
  <2>1. CASE i = 1
    BY <1>1, <1>3, <2>1
  <2>2. CASE i # 1
    <3>1. i - 1 \in 1..Len(Tail(l)) /\ Tail(l)[i - 1] = l[(i - 1) + 1] /\ (i - 1) + 1 = i
      BY <1>1, <2>2
    <3> QED BY <1>3, <3>1 DEF Still
  <2> QED BY <2>1, <2>2
<1> QED BY <1>2, <1>3 DEF Still

LEMMA ReadsInStep ==
  \A e \in Exchange!Ends :
    LinksTyped /\ InStep /\ version' = version /\ Exchange!Reads(e) => InStep'
<1> TAKE e \in Exchange!Ends
<1>s. SUFFICES ASSUME LinksTyped, InStep, version' = version, Exchange!Reads(e) PROVE InStep'
  OBVIOUS
<1>0. PICK d : d = Exchange!Peer(e)
  OBVIOUS
<1>1. d \in Exchange!Ends /\ Exchange!Peer(d) = e /\ \A x \in Exchange!Ends : x = e \/ x = d
  BY <1>0, OtherEnd
<1>a. PICK p : p = Head(link[e]).packet
  OBVIOUS
<1>2. /\ link[e] # <<>> /\ link'[e] = Tail(link[e]) /\ link'[d] = link[d]
      /\ Session(e)' = After(Session(e), p) /\ Session(d)' = Session(d)
  BY <1>s, <1>0, <1>a, ReadEffects
<1>3. link[e] \in Seq(Crossing) /\ Still(link[d])
  BY <1>s, <1>0, <1>2 DEF LinksTyped, InStep
<1>4. Leads(link[e], Session(e), Session(d))
  BY <1>s, <1>0, <1>3 DEF InStep
<1>5. Leads(link'[e], Session(e)', Session(d)')
  BY <1>2, <1>3, <1>4, <1>a, TailLeads
<1>6. Still(link[e]) <=> ~Moves(p) /\ Still(link'[e])
  BY <1>2, <1>3, <1>a, StillRest
<1>7. link'[d] = <<>> \/ Still(link'[e])
  BY <1>s, <1>1, <1>2, <1>6 DEF InStep
<1>8. Still(link'[e]) => Leads(link'[d], Session(d)', Session(e)')
  <2>1. CASE link[d] # <<>>
    <3>0. Still(link[e])
      BY <1>s, <1>1, <2>1 DEF InStep
    <3>1. Still(link[e]) /\ Session(e)' = Session(e)
      BY <3>0, <1>2, <1>6, Rests DEF Session
    <3> QED BY <1>s, <1>1, <1>2, <3>1 DEF InStep
  <2>2. CASE link[d] = <<>> /\ Still(link'[e])
    <3>1. link'[e] \in Seq(Crossing)
      BY <1>2, <1>3, RestOf
    <3>2. PICK s, c : Session(e)' = <<s, c>>
      BY DEF Session
    <3>3. Session(d)' = Session(e)'
      BY <1>5, <2>2, <3>1, <3>2, StillLeads
    <3> QED BY <1>2, <2>2, <3>3 DEF Leads
  <2> QED BY <2>1, <2>2
<1>11. /\ \A l, x, y : Leads(l, x, y)' <=> Leads(l, x, y)
       /\ \A l : Still(l)' <=> Still(l)
  BY <1>s, SameRules
<1>12. /\ Still(link[d])' => Leads(link[e], Session(e), Session(d))'
       /\ Still(link[e])' => Leads(link[d], Session(d), Session(e))'
       /\ (link[e] = <<>> \/ Still(link[d]))' /\ (link[d] = <<>> \/ Still(link[e]))'
  BY <1>2, <1>3, <1>5, <1>7, <1>8, <1>11
<1> QED BY <1>0, <1>1, <1>12 DEF InStep

LEMMA Appended ==
  \A S : \A s \in Seq(S) : \A f \in S :
    /\ Len(Append(s, f)) = Len(s) + 1 /\ Len(s) \in Nat /\ Append(s, f) \in Seq(S)
    /\ \A i \in 1..Len(s) : Append(s, f)[i] = s[i]
    /\ Append(s, f)[Len(s) + 1] = f
    /\ \A i \in 1..(Len(s) + 1) : i \in 1..Len(s) \/ i = Len(s) + 1
OBVIOUS

PacketTypes == [kind : Kinds, arg : Int \union {"status", "login"}]

LEMMA SentIsTyped ==
  \A e \in Exchange!Ends : \A p \in PacketTypes :
    LinksTyped => Sending(e, p) \in Crossing /\ state[e] \in Exchange!States /\ compression[e] \in Levels
BY DEF LinksTyped, Sending, Crossing, PacketTypes

(* What a write of either end changes.                                          *)
LEMMA Sent ==
  \A e \in Exchange!Ends : \A p \in PacketTypes :
    LinksTyped /\ Exchange!Writes(e, p) =>
      LET d == Exchange!Peer(e)
          n == Len(link[d])
      IN  /\ n \in Nat /\ n < MaxInFlight
          /\ Len(link'[d]) = n + 1 /\ link'[d] \in Seq(Crossing) /\ link'[e] = link[e]
          /\ \A i \in 1..n : link'[d][i] = link[d][i]
          /\ link'[d][n + 1] = Sending(e, p)
          /\ \A i \in 1..(n + 1) : i \in 1..n \/ i = n + 1
          /\ state'[e] = Exchange!StateAfter(state[e], p) /\ state'[d] = state[d]
          /\ compression'[e] = Exchange!CompressionAfter(compression[e], p)
          /\ compression'[d] = compression[d]
          /\ state' = [state EXCEPT ![e] = Exchange!StateAfter(@, p)]
          /\ compression' = [compression EXCEPT ![e] = Exchange!CompressionAfter(@, p)]
          /\ link' = [link EXCEPT ![d] = Append(link[d], Sending(e, p))]
<1> TAKE e \in Exchange!Ends
<1> TAKE p \in PacketTypes
<1> DEFINE d == Exchange!Peer(e)
           n == Len(link[d])
<1>s. SUFFICES ASSUME LinksTyped, Exchange!Writes(e, p)
      PROVE /\ n \in Nat /\ n < MaxInFlight
            /\ Len(link'[d]) = n + 1 /\ link'[d] \in Seq(Crossing) /\ link'[e] = link[e]
            /\ \A i \in 1..n : link'[d][i] = link[d][i]
            /\ link'[d][n + 1] = Sending(e, p)
            /\ \A i \in 1..(n + 1) : i \in 1..n \/ i = n + 1
            /\ state'[e] = Exchange!StateAfter(state[e], p) /\ state'[d] = state[d]
            /\ compression'[e] = Exchange!CompressionAfter(compression[e], p)
            /\ compression'[d] = compression[d]
            /\ state' = [state EXCEPT ![e] = Exchange!StateAfter(@, p)]
            /\ compression' = [compression EXCEPT ![e] = Exchange!CompressionAfter(@, p)]
            /\ link' = [link EXCEPT ![d] = Append(link[d], Sending(e, p))]
  OBVIOUS
<1>1. d \in Exchange!Ends /\ d # e
  BY OtherEnd
<1>2. Sending(e, p) \in Crossing /\ link[d] \in Seq(Crossing)
  BY <1>s, <1>1, SentIsTyped DEF LinksTyped
<1>3. /\ n < MaxInFlight /\ link' = [link EXCEPT ![d] = Append(link[d], Sending(e, p))]
      /\ state' = [state EXCEPT ![e] = Exchange!StateAfter(@, p)]
      /\ compression' = [compression EXCEPT ![e] = Exchange!CompressionAfter(@, p)]
  BY <1>s DEF Exchange!Writes, Exchange!Commits, Sending
<1> HIDE DEF d
<1>4. link'[d] = Append(link[d], Sending(e, p)) /\ link'[e] = link[e]
  BY <1>s, <1>1, <1>3 DEF LinksTyped
<1>5. /\ state'[e] = Exchange!StateAfter(state[e], p) /\ state'[d] = state[d]
      /\ compression'[e] = Exchange!CompressionAfter(compression[e], p)
      /\ compression'[d] = compression[d]
  BY <1>s, <1>1, <1>3 DEF LinksTyped
<1>6. /\ Len(link'[d]) = n + 1 /\ link'[d] \in Seq(Crossing) /\ n \in Nat
      /\ \A i \in 1..n : link'[d][i] = link[d][i]
      /\ link'[d][n + 1] = Sending(e, p)
      /\ \A i \in 1..(n + 1) : i \in 1..n \/ i = n + 1
  BY <1>2, <1>4, Appended
<1> QED BY <1>3, <1>4, <1>5, <1>6 DEF d

(* Either end's packets lead to states of the protocol.                           *)
LEMMA MovesTyped ==
  \A s \in Exchange!States : \A c \in Levels : \A f :
    /\ version \in {47, 775} /\ (OfClient(f) \/ OfServer(f))
    => /\ Exchange!StateAfter(s, f.packet) \in Exchange!States
       /\ Exchange!CompressionAfter(c, f.packet) \in Levels
       /\ version = 47 /\ s # "configuration" => Exchange!StateAfter(s, f.packet) # "configuration"
       /\ s # "handshaking" => Exchange!StateAfter(s, f.packet) # "handshaking"
<1> TAKE s \in Exchange!States
<1> TAKE c \in Levels
<1> TAKE f
<1>s. SUFFICES ASSUME version \in {47, 775}, OfClient(f) \/ OfServer(f)
      PROVE /\ Exchange!StateAfter(s, f.packet) \in Exchange!States
            /\ Exchange!CompressionAfter(c, f.packet) \in Levels
            /\ version = 47 /\ s # "configuration" => Exchange!StateAfter(s, f.packet) # "configuration"
            /\ s # "handshaking" => Exchange!StateAfter(s, f.packet) # "handshaking"
  OBVIOUS
<1>1. f.packet.kind = "compress" => f.packet.arg \in Int
  BY <1>s DEF OfClient, OfServer
<1>2. Exchange!CompressionAfter(c, f.packet) \in Levels
  BY <1>1 DEF Exchange!CompressionAfter, Exchange!CompressionFor, Levels, Exchange!Off
<1>3. /\ f.packet.kind = "handshake" => f.packet.arg \in {"status", "login"}
      /\ f.packet.kind \in {"acknowledged", "started"} => version = 775
  <2>1. CASE OfClient(f)
    BY ZenonT(60), <2>1 DEF OfClient
  <2>2. CASE OfServer(f)
    BY <2>2 DEF OfServer
  <2> QED BY <1>s, <2>1, <2>2
<1>4. /\ Exchange!StateAfter(s, f.packet) \in Exchange!States
      /\ version = 47 /\ s # "configuration" => Exchange!StateAfter(s, f.packet) # "configuration"
      /\ s # "handshaking" => Exchange!StateAfter(s, f.packet) # "handshaking"
  BY <1>3 DEF Exchange!StateAfter, Exchange!States
<1> QED BY <1>2, <1>4

LEMMA SameKinds ==
  version' = version => \A f : (OfServer(f)' <=> OfServer(f)) /\ (OfClient(f)' <=> OfClient(f))
<1> SUFFICES ASSUME version' = version, NEW f
             PROVE  (OfServer(f)' <=> OfServer(f)) /\ (OfClient(f)' <=> OfClient(f))
  OBVIOUS
<1>1. OfServer(f)' <=> OfServer(f)
  BY DEF OfServer
<1>2. OfClient(f)' <=> OfClient(f)
  BY DEF OfClient
<1> QED BY <1>1, <1>2

LEMMA SentKeepsTypes ==
  \A e \in Exchange!Ends : \A p \in PacketTypes :
    /\ LinksTyped /\ version' = version /\ Exchange!Writes(e, p)
    /\ e = "client" => OfClient(Sending(e, p))
    /\ e = "server" => OfServer(Sending(e, p))
    => LinksTyped'
<1> TAKE e \in Exchange!Ends
<1> TAKE p \in PacketTypes
<1>s. SUFFICES ASSUME LinksTyped, version' = version, Exchange!Writes(e, p),
                      e = "client" => OfClient(Sending(e, p)),
                      e = "server" => OfServer(Sending(e, p))
               PROVE  LinksTyped'
  OBVIOUS
<1> DEFINE d == Exchange!Peer(e)
           n == Len(link[d])
<1>1. /\ n \in Nat /\ n < MaxInFlight
      /\ Len(link'[d]) = n + 1 /\ link'[d] \in Seq(Crossing) /\ link'[e] = link[e]
      /\ \A i \in 1..n : link'[d][i] = link[d][i]
      /\ link'[d][n + 1] = Sending(e, p)
      /\ \A i \in 1..(n + 1) : i \in 1..n \/ i = n + 1
      /\ state'[e] = Exchange!StateAfter(state[e], p) /\ state'[d] = state[d]
      /\ compression'[e] = Exchange!CompressionAfter(compression[e], p)
      /\ compression'[d] = compression[d]
      /\ state' = [state EXCEPT ![e] = Exchange!StateAfter(@, p)]
      /\ compression' = [compression EXCEPT ![e] = Exchange!CompressionAfter(@, p)]
      /\ link' = [link EXCEPT ![d] = Append(link[d], Sending(e, p))]
  BY <1>s, Sent
<1>2. /\ d \in Exchange!Ends /\ d # e /\ \A x \in Exchange!Ends : x = e \/ x = d
      /\ (e = "client" /\ d = "server") \/ (e = "server" /\ d = "client")
  BY OtherEnd DEF Exchange!Ends, Exchange!Peer
<1> HIDE DEF d, n
<1>3. /\ Exchange!StateAfter(state[e], p) \in Exchange!States
      /\ Exchange!CompressionAfter(compression[e], p) \in Levels
      /\ version = 47 => Exchange!StateAfter(state[e], p) # "configuration"
  <2>1. Sending(e, p).packet = p
    BY DEF Sending
  <2> QED BY <1>s, <1>2, <2>1, MovesTyped DEF LinksTyped
<1>4. /\ state' \in [Exchange!Ends -> Exchange!States] /\ compression' \in [Exchange!Ends -> Levels]
      /\ version' \in {47, 775}
  BY <1>s, <1>1, <1>3 DEF LinksTyped
<1>5. version' = 47 => \A x \in Exchange!Ends : state'[x] # "configuration"
  BY <1>s, <1>1, <1>2, <1>3 DEF LinksTyped
<1>6. link' \in [Exchange!Ends -> Seq(Crossing)]
  <2>1. Append(link[d], Sending(e, p)) \in Seq(Crossing)
    <3>1. Sending(e, p) \in Crossing
      BY <1>s, SentIsTyped
    <3>2. link[d] \in Seq(Crossing)
      BY <1>s, <1>2 DEF LinksTyped
    <3> QED BY <3>1, <3>2, Appended
  <2> QED BY <1>s, <1>1, <2>1 DEF LinksTyped
<1>7. \A x \in Exchange!Ends : Len(link'[x]) <= MaxInFlight
  <2>1. Len(link'[d]) <= MaxInFlight
    BY <1>1, ExchangeAssumption DEF Exchange!SessionsAssumption
  <2> QED BY <1>s, <1>1, <1>2, <2>1 DEF LinksTyped
<1>8. \A f : (OfServer(f)' <=> OfServer(f)) /\ (OfClient(f)' <=> OfClient(f))
  BY <1>s, SameKinds
<1>9. \A i \in 1..Len(link'["client"]) : OfServer(link'["client"][i])
  BY <1>s, <1>1, <1>2 DEF LinksTyped, n
<1>10. \A i \in 1..Len(link'["server"]) : OfClient(link'["server"][i])
  BY <1>s, <1>1, <1>2 DEF LinksTyped, n
<1> QED BY <1>4, <1>5, <1>6, <1>7, <1>8, <1>9, <1>10 DEF LinksTyped

(* What a read changes.                                                        *)
LEMMA Received ==
  \A e \in Exchange!Ends :
    LinksTyped /\ Exchange!Reads(e) =>
      LET d == Exchange!Peer(e)
          n == Len(link[e])
          p == link[e][1].packet
      IN  /\ n \in Nat \ {0} /\ p = Head(link[e]).packet /\ 1 \in 1..n
          /\ Len(link'[e]) = n - 1 /\ link'[e] \in Seq(Crossing) /\ link'[d] = link[d]
          /\ link'[e] = <<>> <=> n = 1
          /\ \A i \in 1..(n - 1) : i + 1 \in 1..n /\ link'[e][i] = link[e][i + 1]
          /\ state'[e] = Exchange!StateAfter(state[e], p) /\ state'[d] = state[d]
          /\ compression'[e] = Exchange!CompressionAfter(compression[e], p)
          /\ compression'[d] = compression[d]
          /\ state' = [state EXCEPT ![e] = Exchange!StateAfter(@, p)]
          /\ compression' = [compression EXCEPT ![e] = Exchange!CompressionAfter(@, p)]
          /\ link' = [link EXCEPT ![e] = Tail(link[e])]
<1> TAKE e \in Exchange!Ends
<1> DEFINE d == Exchange!Peer(e)
           n == Len(link[e])
           p == link[e][1].packet
<1>s. SUFFICES ASSUME LinksTyped, Exchange!Reads(e)
      PROVE /\ n \in Nat \ {0} /\ p = Head(link[e]).packet /\ 1 \in 1..n
            /\ Len(link'[e]) = n - 1 /\ link'[e] \in Seq(Crossing) /\ link'[d] = link[d]
            /\ link'[e] = <<>> <=> n = 1
            /\ \A i \in 1..(n - 1) : i + 1 \in 1..n /\ link'[e][i] = link[e][i + 1]
            /\ state'[e] = Exchange!StateAfter(state[e], p) /\ state'[d] = state[d]
            /\ compression'[e] = Exchange!CompressionAfter(compression[e], p)
            /\ compression'[d] = compression[d]
            /\ state' = [state EXCEPT ![e] = Exchange!StateAfter(@, p)]
            /\ compression' = [compression EXCEPT ![e] = Exchange!CompressionAfter(@, p)]
            /\ link' = [link EXCEPT ![e] = Tail(link[e])]
  OBVIOUS
<1>1. d \in Exchange!Ends /\ d # e
  BY OtherEnd
<1>2. link[e] \in Seq(Crossing) /\ link[e] # <<>>
  BY <1>s DEF LinksTyped, Exchange!Reads
<1>3. /\ n \in Nat \ {0} /\ Len(Tail(link[e])) = n - 1 /\ Tail(link[e]) \in Seq(Crossing)
      /\ \A i \in 1..Len(Tail(link[e])) : Tail(link[e])[i] = link[e][i + 1]
      /\ Head(link[e]) = link[e][1]
      /\ Tail(link[e]) = <<>> <=> Len(Tail(link[e])) = 0
  BY <1>2, RestOf
<1>4. p = Head(link[e]).packet
  BY <1>3
<1>5. Exchange!Commits(e, p)
  BY <1>s, <1>4 DEF Exchange!Reads
<1>6. link' = [link EXCEPT ![e] = Tail(link[e])]
  BY <1>s DEF Exchange!Reads
<1> HIDE DEF d, p
<1>7. link'[e] = Tail(link[e]) /\ link'[d] = link[d]
  BY <1>s, <1>1, <1>6 DEF LinksTyped
<1>8. /\ state' = [state EXCEPT ![e] = Exchange!StateAfter(@, p)]
      /\ compression' = [compression EXCEPT ![e] = Exchange!CompressionAfter(@, p)]
  BY <1>5 DEF Exchange!Commits
<1>9. /\ state'[e] = Exchange!StateAfter(state[e], p) /\ state'[d] = state[d]
      /\ compression'[e] = Exchange!CompressionAfter(compression[e], p)
      /\ compression'[d] = compression[d]
  BY <1>s, <1>1, <1>8 DEF LinksTyped
<1>10. /\ 1 \in 1..n
       /\ link'[e] = <<>> <=> n = 1
       /\ \A i \in 1..(n - 1) : i + 1 \in 1..n /\ link'[e][i] = link[e][i + 1]
  BY <1>3, <1>7
<1> QED BY <1>3, <1>4, <1>6, <1>7, <1>8, <1>9, <1>10 DEF d

LEMMA ReceivedKeepsTypes ==
  \A e \in Exchange!Ends :
    LinksTyped /\ version' = version /\ Exchange!Reads(e) => LinksTyped'
<1> TAKE e \in Exchange!Ends
<1>s. SUFFICES ASSUME LinksTyped, version' = version, Exchange!Reads(e) PROVE LinksTyped'
  OBVIOUS
<1> DEFINE d == Exchange!Peer(e)
           n == Len(link[e])
           p == link[e][1].packet
<1>1. /\ n \in Nat \ {0} /\ 1 \in 1..n
      /\ Len(link'[e]) = n - 1 /\ link'[e] \in Seq(Crossing) /\ link'[d] = link[d]
      /\ \A i \in 1..(n - 1) : i + 1 \in 1..n /\ link'[e][i] = link[e][i + 1]
      /\ state'[e] = Exchange!StateAfter(state[e], p) /\ state'[d] = state[d]
      /\ state' = [state EXCEPT ![e] = Exchange!StateAfter(@, p)]
      /\ compression' = [compression EXCEPT ![e] = Exchange!CompressionAfter(@, p)]
      /\ link' = [link EXCEPT ![e] = Tail(link[e])]
  BY <1>s, Received
<1>2. /\ d \in Exchange!Ends /\ d # e /\ \A x \in Exchange!Ends : x = e \/ x = d
      /\ (e = "client" /\ d = "server") \/ (e = "server" /\ d = "client")
  BY OtherEnd DEF Exchange!Ends, Exchange!Peer
<1>0. OfClient(link[e][1]) \/ OfServer(link[e][1])
  <2>1. CASE e = "client"
    BY <1>s, <1>1, <2>1 DEF LinksTyped
  <2>2. CASE e = "server"
    BY <1>s, <1>1, <2>2 DEF LinksTyped
  <2> QED BY <1>2, <2>1, <2>2
<1> HIDE DEF d, n
<1>3. /\ Exchange!StateAfter(state[e], p) \in Exchange!States
      /\ Exchange!CompressionAfter(compression[e], p) \in Levels
      /\ version = 47 => Exchange!StateAfter(state[e], p) # "configuration"
  BY <1>s, <1>0, MovesTyped DEF LinksTyped
<1> HIDE DEF p
<1>4. /\ state' \in [Exchange!Ends -> Exchange!States] /\ compression' \in [Exchange!Ends -> Levels]
      /\ version' \in {47, 775}
  BY <1>s, <1>1, <1>3 DEF LinksTyped
<1>5. version' = 47 => \A x \in Exchange!Ends : state'[x] # "configuration"
  BY <1>s, <1>1, <1>2, <1>3 DEF LinksTyped
<1>6. link' \in [Exchange!Ends -> Seq(Crossing)]
  <2>1. Tail(link[e]) \in Seq(Crossing)
    BY <1>s, <1>1 DEF LinksTyped
  <2> QED BY <1>s, <1>1, <2>1 DEF LinksTyped
<1>7. \A x \in Exchange!Ends : Len(link'[x]) <= MaxInFlight
  <2>1. Len(link'[e]) <= MaxInFlight
    BY <1>s, <1>1, ExchangeAssumption DEF Exchange!SessionsAssumption, LinksTyped, n
  <2> QED BY <1>s, <1>1, <1>2, <2>1 DEF LinksTyped
<1>8. \A f : (OfServer(f)' <=> OfServer(f)) /\ (OfClient(f)' <=> OfClient(f))
  BY <1>s, SameKinds
<1>9. \A i \in 1..Len(link'["client"]) : OfServer(link'["client"][i])
  <2>1. CASE e = "client"
    BY <1>s, <1>1, <1>2, <2>1 DEF LinksTyped, n
  <2>2. CASE e = "server"
    BY <1>s, <1>1, <1>2, <2>2 DEF LinksTyped, n
  <2> QED BY <1>2, <2>1, <2>2
<1>10. \A i \in 1..Len(link'["server"]) : OfClient(link'["server"][i])
  <2>1. CASE e = "client"
    BY <1>s, <1>1, <1>2, <2>1 DEF LinksTyped, n
  <2>2. CASE e = "server"
    BY <1>s, <1>1, <1>2, <2>2 DEF LinksTyped, n
  <2> QED BY <1>2, <2>1, <2>2
<1> QED BY <1>4, <1>5, <1>6, <1>7, <1>8, <1>9, <1>10 DEF LinksTyped

LEMMA Pair ==
  /\ "client" \in Exchange!Ends /\ "server" \in Exchange!Ends
  /\ Exchange!Peer("client") = "server" /\ Exchange!Peer("server") = "client"
BY DEF Exchange!Ends, Exchange!Peer

(* In login the server asks nothing before it has read all there is.                *)
LEMMA QuietLogin ==
  StepIInv /\ state["server"] = "login" /\ asked = "none" => link["server"] = <<>>
<1>s. SUFFICES ASSUME StepIInv, state["server"] = "login", asked = "none", link["server"] # <<>>
               PROVE  FALSE
  OBVIOUS
<1>1. Written(Head(link["server"])) = Session("server")
  BY <1>s, Pair, ReadsAsWrittenBy DEF StepIInv
<1>2. link["server"] \in Seq(Crossing) /\ \A i \in 1..Len(link["server"]) : OfClient(link["server"][i])
  BY <1>s, Pair DEF StepIInv, LinksTyped
<1>3. 1 \in 1..Len(link["server"]) /\ Head(link["server"]) = link["server"][1]
  BY <1>s, <1>2, RestOf
<1>4. link["server"][1].state = "login"
  BY <1>s, <1>1, <1>3 DEF Written, Session
<1>5. Answering(1)
  BY ZenonT(60), <1>2, <1>3, <1>4 DEF Answering, Reply, OfClient
<1> QED BY <1>s, <1>3, <1>5 DEF StepIInv, Rounds

(* Behind the handshake, a server that waits for nothing has nothing to read that      *)
(* moves.                                                                      *)
LEMMA QuietServer ==
  StepIInv /\ state["server"] # "handshaking" /\ (asked = "none" \/ state["server"] = "status")
    => Still(link["server"])
<1>s. SUFFICES ASSUME StepIInv, state["server"] # "handshaking",
                      asked = "none" \/ state["server"] = "status",
                      NEW i \in 1..Len(link["server"]), Moves(link["server"][i].packet)
               PROVE  FALSE
  BY DEF Still
<1>1. OfClient(link["server"][i])
  BY <1>s DEF StepIInv, LinksTyped
<1>2. link["server"][i].packet.kind # "handshake"
  BY <1>s DEF StepIInv, Begins
<1>3. Answering(i)
  BY <1>s, <1>1, <1>2 DEF Answering, Reply, OfClient, Moves
<1>4. asked # "none" /\ owed = "none"
  BY <1>3 , <1>s DEF StepIInv, Rounds
<1>5. state["client"] = "status" /\ owed = "who"
  BY <1>s, <1>4 DEF StepIInv, Begins
<1> QED BY <1>4, <1>5

(* What moves on its way to the client finds it in login, or in play without data.    *)
LEMMA MovesFind ==
  StepIInv /\ ~Still(link["client"])
    => state["client"] = "login" \/ (state["client"] = "play" /\ ~joined["client"])
<1>s. SUFFICES ASSUME StepIInv, ~Still(link["client"])
      PROVE state["client"] = "login" \/ (state["client"] = "play" /\ ~joined["client"])
  OBVIOUS
<1>1. link["server"] = <<>>
  BY <1>s, Pair DEF StepIInv, InStep
<1>2. Still(link["server"])
  BY <1>1 DEF Still
<1>3. Leads(link["client"], Session("client"), Session("server"))
  BY <1>s, <1>2, Pair DEF StepIInv, InStep
<1>4. link["client"] \in Seq(Crossing)
  BY <1>s, Pair DEF StepIInv, LinksTyped
<1>5. PICK i \in 1..Len(link["client"]) :
        Moves(link["client"][i].packet) /\ Written(link["client"][i]) = Session("client")
  BY <1>s, <1>3, <1>4, FirstMove DEF Session
<1>6. link["client"][i].state = state["client"] /\ OfServer(link["client"][i])
  BY <1>s, <1>5 DEF Written, Session, StepIInv, LinksTyped
<1>7. link["client"][i].packet.kind = "compress" \/ link["client"][i].state = "login"
  BY <1>5, <1>6 DEF Moves, OfServer
<1>8. link["client"][i].packet.kind = "compress" =>
        ~joined["client"] /\ link["client"][i].state \in {"login", "play"}
  BY <1>s, <1>6 DEF StepIInv, Joins, OfServer
<1> QED BY <1>6, <1>7, <1>8

LEMMA ClientHandshakesKeeps ==
  StepIInv /\ version' = version /\ Exchange!ClientHandshakes => StepIInv'
<1>s. SUFFICES ASSUME StepIInv, version' = version, Exchange!ClientHandshakes PROVE StepIInv'
  OBVIOUS
<1>1. PICK next \in {"status", "login"} : Exchange!Writes("client", Exchange!Packet("handshake", next))
  BY <1>s DEF Exchange!ClientHandshakes
<1> DEFINE q == Exchange!Packet("handshake", next)
           f == Sending("client", q)
<1>2. /\ state["client"] = "handshaking" /\ state["server"] = "handshaking"
      /\ link["client"] = <<>> /\ link["server"] = <<>> /\ owed = "who" /\ asked # "none"
      /\ asked' = asked /\ owed' = owed /\ joined' = joined
  BY <1>s DEF Exchange!ClientHandshakes, StepIInv, Begins, Rounds
<1>3. q \in PacketTypes /\ q.kind = "handshake" /\ q.arg = next
  BY DEF PacketTypes, Kinds, Exchange!Packet
<1>4. f.packet = q /\ f.state = "handshaking" /\ f \in Crossing /\ OfClient(f)
  <2>1. f.packet = q /\ f.state = "handshaking"
    BY <1>2 DEF Sending
  <2>2. f \in Crossing
    BY <1>s, <1>3, Pair, SentIsTyped DEF StepIInv
  <2> HIDE DEF f, q
  <2> QED BY <1>3, <2>1, <2>2 DEF OfClient
<1> HIDE DEF f, q
<1>5. /\ Len(link'["server"]) = 1 /\ link'["client"] = <<>> /\ link'["server"][1] = f
      /\ state'["client"] = next /\ state'["server"] = "handshaking"
      /\ \A i \in 1..1 : i = 1
  <2>1. Len(link["server"]) = 0
    BY <1>2
  <2>2. /\ Len(link'["server"]) = Len(link["server"]) + 1 /\ link'["client"] = link["client"]
        /\ link'["server"][Len(link["server"]) + 1] = f
        /\ state'["client"] = Exchange!StateAfter(state["client"], q)
        /\ state'["server"] = state["server"]
    BY <1>s, <1>1, <1>3, Pair, Sent DEF StepIInv, f, q
  <2> QED BY <1>2, <1>3, <2>1, <2>2 DEF Exchange!StateAfter
<1>6. LinksTyped'
  BY <1>s, <1>1, <1>3, <1>4, Pair, SentKeepsTypes DEF StepIInv, f, q
<1>7. InStep'
  <2>1. Still(link["client"])
    BY <1>2 DEF Still
  <2> QED BY <1>s, <1>1, <1>2, <1>4, <2>1, Pair, WritesInStep DEF StepIInv, f, q
<1>8. AppsTyped'
  BY <1>s, <1>2 DEF StepIInv, AppsTyped
<1>9. Rounds'
  BY <1>2, <1>3, <1>4, <1>5 DEF Rounds, Answering, Asking, Reply
<1>10. OwedFits'
  BY <1>2, <1>5 DEF OwedFits
<1>11. Begins'
  BY <1>2, <1>3, <1>4, <1>5 DEF Begins
<1>12. Joins'
  <2>1. ~PlayData(f) /\ f.packet.kind # "compress"
    BY <1>3, <1>4 DEF PlayData
  <2>3. joined["client"]' = joined["client"] /\ joined["server"]' = joined["server"]
    BY <1>2
  <2>4. ~joined["server"] /\ ~joined["client"]
    BY <1>s, <1>2 DEF StepIInv, Joins
  <2> QED BY <1>5, <2>1, <2>3, <2>4 DEF Joins, PlayData
<1> QED BY <1>6, <1>7, <1>8, <1>9, <1>10, <1>11, <1>12 DEF StepIInv

LEMMA AnswersAre ==
  Exchange!Answers = [who |-> "login start", ask |-> "answer", success |-> "acknowledged",
                      finish |-> "finished", start |-> "started"]
BY DEF Exchange!Answers

LEMMA AnswersTo ==
  \A q : q \in DOMAIN Exchange!Answers <=> q \in {"who", "ask", "success", "finish", "start"}
BY AnswersAre

LEMMA AnswerKinds ==
  /\ Exchange!Answers["who"] = "login start"
  /\ Exchange!Answers["ask"] = "answer"
  /\ Exchange!Answers["success"] = "acknowledged"
  /\ Exchange!Answers["finish"] = "finished"
  /\ Exchange!Answers["start"] = "started"
BY AnswersAre

LEMMA ClientAnswersKeeps ==
  StepIInv /\ version' = version /\ Exchange!ClientAnswers => StepIInv'
<1>s. SUFFICES ASSUME StepIInv, version' = version, Exchange!ClientAnswers PROVE StepIInv'
  OBVIOUS
<1> DEFINE kind == Exchange!Answers[owed]
           q == Exchange!Packet(kind, 0)
           f == Sending("client", q)
           n == Len(link["server"])
<1>1. /\ Exchange!Writes("client", q) /\ owed # "none" /\ owed' = "none"
      /\ asked' = asked /\ joined' = joined /\ (owed = "who" => state["client"] = "login")
  BY <1>s DEF Exchange!ClientAnswers
<1>2. owed \in {"who", "ask", "success", "finish", "start"}
  BY <1>s, <1>1, AnswersTo DEF StepIInv, AppsTyped
<1>3. /\ kind \in Kinds \ {"handshake", "data"} /\ q.kind = kind /\ q.arg = 0 /\ q \in PacketTypes
      /\ owed = "who" => kind = "login start"
      /\ owed = "ask" => kind = "answer"
      /\ owed = "success" => kind = "acknowledged"
      /\ owed = "finish" => kind = "finished"
      /\ owed = "start" => kind = "started"
  <2>1. /\ kind \in Kinds \ {"handshake", "data"}
        /\ owed = "who" => kind = "login start"
        /\ owed = "ask" => kind = "answer"
        /\ owed = "success" => kind = "acknowledged"
        /\ owed = "finish" => kind = "finished"
        /\ owed = "start" => kind = "started"
    BY <1>2, AnswerKinds DEF Kinds
  <2>2. q.kind = kind /\ q.arg = 0
    BY DEF Exchange!Packet
  <2> HIDE DEF kind
  <2>3. q \in PacketTypes
    <3>1. kind \in Kinds
      BY <2>1
    <3> QED BY <3>1 DEF Exchange!Packet, PacketTypes
  <2> QED BY <2>1, <2>2, <2>3
<1> HIDE DEF kind
<1>4. /\ asked # "none" /\ link["client"] = <<>> /\ state["client"] \notin {"handshaking", "status"}
      /\ \A i \in 1..n : ~Answering(i)
  <2>1. asked # "none" /\ \A i \in 1..n : ~Answering(i)
    BY <1>s, <1>1 DEF StepIInv, Rounds
  <2>2. state["client"] \notin {"handshaking", "status"}
    BY <1>s, <1>1 DEF StepIInv, Begins
  <2> QED BY <1>s, <1>1, <2>1, <2>2 DEF StepIInv, Rounds
<1>5. f.packet = q /\ f.state = state["client"] /\ f \in Crossing /\ OfClient(f)
  <2>1. f.packet = q /\ f.state = state["client"]
    BY DEF Sending
  <2>k. f.packet.kind = kind
    BY <1>3, <2>1
  <2>2. f \in Crossing
    BY <1>s, <1>3, Pair, SentIsTyped DEF StepIInv
  <2>3. /\ owed \in {"ask", "success"} => state["client"] = "login"
        /\ owed = "success" => version = 775
        /\ owed = "finish" => state["client"] = "configuration"
        /\ owed = "start" => state["client"] = "play" /\ version = 775
    BY <1>s DEF StepIInv, OwedFits
  <2> HIDE DEF f, q
  <2>8. OfClient(f)
    <3>1. CASE owed \in {"who", "ask"}
      BY ZenonT(60), <1>1, <1>3, <2>1, <2>k, <2>3, <3>1 DEF OfClient
    <3>2. CASE owed = "success"
      BY ZenonT(60), <1>3, <2>1, <2>k, <2>3, <3>2 DEF OfClient
    <3>3. CASE owed = "finish"
      BY ZenonT(60), <1>3, <2>1, <2>k, <2>3, <3>3 DEF OfClient
    <3>4. CASE owed = "start"
      BY ZenonT(60), <1>3, <2>1, <2>k, <2>3, <3>4 DEF OfClient
    <3> QED BY <1>2, <3>1, <3>2, <3>3, <3>4
  <2> QED BY <2>1, <2>2, <2>8
<1>6. /\ n \in Nat /\ Len(link'["server"]) = n + 1 /\ link'["client"] = link["client"]
      /\ \A i \in 1..n : link'["server"][i] = link["server"][i]
      /\ link'["server"][n + 1] = f
      /\ \A i \in 1..(n + 1) : i \in 1..n \/ i = n + 1
      /\ state'["client"] = Exchange!StateAfter(state["client"], q)
      /\ state'["server"] = state["server"]
  <2>1. LinksTyped /\ Exchange!Writes("client", q) /\ q \in PacketTypes
    BY <1>s, <1>1, <1>3 DEF StepIInv
  <2> HIDE DEF q
  <2> QED BY <2>1, Pair, Sent
<1>7. LinksTyped'
  BY <1>s, <1>1, <1>3, <1>5, Pair, SentKeepsTypes DEF StepIInv
<1>8. InStep'
  <2>1. Still(link["client"])
    BY <1>4 DEF Still
  <2> QED BY <1>s, <1>1, <1>4, <1>5, <2>1, Pair, WritesInStep DEF StepIInv
<1> HIDE DEF f, q, n
<1>9. AppsTyped'
  BY <1>s, <1>1 DEF StepIInv, AppsTyped
<1>10. Rounds'
  <2>1. /\ Len(link'["client"]) = 0 /\ link'["client"] = <<>>
        /\ \A i \in 1..Len(link'["client"]) : FALSE
    BY <1>4, <1>6
  <2>2. \A i \in 1..n : Answering(i)' <=> Answering(i)
    BY <1>6 DEF Answering, Reply
  <2>3. \A i, j \in 1..Len(link'["server"]) : Answering(i)' /\ Answering(j)' => i = j
    BY <1>4, <1>6, <2>2, n \in Nat
  <2>4. asked' # "none" /\ owed' = "none"
    BY <1>1, <1>4
  <2> QED BY <2>1, <2>3, <2>4 DEF Rounds
<1>11. OwedFits'
  BY <1>1 DEF OwedFits
<1>12. state'["client"] \notin {"handshaking", "status"}
  BY <1>3, <1>4, <1>6, <1>2 DEF Exchange!StateAfter, OfClient
<1>13. Begins'
  <2>1. \A i \in 1..n : link["server"][i].packet.kind = "handshake" =>
         /\ i = 1 /\ state["server"] = "handshaking"
         /\ link["server"][i].packet.arg # "status"
    BY <1>s, <1>4 DEF StepIInv, Begins, n
  <2>2. state["server"] # "status"
    BY <1>s, <1>4 DEF StepIInv, Begins
  <2>3. f.packet.kind # "handshake"
    BY <1>3, <1>5
  <2>4. \A i \in 1..Len(link'["server"]) : link'["server"][i].packet.kind = "handshake" =>
         /\ i = 1 /\ state'["server"] = "handshaking"
         /\ link'["server"][i].packet.arg # "status"
    BY <1>6, <2>1, <2>3
  <2>5. state'["server"] # "status"
    BY <1>6, <2>2
  <2> QED BY <1>12, <2>4, <2>5 DEF Begins
<1>14. Joins'
  <2>1. f.packet.kind \notin {"compress", "data"}
    BY <1>3, <1>2, <1>5
  <2>2. joined["client"]' = joined["client"] /\ joined["server"]' = joined["server"]
    BY <1>1
  <2>3. /\ joined["client"] => joined["server"]
        /\ joined["server"] => state["server"] \in {"play", "configuration"}
        /\ \A i \in 1..n : PlayData(link["server"][i]) => joined["client"]
    BY <1>s DEF StepIInv, Joins, n
  <2>4. Len(link'["client"]) = 0 /\ \A i \in 1..Len(link'["client"]) : FALSE
    BY <1>4, <1>6
  <2>5. \A i \in 1..(n + 1) : PlayData(link'["server"][i]) => joined["client"]
    BY <1>6, <2>1, <2>3 DEF PlayData
  <2> QED BY <1>6, <2>2, <2>3, <2>4, <2>5 DEF Joins, PlayData
<1> QED BY <1>7, <1>8, <1>9, <1>10, <1>11, <1>13, <1>14 DEF StepIInv

LEMMA ClientSendsKeeps ==
  StepIInv /\ version' = version /\ Exchange!ClientSends => StepIInv'
<1>s. SUFFICES ASSUME StepIInv, version' = version, Exchange!ClientSends PROVE StepIInv'
  OBVIOUS
<1> DEFINE q == Exchange!Packet("data", 0)
           f == Sending("client", q)
           n == Len(link["server"])
<1>1. /\ Exchange!Writes("client", q) /\ asked' = asked /\ owed' = owed /\ joined' = joined
      /\ state["client"] \in {"status", "configuration", "play"}
      /\ state["client"] = "play" => joined["client"]
  BY <1>s DEF Exchange!ClientSends
<1>2. q.kind = "data" /\ q \in PacketTypes /\ ~Moves(q)
  BY DEF PacketTypes, Kinds, Exchange!Packet, Moves
<1>3. Still(link["client"])
  BY <1>s, <1>1, MovesFind
<1>4. f.packet.kind = "data" /\ f.state = state["client"] /\ f \in Crossing /\ OfClient(f)
  <2>1. f.packet.kind = "data" /\ f.state = state["client"]
    BY <1>2 DEF Sending
  <2>2. f \in Crossing
    BY <1>s, <1>2, Pair, SentIsTyped DEF StepIInv
  <2> HIDE DEF f, q
  <2> QED BY <1>1, <2>1, <2>2 DEF OfClient
<1>5. /\ n \in Nat /\ Len(link'["server"]) = n + 1 /\ link'["client"] = link["client"]
      /\ \A i \in 1..n : link'["server"][i] = link["server"][i]
      /\ link'["server"][n + 1] = f
      /\ \A i \in 1..(n + 1) : i \in 1..n \/ i = n + 1
      /\ state'["client"] = state["client"] /\ state'["server"] = state["server"]
  <2>1. LinksTyped
    BY <1>s DEF StepIInv
  <2>2. Exchange!StateAfter(state["client"], q) = state["client"]
    BY <1>2 DEF Exchange!StateAfter
  <2> HIDE DEF q
  <2> QED BY <1>1, <1>2, <2>1, <2>2, Pair, Sent
<1>6. LinksTyped'
  BY <1>s, <1>1, <1>2, <1>4, Pair, SentKeepsTypes DEF StepIInv
<1>7. InStep'
  BY <1>s, <1>1, <1>2, <1>3, <1>4, Pair, WritesInStep DEF StepIInv
<1> HIDE DEF f, q, n
<1>8. AppsTyped'
  BY <1>s, <1>1 DEF StepIInv, AppsTyped
<1>9. Rounds'
  <2>1. /\ \A i \in 1..n : Answering(i)' <=> Answering(i)
        /\ \A i : i = n + 1 => ~Answering(i)'
    BY <1>4, <1>5 DEF Answering, Reply
  <2>2. \A i \in 1..Len(link["client"]) : Asking(i)' <=> Asking(i)
    BY <1>s, <1>5 DEF Asking, Question
  <2>3. \A i \in 1..Len(link'["server"]) : Answering(i)' => i \in 1..n /\ Answering(i)
    BY <1>5, <2>1
  <2>4. \A i \in 1..Len(link["client"]) :
          Asking(i)' => i = Len(link["client"]) /\ asked # "none" /\ owed = "none"
    BY <1>s, <2>2 DEF StepIInv, Rounds
  <2>5. \A i, j \in 1..Len(link'["server"]) :
          Answering(i)' => asked # "none" /\ owed = "none" /\ (Answering(j)' => i = j)
    BY <1>s, <2>3 DEF StepIInv, Rounds, n
  <2>6. owed # "none" \/ (\E i \in 1..Len(link'["server"]) : Answering(i)') =>
          link["client"] = <<>> \/ state["client"] = "status"
    BY <1>s, <2>3 DEF StepIInv, Rounds, n
  <2>7. owed # "none" => asked # "none"
    BY <1>s DEF StepIInv, Rounds
  <2> QED BY <1>1, <1>5, <2>4, <2>5, <2>6, <2>7 DEF Rounds
<1>10. OwedFits'
  BY <1>s, <1>1, <1>5 DEF StepIInv, OwedFits
<1>11. Begins'
  <2>1. \A i \in 1..Len(link'["server"]) : link'["server"][i].packet.kind = "handshake" =>
          i \in 1..n /\ link["server"][i].packet.kind = "handshake" /\ link'["server"][i] = link["server"][i]
    BY <1>4, <1>5
  <2> QED BY <1>s, <1>1, <1>5, <2>1 DEF StepIInv, Begins, n
<1>12. Joins'
  <2>1. joined["client"]' = joined["client"] /\ joined["server"]' = joined["server"]
    BY <1>1
  <2>2. \A i \in 1..(n + 1) : PlayData(link'["server"][i]) => joined["client"]
    BY <1>s, <1>1, <1>4, <1>5 DEF StepIInv, Joins, PlayData, n
  <2> QED BY <1>s, <1>5, <2>1, <2>2 DEF StepIInv, Joins, PlayData
<1> QED BY <1>6, <1>7, <1>8, <1>9, <1>10, <1>11, <1>12 DEF StepIInv

(* What the client acts on, it reads last.                                      *)
LEMMA ClientReadsKeeps ==
  StepIInv /\ version' = version /\ Exchange!ClientReads => StepIInv'
<1>s. SUFFICES ASSUME StepIInv, version' = version, Exchange!ClientReads PROVE StepIInv'
  OBVIOUS
<1> DEFINE n == Len(link["client"])
           h == link["client"][1]
           p == h.packet
           data == p.kind = "data" /\ state["client"] = "play"
<1>1. LinksTyped /\ Exchange!Reads("client")
  BY <1>s DEF Exchange!ClientReads, StepIInv
<1>2. /\ n \in Nat \ {0} /\ p = Head(link["client"]).packet /\ 1 \in 1..n
      /\ Len(link'["client"]) = n - 1 /\ link'["server"] = link["server"]
      /\ link'["client"] = <<>> <=> n = 1
      /\ \A i \in 1..(n - 1) : i + 1 \in 1..n /\ link'["client"][i] = link["client"][i + 1]
      /\ state'["client"] = Exchange!StateAfter(state["client"], p) /\ state'["server"] = state["server"]
  BY <1>1, Pair, Received
<1>3. link["client"] # <<>>
  BY <1>1 DEF Exchange!Reads
<1>4. OfServer(h) /\ h.state = state["client"]
  <2>1. link["client"] \in Seq(Crossing)
    BY <1>1, Pair DEF LinksTyped
  <2>2. Head(link["client"]) = h
    BY <1>3, <2>1
  <2>3. Written(h) = Session("client")
    BY <1>s, <1>3, <2>2, Pair, ReadsAsWrittenBy DEF StepIInv
  <2> QED BY <1>1, <1>2, <2>3 DEF LinksTyped, Written, Session
<1>5. /\ asked' = asked
      /\ owed' = IF Question(p) THEN p.kind ELSE owed
      /\ joined'["client"] <=> joined["client"] \/ data
      /\ joined'["server"] <=> joined["server"]
      /\ joined' \in [Exchange!Ends -> BOOLEAN]
  <2>1. /\ asked' = asked
        /\ owed' = IF p.kind \in {"ask", "finish", "start"} \/ (p.kind = "success" /\ version = 775)
                   THEN p.kind ELSE owed
        /\ joined' = [joined EXCEPT !["client"] = @ \/ data]
    BY <1>s, <1>2 DEF Exchange!ClientReads
  <2>2. joined \in [Exchange!Ends -> BOOLEAN]
    BY <1>s DEF StepIInv, AppsTyped
  <2>3. owed' = IF Question(p) THEN p.kind ELSE owed
    BY <2>1 DEF Question
  <2>4. /\ joined'["client"] = (joined["client"] \/ data)
        /\ joined'["server"] = joined["server"]
    BY <2>1, <2>2, Pair
  <2>5. joined' \in [Exchange!Ends -> BOOLEAN]
    BY <2>1, <2>2
  <2> QED BY <2>1, <2>3, <2>4, <2>5
<1>6. /\ state'["client"] = IF p.kind = "success" /\ version = 47 THEN "play" ELSE state["client"]
      /\ state["client"] = "status" => p.kind = "data"
      /\ p.kind = "success" => state["client"] = "login"
      /\ state["client"] # "handshaking"
  BY <1>2, <1>4, <1>3, <1>s DEF OfServer, Exchange!StateAfter, StepIInv, Begins
<1>7. Question(p) => n = 1 /\ asked # "none" /\ owed = "none" /\ state["client"] # "status"
  <2>1. Question(p) => Asking(1)
    BY DEF Asking
  <2> QED BY <1>s, <1>2, <1>6, <2>1 DEF StepIInv, Rounds, Question
<1>8. owed # "none" \/ (\E i \in 1..Len(link["server"]) : Answering(i)) => state["client"] = "status"
  BY <1>s, <1>3 DEF StepIInv, Rounds
<1>9. LinksTyped'
  BY <1>s, <1>1, Pair, ReceivedKeepsTypes
<1>10. InStep'
  BY <1>s, <1>1, Pair, ReadsInStep DEF StepIInv
<1>11. AppsTyped'
  <2>1. owed \in DOMAIN Exchange!Answers \union {"none"} /\ asked \in DOMAIN Exchange!Answers \union {"none"}
    BY <1>s DEF StepIInv, AppsTyped
  <2>2. Question(p) => p.kind \in DOMAIN Exchange!Answers
    BY AnswersTo DEF Question
  <2>3. owed' \in DOMAIN Exchange!Answers \union {"none"} /\ asked' \in DOMAIN Exchange!Answers \union {"none"}
    BY <1>5, <2>1, <2>2
  <2>4. joined' \in [Exchange!Ends -> BOOLEAN]
    BY <1>5
  <2>5. Exchange!Ends' = Exchange!Ends /\ (DOMAIN Exchange!Answers)' = DOMAIN Exchange!Answers
    BY DEF Exchange!Ends, Exchange!Answers
  <2> QED BY <2>3, <2>4, <2>5 DEF AppsTyped
<1> HIDE DEF n, h, p, data
<1>12. /\ \A i \in 1..(n - 1) : Asking(i)' <=> Asking(i + 1)
       /\ \A i \in 1..Len(link["server"]) : Answering(i)' <=> Answering(i)
  BY <1>s, <1>2 DEF Asking, Question, Answering, Reply
<1>13. Rounds'
  <2>1. \A i \in 1..(n - 1) : Asking(i)' => i = n - 1 /\ asked # "none" /\ owed' = "none"
    <3>1. \A i \in 1..(n - 1) : Asking(i)' => i + 1 = n /\ asked # "none" /\ owed = "none"
      BY <1>s, <1>2, <1>12 DEF StepIInv, Rounds, n
    <3>2. \A i \in 1..(n - 1) : n # 1 /\ i \in Int
      BY <1>2
    <3> QED BY <1>2, <1>5, <1>7, <3>1, <3>2
  <2>2. \A i, j \in 1..Len(link["server"]) :
          Answering(i)' => asked # "none" /\ owed' = "none" /\ (Answering(j)' => i = j)
    <3>1. \A i, j \in 1..Len(link["server"]) :
            Answering(i) => asked # "none" /\ owed = "none" /\ (Answering(j) => i = j)
      BY <1>s DEF StepIInv, Rounds
    <3> QED BY <1>5, <1>7, <1>8, <1>12, <3>1
  <2>3. owed' # "none" => asked # "none"
    BY <1>s, <1>5, <1>7 DEF StepIInv, Rounds
  <2>4. owed' # "none" \/ (\E i \in 1..Len(link["server"]) : Answering(i)') =>
          link'["client"] = <<>> \/ state'["client"] = "status"
    BY <1>2, <1>5, <1>6, <1>7, <1>8, <1>12
  <2> QED BY <1>2, <1>5, <2>1, <2>2, <2>3, <2>4 DEF Rounds
<1>14. OwedFits'
  <2>1. CASE Question(p)
    <3>1. state'["client"] = state["client"]
      BY <1>6, <2>1, <1>s DEF Question
    <3>2. owed' = p.kind
      BY <1>5, <2>1
    <3> QED BY <1>s, <1>4, <2>1, <3>1, <3>2 DEF OwedFits, OfServer, Question, p
  <2>2. CASE ~Question(p)
    <3>1. owed' = owed /\ (owed # "none" => state'["client"] = state["client"])
      BY <1>5, <1>6, <1>8, <2>2
    <3> QED BY <1>s, <3>1 DEF StepIInv, OwedFits
  <2> QED BY <2>1, <2>2
<1>15. Begins'
  <2>1. /\ state'["client"] # "handshaking"
        /\ state'["client"] = "status" <=> state["client"] = "status"
        /\ state["client"] = "status" => owed' = owed
    BY <1>5, <1>6, <1>7
  <2> QED BY <1>s, <1>2, <2>1 DEF StepIInv, Begins
<1>16. Joins'
  <2>1. /\ joined["client"] => joined["server"]
        /\ joined["server"] => state["server"] \in {"play", "configuration"}
        /\ \A i \in 1..Len(link["server"]) : PlayData(link["server"][i]) => joined["client"]
        /\ \A i \in 1..n : PlayData(link["client"][i]) => joined["server"]
        /\ \A j \in 1..n :
             link["client"][j].packet.kind = "compress" =>
               /\ ~joined["client"]
               /\ \A i \in 1..n : i < j => ~PlayData(link["client"][i])
    BY <1>s DEF StepIInv, Joins, n
  <2>2. data => PlayData(link["client"][1])
    BY <1>4 DEF data, PlayData, p, h
  <2>3. joined["client"]' <=> joined["client"] \/ data
    BY <1>5
  <2>4. joined["server"]' <=> joined["server"]
    BY <1>5
  <2>5. \A i \in 1..(n - 1) : PlayData(link'["client"][i]) => joined["server"]
    BY <1>2, <2>1
  <2>6. \A j \in 1..(n - 1) :
          link'["client"][j].packet.kind = "compress" =>
            /\ ~joined["client"] /\ ~data
            /\ \A i \in 1..(n - 1) : i < j => ~PlayData(link'["client"][i])
    <3> SUFFICES ASSUME NEW j \in 1..(n - 1), link'["client"][j].packet.kind = "compress"
                 PROVE  /\ ~joined["client"] /\ ~data
                        /\ \A i \in 1..(n - 1) : i < j => ~PlayData(link'["client"][i])
      OBVIOUS
    <3>1. /\ j + 1 \in 1..n /\ 1 < j + 1 /\ 1 \in 1..n
          /\ link["client"][j + 1].packet.kind = "compress"
      BY <1>2
    <3>2. ~joined["client"] /\ \A i \in 1..n : i < j + 1 => ~PlayData(link["client"][i])
      BY <2>1, <3>1
    <3>3. ~data
      BY <2>2, <3>1, <3>2
    <3>4. \A i \in 1..(n - 1) : i < j => ~PlayData(link'["client"][i])
      <4> TAKE i \in 1..(n - 1)
      <4>1. i + 1 \in 1..n /\ link'["client"][i] = link["client"][i + 1] /\ (i < j => i + 1 < j + 1)
        BY <1>2
      <4> QED BY <3>2, <4>1
    <3> QED BY <3>2, <3>3, <3>4
  <2>7. \A i \in 1..Len(link'["server"]) : PlayData(link'["server"][i]) => joined["client"] \/ data
    BY <1>2, <2>1
  <2>8. (joined["client"] \/ data => joined["server"]) /\ (joined["server"] => state'["server"] \in {"play", "configuration"})
    BY <1>2, <2>1, <2>2
  <2> QED BY <1>2, <2>3, <2>4, <2>5, <2>6, <2>7, <2>8 DEF Joins, PlayData
<1> QED BY <1>9, <1>10, <1>11, <1>13, <1>14, <1>15, <1>16 DEF StepIInv

(* A server that waits for nothing has nobody to answer it.                       *)
LEMMA NothingAsked ==
  StepIInv /\ asked = "none" =>
    /\ owed = "none"
    /\ \A i \in 1..Len(link["client"]) : ~Asking(i)
    /\ \A i \in 1..Len(link["server"]) : ~Answering(i)
BY DEF StepIInv, Rounds

LEMMA ServerAsksKeeps ==
  StepIInv /\ version' = version /\ Exchange!ServerAsks => StepIInv'
<1>s. SUFFICES ASSUME StepIInv, version' = version, Exchange!ServerAsks PROVE StepIInv'
  OBVIOUS
<1>1. PICK question \in {"ask", "success", "finish", "start"} :
        /\ CASE question = "ask" -> state["server"] = "login"
             [] question = "success" -> state["server"] = "login"
             [] question = "finish" -> state["server"] = "configuration"
             [] question = "start" -> state["server"] = "play" /\ version = 775
        /\ Exchange!Writes("server", Exchange!Packet(question, 0))
        /\ asked' = IF question = "success" /\ version = 47 THEN "none" ELSE question
  BY <1>s DEF Exchange!ServerAsks
<1> DEFINE q == Exchange!Packet(question, 0)
           f == Sending("server", q)
           n == Len(link["client"])
<1>2. asked = "none" /\ owed' = owed /\ joined' = joined /\ Exchange!Writes("server", q)
  BY <1>s, <1>1 DEF Exchange!ServerAsks
<1>3. /\ owed = "none"
      /\ \A i \in 1..n : ~Asking(i)
      /\ \A i \in 1..Len(link["server"]) : ~Answering(i)
  BY <1>s, <1>2, NothingAsked
<1>4. /\ question \in {"ask", "success"} => state["server"] = "login"
      /\ question = "finish" => state["server"] = "configuration"
      /\ question = "start" => state["server"] = "play" /\ version = 775
      /\ state["server"] \notin {"handshaking", "status"}
  BY ZenonT(60), <1>1
<1>5. q.kind = question /\ q \in PacketTypes
  <2>1. question \in Kinds
    BY DEF Kinds
  <2> QED BY <2>1 DEF PacketTypes, Exchange!Packet
<1>6. Still(link["server"]) /\ (Moves(q) => link["server"] = <<>>)
  BY <1>s, <1>2, <1>4, <1>5, QuietServer, QuietLogin DEF Moves
<1>7. f.packet = q /\ f.packet.kind = question /\ f.state = state["server"] /\ f \in Crossing /\ OfServer(f)
  <2>1. f.packet = q /\ f.packet.kind = question /\ f.state = state["server"]
    BY <1>5 DEF Sending
  <2>2. f \in Crossing
    BY <1>s, <1>5, Pair, SentIsTyped DEF StepIInv
  <2> HIDE DEF f, q
  <2>3. OfServer(f)
    BY <1>1, <1>4, <2>1 DEF OfServer
  <2> QED BY <2>1, <2>2, <2>3
<1>8. /\ n \in Nat /\ Len(link'["client"]) = n + 1 /\ link'["server"] = link["server"]
      /\ \A i \in 1..n : link'["client"][i] = link["client"][i]
      /\ link'["client"][n + 1] = f
      /\ \A i \in 1..(n + 1) : i \in 1..n \/ i = n + 1
      /\ state'["server"] = Exchange!StateAfter(state["server"], q)
      /\ state'["client"] = state["client"]
  <2>1. LinksTyped
    BY <1>s DEF StepIInv
  <2> HIDE DEF q
  <2> QED BY <1>2, <1>5, <2>1, Pair, Sent
<1>9. LinksTyped'
  BY <1>s, <1>2, <1>5, <1>7, Pair, SentKeepsTypes DEF StepIInv
<1>10. InStep'
  BY <1>s, <1>2, <1>6, <1>7, Pair, WritesInStep DEF StepIInv
<1>11. /\ state'["server"] \in {state["server"], "play"}
       /\ version \in {47, 775}
  BY <1>s, <1>1, <1>5, <1>8 DEF Exchange!StateAfter, StepIInv, LinksTyped
<1> HIDE DEF f, q, n
<1>12. AppsTyped'
  <2>1. asked' \in DOMAIN Exchange!Answers \union {"none"} /\ owed' \in DOMAIN Exchange!Answers \union {"none"}
    BY <1>1, <1>2, <1>3, AnswersTo
  <2>2. joined' \in [Exchange!Ends -> BOOLEAN]
    BY <1>s, <1>2 DEF StepIInv, AppsTyped
  <2>3. Exchange!Ends' = Exchange!Ends /\ (DOMAIN Exchange!Answers)' = DOMAIN Exchange!Answers
    BY DEF Exchange!Ends, Exchange!Answers
  <2> QED BY <2>1, <2>2, <2>3 DEF AppsTyped
<1>13. Rounds'
  <2>1. \A i \in 1..n : ~Asking(i)'
    BY <1>s, <1>3, <1>8 DEF Asking, Question
  <2>2. \A i : i = n + 1 => (Asking(i)' => asked' # "none")
    BY <1>s, <1>1, <1>7, <1>8 DEF Asking, Question
  <2>3. \A i \in 1..(n + 1) : Asking(i)' => i = n + 1 /\ asked' # "none" /\ owed' = "none"
    BY <1>2, <1>3, <1>8, <2>1, <2>2
  <2>4. \A i \in 1..Len(link["server"]) : ~Answering(i)'
    BY <1>s, <1>3, <1>8 DEF Answering, Reply
  <2> QED BY <1>2, <1>3, <1>8, <2>3, <2>4 DEF Rounds
<1>14. OwedFits'
  BY <1>2, <1>3 DEF OwedFits
<1>15. Begins'
  <2>1. state["client"] \notin {"handshaking", "status"}
    BY <1>s, <1>3 DEF StepIInv, Begins
  <2>2. \A i \in 1..Len(link["server"]) : link["server"][i].packet.kind # "handshake"
    BY <1>s, <1>4 DEF StepIInv, Begins
  <2>3. state'["server"] # "status"
    BY <1>4, <1>11
  <2> QED BY <1>8, <2>1, <2>2, <2>3 DEF Begins
<1>16. Joins'
  <2>1. joined["client"]' = joined["client"] /\ joined["server"]' = joined["server"]
    BY <1>2
  <2>2. ~PlayData(f) /\ f.packet.kind # "compress"
    BY <1>7, <1>1 DEF PlayData
  <2>3. \A i \in 1..(n + 1) : PlayData(link'["client"][i]) => joined["server"]
    BY <1>s, <1>8, <2>2 DEF StepIInv, Joins, n
  <2>4. \A j \in 1..(n + 1) :
          link'["client"][j].packet.kind = "compress" =>
            /\ ~joined["client"]
            /\ \A i \in 1..(n + 1) : i < j => ~PlayData(link'["client"][i])
    <3>1. \A j \in 1..n : link["client"][j].packet.kind = "compress" =>
            /\ ~joined["client"] /\ \A i \in 1..n : i < j => ~PlayData(link["client"][i])
      BY <1>s DEF StepIInv, Joins, n
    <3> QED BY <1>8, <2>2, <3>1
  <2>5. joined["server"] => state'["server"] \in {"play", "configuration"}
    BY <1>s, <1>11 DEF StepIInv, Joins
  <2> QED BY <1>s, <1>8, <2>1, <2>3, <2>4, <2>5 DEF StepIInv, Joins, PlayData
<1> QED BY <1>9, <1>10, <1>12, <1>13, <1>14, <1>15, <1>16 DEF StepIInv

(* Where a server may set a threshold it has read everything.                       *)
LEMMA CompressesAlone ==
  /\ StepIInv /\ asked = "none"
  /\ state["server"] = "login" \/ (state["server"] = "play" /\ version = 47 /\ ~joined["server"])
  => link["server"] = <<>> /\ ~joined["server"]
<1>s. SUFFICES ASSUME StepIInv, asked = "none",
                      state["server"] = "login"
                        \/ (state["server"] = "play" /\ version = 47 /\ ~joined["server"])
               PROVE  link["server"] = <<>> /\ ~joined["server"]
  OBVIOUS
<1>1. ~joined["server"]
  BY <1>s DEF StepIInv, Joins
<1>2. CASE state["server"] = "login"
  BY <1>s, <1>1, <1>2, QuietLogin
<1>3. CASE state["server"] = "play" /\ version = 47
  <2>1. SUFFICES ASSUME link["server"] # <<>> PROVE FALSE
    BY <1>1
  <2>2. Written(Head(link["server"])) = Session("server")
    BY <1>s, <2>1, Pair, ReadsAsWrittenBy DEF StepIInv
  <2>3. link["server"] \in Seq(Crossing) /\ \A i \in 1..Len(link["server"]) : OfClient(link["server"][i])
    BY <1>s, Pair DEF StepIInv, LinksTyped
  <2>4. 1 \in 1..Len(link["server"]) /\ Head(link["server"]) = link["server"][1]
    BY <2>1, <2>3, RestOf
  <2>5. link["server"][1].state = "play"
    BY <1>3, <2>2, <2>4 DEF Written, Session
  <2>6. PlayData(link["server"][1])
    <3>1. OfClient(link["server"][1])
      BY <2>3, <2>4
    <3>2. version # 775
      BY <1>3
    <3>3. link["server"][1].packet.kind = "data"
      BY <2>5, <3>1, <3>2 DEF OfClient
    <3> QED BY <2>5, <3>3 DEF PlayData
  <2> QED BY <1>s, <1>1, <2>4, <2>6 DEF StepIInv, Joins
<1> QED BY <1>s, <1>2, <1>3

LEMMA ServerCompressesKeeps ==
  StepIInv /\ version' = version /\ Exchange!ServerCompresses => StepIInv'
<1>s. SUFFICES ASSUME StepIInv, version' = version, Exchange!ServerCompresses PROVE StepIInv'
  OBVIOUS
<1>1. PICK threshold \in Thresholds : Exchange!Writes("server", Exchange!Packet("compress", threshold))
  BY <1>s DEF Exchange!ServerCompresses
<1> DEFINE q == Exchange!Packet("compress", threshold)
           f == Sending("server", q)
           n == Len(link["client"])
<1>2. /\ asked = "none" /\ asked' = asked /\ owed' = owed /\ joined' = joined
      /\ Exchange!Writes("server", q)
      /\ state["server"] = "login" \/ (state["server"] = "play" /\ version = 47 /\ ~joined["server"])
  BY <1>s, <1>1 DEF Exchange!ServerCompresses
<1>3. /\ owed = "none"
      /\ \A i \in 1..n : ~Asking(i)
      /\ \A i \in 1..Len(link["server"]) : ~Answering(i)
  BY <1>s, <1>2, NothingAsked
<1>4. link["server"] = <<>> /\ ~joined["server"]
  BY <1>s, <1>2, CompressesAlone
<1>5. q.kind = "compress" /\ q.arg = threshold /\ threshold \in Int /\ q \in PacketTypes
  <2>1. threshold \in Int
    BY ExchangeAssumption DEF Exchange!SessionsAssumption
  <2> QED BY <2>1 DEF PacketTypes, Kinds, Exchange!Packet
<1>6. Still(link["server"])
  BY <1>4 DEF Still
<1>7. /\ f.packet = q /\ f.packet.kind = "compress" /\ f.packet.arg \in Int
      /\ f.state = state["server"] /\ f \in Crossing /\ OfServer(f)
  <2>1. /\ f.packet = q /\ f.packet.kind = "compress" /\ f.packet.arg \in Int
        /\ f.state = state["server"]
    BY <1>5 DEF Sending
  <2>2. f \in Crossing
    BY <1>s, <1>5, Pair, SentIsTyped DEF StepIInv
  <2> HIDE DEF f, q
  <2>3. OfServer(f)
    BY <1>2, <2>1 DEF OfServer
  <2> QED BY <2>1, <2>2, <2>3
<1>8. /\ n \in Nat /\ Len(link'["client"]) = n + 1 /\ link'["server"] = link["server"]
      /\ \A i \in 1..n : link'["client"][i] = link["client"][i]
      /\ link'["client"][n + 1] = f
      /\ \A i \in 1..(n + 1) : i \in 1..n \/ i = n + 1
      /\ state'["server"] = state["server"]
      /\ state'["client"] = state["client"]
  <2>1. LinksTyped
    BY <1>s DEF StepIInv
  <2>2. Exchange!StateAfter(state["server"], q) = state["server"]
    BY <1>5 DEF Exchange!StateAfter
  <2> HIDE DEF q
  <2> QED BY <1>2, <1>5, <2>1, <2>2, Pair, Sent
<1>9. LinksTyped'
  BY <1>s, <1>2, <1>5, <1>7, Pair, SentKeepsTypes DEF StepIInv
<1>10. InStep'
  BY <1>s, <1>2, <1>4, <1>6, <1>7, Pair, WritesInStep DEF StepIInv
<1> HIDE DEF f, q, n
<1>11. AppsTyped'
  BY <1>s, <1>2 DEF StepIInv, AppsTyped
<1>12. Rounds'
  <2>1. \A i \in 1..n : ~Asking(i)'
    BY <1>s, <1>3, <1>8 DEF Asking, Question
  <2>2. \A i : i = n + 1 => ~Asking(i)'
    BY <1>s, <1>7, <1>8 DEF Asking, Question
  <2>3. \A i \in 1..(n + 1) : ~Asking(i)'
    BY <1>8, <2>1, <2>2
  <2>4. \A i \in 1..Len(link["server"]) : ~Answering(i)'
    BY <1>s, <1>3, <1>8 DEF Answering, Reply
  <2> QED BY <1>2, <1>3, <1>8, <2>3, <2>4 DEF Rounds
<1>13. OwedFits'
  BY <1>2, <1>3 DEF OwedFits
<1>14. Begins'
  BY <1>s, <1>2, <1>8 DEF StepIInv, Begins
<1>15. Joins'
  <2>1. joined["client"]' = joined["client"] /\ joined["server"]' = joined["server"]
    BY <1>2
  <2>2. ~joined["client"] /\ ~joined["server"]
    BY <1>s, <1>4 DEF StepIInv, Joins
  <2>3. ~PlayData(f)
    BY <1>7 DEF PlayData
  <2>4. \A i \in 1..n : ~PlayData(link["client"][i])
    BY <1>s, <2>2 DEF StepIInv, Joins, n
  <2>5. \A i \in 1..(n + 1) : ~PlayData(link'["client"][i])
    BY <1>8, <2>3, <2>4
  <2>6. \A i \in 1..Len(link'["server"]) : FALSE
    <3>1. Len(link'["server"]) = 0
      BY <1>4, <1>8
    <3> QED BY <3>1
  <2> QED BY <1>8, <2>1, <2>2, <2>5, <2>6 DEF Joins, PlayData
<1> QED BY <1>9, <1>10, <1>11, <1>12, <1>13, <1>14, <1>15 DEF StepIInv

LEMMA ServerSendsKeeps ==
  StepIInv /\ version' = version /\ Exchange!ServerSends => StepIInv'
<1>s. SUFFICES ASSUME StepIInv, version' = version, Exchange!ServerSends PROVE StepIInv'
  OBVIOUS
<1> DEFINE q == Exchange!Packet("data", 0)
           f == Sending("server", q)
           n == Len(link["client"])
           inPlay == state["server"] = "play"
<1>1. /\ Exchange!Writes("server", q) /\ asked' = asked /\ owed' = owed
      /\ state["server"] = "status" \/ (asked = "none" /\ state["server"] \in {"configuration", "play"})
      /\ joined'["server"] <=> joined["server"] \/ inPlay
      /\ joined'["client"] <=> joined["client"]
      /\ joined' \in [Exchange!Ends -> BOOLEAN]
  <2>1. /\ Exchange!Writes("server", q) /\ asked' = asked /\ owed' = owed
        /\ state["server"] = "status" \/ (asked = "none" /\ state["server"] \in {"configuration", "play"})
        /\ joined' = [joined EXCEPT !["server"] = @ \/ inPlay]
    BY <1>s DEF Exchange!ServerSends
  <2>2. joined \in [Exchange!Ends -> BOOLEAN]
    BY <1>s DEF StepIInv, AppsTyped
  <2>4. /\ joined'["server"] = (joined["server"] \/ inPlay)
        /\ joined'["client"] = joined["client"]
    BY <2>1, <2>2, Pair
  <2>5. joined' \in [Exchange!Ends -> BOOLEAN]
    BY <2>1, <2>2
  <2> QED BY <2>1, <2>4, <2>5
<1>2. q.kind = "data" /\ q \in PacketTypes /\ ~Moves(q)
  BY DEF PacketTypes, Kinds, Exchange!Packet, Moves
<1>3. Still(link["server"])
  BY <1>s, <1>1, QuietServer
<1>4. /\ \A i \in 1..n : ~Asking(i)
      /\ \/ owed = "none" /\ \A i \in 1..Len(link["server"]) : ~Answering(i)
         \/ state["client"] = "status"
  <2>1. CASE asked = "none"
    BY <1>s, <2>1, NothingAsked
  <2>2. CASE state["server"] = "status"
    <3>1. state["client"] = "status" /\ owed # "none"
      BY <1>s, <2>2 DEF StepIInv, Begins
    <3> QED BY <1>s, <3>1 DEF StepIInv, Rounds
  <2> QED BY <1>1, <2>1, <2>2
<1>5. f.packet.kind = "data" /\ f.state = state["server"] /\ f \in Crossing /\ OfServer(f)
  <2>1. f.packet.kind = "data" /\ f.state = state["server"]
    BY <1>2 DEF Sending
  <2>2. f \in Crossing
    BY <1>s, <1>2, Pair, SentIsTyped DEF StepIInv
  <2> HIDE DEF f, q
  <2> QED BY <1>1, <2>1, <2>2 DEF OfServer
<1>6. /\ n \in Nat /\ Len(link'["client"]) = n + 1 /\ link'["server"] = link["server"]
      /\ \A i \in 1..n : link'["client"][i] = link["client"][i]
      /\ link'["client"][n + 1] = f
      /\ \A i \in 1..(n + 1) : i \in 1..n \/ i = n + 1
      /\ state'["server"] = state["server"]
      /\ state'["client"] = state["client"]
  <2>1. LinksTyped
    BY <1>s DEF StepIInv
  <2>2. Exchange!StateAfter(state["server"], q) = state["server"]
    BY <1>2 DEF Exchange!StateAfter
  <2> HIDE DEF q
  <2> QED BY <1>1, <1>2, <2>1, <2>2, Pair, Sent
<1>7. LinksTyped'
  BY <1>s, <1>1, <1>2, <1>5, Pair, SentKeepsTypes DEF StepIInv
<1>8. InStep'
  BY <1>s, <1>1, <1>2, <1>3, <1>5, Pair, WritesInStep DEF StepIInv
<1> HIDE DEF f, q, n, inPlay
<1>9. AppsTyped'
  <2>1. /\ asked' \in DOMAIN Exchange!Answers \union {"none"}
        /\ owed' \in DOMAIN Exchange!Answers \union {"none"}
    BY <1>s, <1>1 DEF StepIInv, AppsTyped
  <2>2. joined' \in [Exchange!Ends -> BOOLEAN]
    BY <1>1
  <2>3. Exchange!Ends' = Exchange!Ends /\ (DOMAIN Exchange!Answers)' = DOMAIN Exchange!Answers
    BY DEF Exchange!Ends, Exchange!Answers
  <2> QED BY <2>1, <2>2, <2>3 DEF AppsTyped
<1>10. Rounds'
  <2>1. \A i \in 1..n : ~Asking(i)'
    BY <1>s, <1>4, <1>6 DEF Asking, Question
  <2>2. \A i : i = n + 1 => ~Asking(i)'
    BY <1>s, <1>5, <1>6 DEF Asking, Question
  <2>3. \A i \in 1..(n + 1) : ~Asking(i)'
    BY <1>6, <2>1, <2>2
  <2>4. \A i \in 1..Len(link["server"]) : Answering(i)' <=> Answering(i)
    BY <1>s, <1>6 DEF Answering, Reply
  <2>5. \A i, j \in 1..Len(link["server"]) :
          Answering(i)' => asked # "none" /\ owed = "none" /\ (Answering(j)' => i = j)
    BY <1>s, <2>4 DEF StepIInv, Rounds
  <2>6. owed # "none" => asked # "none"
    BY <1>s DEF StepIInv, Rounds
  <2> QED BY <1>1, <1>4, <1>6, <2>3, <2>4, <2>5, <2>6 DEF Rounds
<1>11. OwedFits'
  BY <1>s, <1>1, <1>6 DEF StepIInv, OwedFits
<1>12. Begins'
  BY <1>s, <1>1, <1>6 DEF StepIInv, Begins
<1>13. Joins'
  <2>1. joined["server"]' <=> joined["server"] \/ inPlay
    BY <1>1
  <2>2. joined["client"]' <=> joined["client"]
    BY <1>1
  <2>3. PlayData(f) => inPlay
    BY <1>5 DEF PlayData, inPlay
  <2>4. \A i \in 1..(n + 1) : PlayData(link'["client"][i]) => joined["server"] \/ inPlay
    BY <1>s, <1>6, <2>3 DEF StepIInv, Joins, n
  <2>5. \A j \in 1..(n + 1) :
          link'["client"][j].packet.kind = "compress" =>
            /\ ~joined["client"]
            /\ \A i \in 1..(n + 1) : i < j => ~PlayData(link'["client"][i])
    <3>1. \A j \in 1..n : link["client"][j].packet.kind = "compress" =>
            /\ ~joined["client"] /\ \A i \in 1..n : i < j => ~PlayData(link["client"][i])
      BY <1>s DEF StepIInv, Joins, n
    <3>2. f.packet.kind # "compress"
      BY <1>5
    <3>3. \A j \in 1..n : \A i \in 1..(n + 1) : i < j => i \in 1..n
      BY <1>6
    <3> QED BY <1>6, <3>1, <3>2, <3>3
  <2>6. joined["server"] \/ inPlay => state["server"] \in {"play", "configuration"}
    BY <1>s DEF StepIInv, Joins, inPlay
  <2>7. (joined["client"] => joined["server"]) /\ \A i \in 1..Len(link["server"]) : PlayData(link["server"][i]) => joined["client"]
    BY <1>s DEF StepIInv, Joins
  <2> QED BY <1>6, <2>1, <2>2, <2>4, <2>5, <2>6, <2>7 DEF Joins, PlayData
<1> QED BY <1>7, <1>8, <1>9, <1>10, <1>11, <1>12, <1>13 DEF StepIInv

LEMMA ServerReadsKeeps ==
  StepIInv /\ version' = version /\ Exchange!ServerReads => StepIInv'
<1>s. SUFFICES ASSUME StepIInv, version' = version, Exchange!ServerReads PROVE StepIInv'
  OBVIOUS
<1> DEFINE n == Len(link["server"])
           h == link["server"][1]
           p == h.packet
<1>1. LinksTyped /\ Exchange!Reads("server")
  BY <1>s DEF Exchange!ServerReads, StepIInv
<1>2. /\ n \in Nat \ {0} /\ p = Head(link["server"]).packet /\ 1 \in 1..n
      /\ Len(link'["server"]) = n - 1 /\ link'["client"] = link["client"]
      /\ \A i \in 1..(n - 1) : i + 1 \in 1..n /\ link'["server"][i] = link["server"][i + 1]
      /\ state'["server"] = Exchange!StateAfter(state["server"], p) /\ state'["client"] = state["client"]
  BY <1>1, Pair, Received
<1>3. link["server"] # <<>>
  BY <1>1 DEF Exchange!Reads
<1>4. OfClient(h) /\ h.state = state["server"]
  <2>1. link["server"] \in Seq(Crossing)
    BY <1>1, Pair DEF LinksTyped
  <2>2. Head(link["server"]) = h
    BY <1>3, <2>1
  <2>3. Written(h) = Session("server")
    BY <1>s, <1>3, <2>2, Pair, ReadsAsWrittenBy DEF StepIInv
  <2> QED BY <1>1, <1>2, <2>3 DEF LinksTyped, Written, Session
<1>5. /\ asked' = IF Reply(p) THEN "none" ELSE asked
      /\ owed' = owed /\ joined' = joined
  BY <1>s, <1>2 DEF Exchange!ServerReads, Reply
<1>6. state["client"] # "handshaking"
  BY <1>s, <1>3 DEF StepIInv, Begins
<1>7. /\ Reply(p) => asked # "none" /\ owed = "none" /\ link["client"] = <<>>
      /\ Reply(p) => \A i \in 1..n : Answering(i) => i = 1
  <2>1. Reply(p) => Answering(1)
    BY DEF Answering
  <2>2. Reply(p) => asked # "none" /\ owed = "none"
    BY <1>s, <1>2, <2>1 DEF StepIInv, Rounds
  <2>3. state["client"] = "status" => owed = "who"
    BY <1>s DEF StepIInv, Begins
  <2>4. Reply(p) => link["client"] = <<>>
    BY <1>s, <1>2, <2>1, <2>2, <2>3 DEF StepIInv, Rounds
  <2>5. Reply(p) => \A i \in 1..n : Answering(i) => i = 1
    BY <1>s, <1>2, <2>1 DEF StepIInv, Rounds
  <2> QED BY <2>2, <2>4, <2>5
<1>8. /\ state'["server"] = "status" => state["client"] = "status"
      /\ joined["server"] => state'["server"] \in {"play", "configuration"}
  <2>1. /\ state["server"] = "status" => state["client"] = "status"
        /\ joined["server"] => state["server"] \in {"play", "configuration"}
        /\ p.kind = "handshake" /\ p.arg = "status" => state["client"] = "status"
        /\ p.kind = "handshake" => state["server"] = "handshaking"
    BY <1>s, <1>2 DEF StepIInv, Begins, Joins
  <2> HIDE DEF p
  <2> QED BY <1>2, <2>1 DEF Exchange!StateAfter
<1>9. LinksTyped'
  BY <1>s, <1>1, Pair, ReceivedKeepsTypes
<1>10. InStep'
  BY <1>s, <1>1, Pair, ReadsInStep DEF StepIInv
<1>11. AppsTyped'
  <2>1. owed \in DOMAIN Exchange!Answers \union {"none"} /\ asked \in DOMAIN Exchange!Answers \union {"none"}
    BY <1>s DEF StepIInv, AppsTyped
  <2>2. owed' \in DOMAIN Exchange!Answers \union {"none"} /\ asked' \in DOMAIN Exchange!Answers \union {"none"}
    BY <1>5, <2>1
  <2>3. joined' \in [Exchange!Ends -> BOOLEAN]
    BY <1>s, <1>5 DEF StepIInv, AppsTyped
  <2>4. Exchange!Ends' = Exchange!Ends /\ (DOMAIN Exchange!Answers)' = DOMAIN Exchange!Answers
    BY DEF Exchange!Ends, Exchange!Answers
  <2> QED BY <2>2, <2>3, <2>4 DEF AppsTyped
<1> HIDE DEF n, h, p
<1>12. /\ \A i \in 1..Len(link["client"]) : Asking(i)' <=> Asking(i)
       /\ \A i \in 1..(n - 1) : Answering(i)' <=> Answering(i + 1)
  BY <1>s, <1>2 DEF Asking, Question, Answering, Reply
<1>13. Rounds'
  <2>1. \A i \in 1..Len(link["client"]) :
          Asking(i)' => i = Len(link["client"]) /\ asked' # "none" /\ owed = "none"
    <3>1. \A i \in 1..Len(link["client"]) :
            Asking(i) => i = Len(link["client"]) /\ asked # "none" /\ owed = "none"
      BY <1>s DEF StepIInv, Rounds
    <3>2. Reply(p) => \A i \in 1..Len(link["client"]) : FALSE
      <4>1. Reply(p) => Len(link["client"]) = 0
        BY <1>7
      <4> QED BY <4>1
    <3> QED BY <1>5, <1>12, <3>1, <3>2
  <2>2. \A i, j \in 1..(n - 1) :
          Answering(i)' => asked' # "none" /\ owed = "none" /\ (Answering(j)' => i = j)
    <3>1. \A i, j \in 1..n :
            Answering(i) => asked # "none" /\ owed = "none" /\ (Answering(j) => i = j)
      BY <1>s DEF StepIInv, Rounds, n
    <3> SUFFICES ASSUME NEW i \in 1..(n - 1), NEW j \in 1..(n - 1), Answering(i)'
                 PROVE  asked' # "none" /\ owed = "none" /\ (Answering(j)' => i = j)
      OBVIOUS
    <3>2. i + 1 \in 1..n /\ j + 1 \in 1..n /\ Answering(i + 1) /\ i + 1 # 1
      BY <1>2, <1>12
    <3>3. ~Reply(p)
      BY <1>7, <3>2
    <3>4. Answering(j)' => i + 1 = j + 1
      BY <1>12, <3>1, <3>2
    <3> QED BY <1>5, <3>1, <3>2, <3>3, <3>4
  <2>3. owed # "none" => asked' # "none"
    BY <1>s, <1>5, <1>7 DEF StepIInv, Rounds
  <2>4. owed # "none" \/ (\E i \in 1..(n - 1) : Answering(i)') =>
          link["client"] = <<>> \/ state["client"] = "status"
    <3>1. owed # "none" \/ (\E i \in 1..n : Answering(i)) =>
            link["client"] = <<>> \/ state["client"] = "status"
      BY <1>s DEF StepIInv, Rounds, n
    <3> QED BY <1>2, <1>12, <3>1
  <2> QED BY <1>2, <1>5, <2>1, <2>2, <2>3, <2>4 DEF Rounds
<1>14. OwedFits'
  BY <1>s, <1>2, <1>5 DEF StepIInv, OwedFits
<1>15. Begins'
  <2>1. state["client"] = "status" => owed = "who"
    BY <1>s DEF StepIInv, Begins
  <2>2. \A i \in 1..(n - 1) : link'["server"][i].packet.kind # "handshake"
    <3> TAKE i \in 1..(n - 1)
    <3>1. i + 1 \in 1..n /\ i + 1 # 1 /\ link'["server"][i] = link["server"][i + 1]
      BY <1>2
    <3> QED BY <1>s, <3>1 DEF StepIInv, Begins, n
  <2> QED BY <1>2, <1>5, <1>6, <1>8, <2>1, <2>2 DEF Begins
<1>16. Joins'
  <2>1. joined["client"]' = joined["client"] /\ joined["server"]' = joined["server"]
    BY <1>5
  <2>2. \A i \in 1..(n - 1) : PlayData(link'["server"][i]) => joined["client"]
    BY <1>s, <1>2 DEF StepIInv, Joins, n
  <2> QED BY <1>s, <1>2, <1>8, <2>1, <2>2 DEF StepIInv, Joins, PlayData
<1> QED BY <1>9, <1>10, <1>11, <1>13, <1>14, <1>15, <1>16 DEF StepIInv

LEMMA StepStarts == Exchange!Init => StepIInv
<1>s. SUFFICES ASSUME Exchange!Init PROVE StepIInv
  OBVIOUS
<1>1. /\ version \in {47, 775}
      /\ state = [e \in Exchange!Ends |-> "handshaking"]
      /\ compression = [e \in Exchange!Ends |-> Exchange!Off]
      /\ link = [e \in Exchange!Ends |-> <<>>]
      /\ asked = "who" /\ owed = "who"
      /\ joined = [e \in Exchange!Ends |-> FALSE]
  BY <1>s DEF Exchange!Init
<1>2. /\ \A e \in Exchange!Ends : link[e] = <<>> /\ Len(link[e]) = 0 /\ Session(e) = <<"handshaking", Exchange!Off>>
      /\ state["client"] = "handshaking" /\ state["server"] = "handshaking"
      /\ link["client"] = <<>> /\ link["server"] = <<>>
      /\ ~joined["client"] /\ ~joined["server"]
  BY <1>1, Pair DEF Session
<1>3. Len(link["client"]) = 0 /\ Len(link["server"]) = 0
  BY <1>2
<1>4. \A i \in 1..0 : FALSE
  OBVIOUS
<1>5. LinksTyped
  <2>1. state \in [Exchange!Ends -> Exchange!States] /\ compression \in [Exchange!Ends -> Levels]
    BY <1>1 DEF Exchange!States, Levels
  <2>2. link \in [Exchange!Ends -> Seq(Crossing)]
    BY <1>1
  <2>3. \A e \in Exchange!Ends : state[e] # "configuration" /\ Len(link[e]) <= MaxInFlight
    BY <1>1, <1>2, ExchangeAssumption DEF Exchange!SessionsAssumption
  <2> QED BY <1>1, <1>3, <1>4, <2>1, <2>2, <2>3 DEF LinksTyped
<1>6. AppsTyped
  BY <1>1, AnswersTo DEF AppsTyped
<1>7. InStep
  <2>1. \A e \in Exchange!Ends : Exchange!Peer(e) \in Exchange!Ends
    BY OtherEnd
  <2>2. \A e \in Exchange!Ends : Leads(link[e], Session(e), Session(Exchange!Peer(e)))
    BY <1>2, <1>4, <2>1 DEF Leads
  <2> QED BY <1>2, <2>2 DEF InStep
<1>8. Rounds
  BY <1>1, <1>2, <1>3, <1>4 DEF Rounds
<1>9. OwedFits /\ Begins
  BY <1>1, <1>2, <1>3, <1>4 DEF OwedFits, Begins
<1>10. Joins
  BY <1>2, <1>3, <1>4 DEF Joins
<1> QED BY <1>5, <1>6, <1>7, <1>8, <1>9, <1>10 DEF StepIInv

LEMMA StepStays == StepIInv /\ UNCHANGED crossing => StepIInv'
<1>s. SUFFICES ASSUME StepIInv, UNCHANGED crossing PROVE StepIInv'
  OBVIOUS
<1>1. /\ version' = version /\ state' = state /\ compression' = compression /\ link' = link
      /\ asked' = asked /\ owed' = owed /\ joined' = joined
  BY <1>s DEF crossing
<1>2. LinksTyped'
  <2>1. \A f : (OfServer(f)' <=> OfServer(f)) /\ (OfClient(f)' <=> OfClient(f))
    BY <1>1, SameKinds
  <2> QED BY <1>s, <1>1, <2>1 DEF StepIInv, LinksTyped
<1>3. InStep'
  <2>1. /\ \A l, x, y : Leads(l, x, y)' <=> Leads(l, x, y)
        /\ \A l : Still(l)' <=> Still(l)
    BY <1>1, SameRules
  <2>2. \A e : Session(e)' = Session(e)
    BY <1>1 DEF Session
  <2>3. \A e \in Exchange!Ends : Exchange!Peer(e) \in Exchange!Ends
    BY OtherEnd
  <2> QED BY <1>s, <1>1, <2>1, <2>2, <2>3 DEF StepIInv, InStep
<1>4. AppsTyped'
  BY <1>s, <1>1 DEF StepIInv, AppsTyped
<1>5. Rounds'
  BY <1>s, <1>1 DEF StepIInv, Rounds, Asking, Answering, Question, Reply
<1>6. OwedFits' /\ Begins'
  BY <1>s, <1>1 DEF StepIInv, OwedFits, Begins
<1>7. Joins'
  BY <1>s, <1>1 DEF StepIInv, Joins, PlayData
<1> QED BY <1>2, <1>3, <1>4, <1>5, <1>6, <1>7 DEF StepIInv

LEMMA StepKeeps == StepIInv /\ (Exchange!Next \/ UNCHANGED crossing) => StepIInv'
<1>1. StepIInv /\ Exchange!Next => StepIInv'
  <2>s. SUFFICES ASSUME StepIInv, Exchange!Next PROVE StepIInv'
    OBVIOUS
  <2>1. version' = version
    BY <2>s DEF Exchange!Next
  <2> QED BY <2>s, <2>1, ClientHandshakesKeeps, ClientAnswersKeeps, ClientSendsKeeps,
             ClientReadsKeeps, ServerAsksKeeps, ServerCompressesKeeps, ServerSendsKeeps,
             ServerReadsKeeps DEF Exchange!Next
<1> QED BY <1>1, StepStays

LEMMA StepIsEnough == StepIInv => SessionsInStep
<1>s. SUFFICES ASSUME StepIInv PROVE SessionsInStep
  OBVIOUS
<1>1. Exchange!TypeOK
  <2>1. LinksTyped /\ AppsTyped
    BY <1>s DEF StepIInv
  <2>2. \A e \in Exchange!Ends : compression[e] = Exchange!Off \/ compression[e] \in Nat
    <3> TAKE e \in Exchange!Ends
    <3>1. compression[e] \in Levels
      BY <2>1 DEF LinksTyped
    <3> QED BY <3>1 DEF Levels
  <2> QED BY <2>1, <2>2 DEF Exchange!TypeOK, LinksTyped, AppsTyped
<1>2. Exchange!ReadAsWritten
  <2> SUFFICES ASSUME NEW e \in Exchange!Ends, link[e] # <<>>
               PROVE  Head(link[e]).state = state[e] /\ Head(link[e]).compression = compression[e]
    BY DEF Exchange!ReadAsWritten
  <2>1. Written(Head(link[e])) = Session(e)
    BY <1>s, ReadsAsWrittenBy DEF StepIInv
  <2> QED BY <2>1 DEF Written, Session
<1>3. Exchange!AgreeWhenQuiet
  <2>s. SUFFICES ASSUME \A e \in Exchange!Ends : link[e] = <<>>
                 PROVE  state["client"] = state["server"] /\ compression["client"] = compression["server"]
    BY DEF Exchange!AgreeWhenQuiet
  <2>1. link["client"] = <<>> /\ link["server"] = <<>> /\ Len(link["server"]) = 0
    BY <2>s, Pair
  <2>2. Still(link["server"])
    BY <2>1 DEF Still
  <2>3. Leads(link["client"], Session("client"), Session("server"))
    BY <1>s, <2>2, Pair DEF StepIInv, InStep
  <2> QED BY <2>1, <2>3 DEF Leads, Session
<1> QED BY <1>1, <1>2, <1>3 DEF SessionsInStep

(* In either protocol, under any thresholds and with any number of frames on their    *)
(* way in both directions, each end reads every frame in the state and with the        *)
(* compression its peer wrote it with, and two ends with nothing between them are in     *)
(* one session (v26_1/protocol.go 313-318, v1_8/protocol.go 381-388).                *)
THEOREM SpecSessionsInStep == PartsSpec => []SessionsInStep
<1>1. PartsInit => StepIInv
  BY StepStarts DEF PartsInit
<1>2. StepIInv /\ [PartsNext]_<<part, vars, crossing>> => StepIInv'
  <2>1. [PartsNext]_<<part, vars, crossing>> => Exchange!Next \/ UNCHANGED crossing
    BY DEF PartsNext
  <2> QED BY <2>1, StepKeeps
<1> QED BY <1>1, <1>2, StepIsEnough, PTL DEF PartsSpec
=============================================================================
