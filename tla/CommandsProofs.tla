--------------------------- MODULE CommandsProofs ---------------------------
(* Proofs about the commands and the router, for any settings, packets, handlers    *)
(* and bounds.                                                                 *)
EXTENDS MCCommands, SumProofs

(***************************************************************************)
(* What has been read, what waits in the queue and what is pending, of all that     *)
(* arrived: the whole of it while the stream runs, and some of it, in its order,     *)
(* for ever.                                                                   *)
(***************************************************************************)
Follows(read, waits, pend, all, runs) ==
  /\ runs => (read \o waits) \o pend = all
  /\ IsSubsequence((read \o waits) \o pend, all)

LEMMA PartOfItself ==
  ASSUME NEW S, NEW s \in Seq(S)
  PROVE  IsSubsequence(s, s)
<1> DEFINE f == [i \in DOMAIN s |-> i]
<1>1. f \in [DOMAIN s -> DOMAIN s]
  OBVIOUS
<1>2. (\A i, j \in DOMAIN s : i < j => f[i] < f[j]) /\ \A i \in DOMAIN s : s[i] = s[f[i]]
  OBVIOUS
<1> HIDE DEF f
<1> QED
  BY <1>1, <1>2 DEF IsSubsequence

LEMMA PartGrows ==
  ASSUME NEW S, NEW s \in Seq(S), NEW t \in Seq(S), NEW x \in S, IsSubsequence(s, t)
  PROVE  IsSubsequence(Append(s, x), Append(t, x))
<1> DEFINE u == Append(s, x)
           v == Append(t, x)
           n == Len(s)
           m == Len(t)
<1>1. PICK f \in [DOMAIN s -> DOMAIN t] :
        /\ \A i, j \in DOMAIN s : i < j => f[i] < f[j]
        /\ \A i \in DOMAIN s : s[i] = t[f[i]]
  BY DEF IsSubsequence
<1>2. /\ n \in Nat /\ m \in Nat /\ DOMAIN s = 1..n /\ DOMAIN t = 1..m
      /\ DOMAIN u = 1..(n + 1) /\ DOMAIN v = 1..(m + 1)
      /\ u[n + 1] = x /\ v[m + 1] = x
      /\ (\A i \in 1..n : u[i] = s[i]) /\ \A i \in 1..m : v[i] = t[i]
  OBVIOUS
<1> DEFINE g == [i \in 1..(n + 1) |-> IF i = n + 1 THEN m + 1 ELSE f[i]]
<1> HIDE DEF u, v, n, m
<1>3. \A i \in 1..n : f[i] \in 1..m
  BY <1>1, <1>2
<1>4. \A i \in 1..(n + 1) : i # n + 1 => i \in 1..n
  BY <1>2
<1>5. \A i \in 1..(n + 1) : g[i] = IF i = n + 1 THEN m + 1 ELSE f[i]
  OBVIOUS
<1>6. g \in [1..(n + 1) -> 1..(m + 1)]
  <2>1. m + 1 \in 1..(m + 1) /\ \A i \in 1..m : i \in 1..(m + 1)
    BY <1>2
  <2> QED
    BY <1>3, <1>4, <2>1
<1> HIDE DEF g
<1>7. ASSUME NEW i \in 1..(n + 1), NEW j \in 1..(n + 1), i < j
      PROVE  g[i] < g[j]
  <2>1. i # n + 1 /\ i \in 1..n /\ g[i] = f[i]
    BY <1>2, <1>4, <1>5, <1>7
  <2>2. CASE j = n + 1
    BY <1>2, <1>3, <1>5, <2>1, <2>2
  <2>3. CASE j # n + 1
    BY <1>1, <1>2, <1>4, <1>5, <1>7, <2>1, <2>3
  <2> QED
    BY <2>2, <2>3
<1>8. ASSUME NEW i \in 1..(n + 1) PROVE u[i] = v[g[i]]
  <2>1. CASE i = n + 1
    BY <1>2, <1>5, <2>1
  <2>2. CASE i # n + 1
    BY <1>1, <1>2, <1>3, <1>4, <1>5, <2>2
  <2> QED
    BY <2>1, <2>2
<1>9. IsSubsequence(u, v)
  BY <1>2, <1>6, <1>7, <1>8 DEF IsSubsequence
<1> QED
  BY <1>9 DEF u, v

LEMMA PartLoses ==
  ASSUME NEW S, NEW s \in Seq(S), NEW u \in Seq(S), NEW t \in Seq(S), IsSubsequence(s \o u, t)
  PROVE  IsSubsequence(s, t)
<1> DEFINE w == s \o u
<1>1. /\ DOMAIN s = 1..Len(s) /\ DOMAIN w = 1..(Len(s) + Len(u)) /\ Len(s) \in Nat /\ Len(u) \in Nat
      /\ \A i \in 1..Len(s) : w[i] = s[i]
  OBVIOUS
<1> HIDE DEF w
<1>2. PICK f \in [DOMAIN w -> DOMAIN t] :
        /\ \A i, j \in DOMAIN w : i < j => f[i] < f[j]
        /\ \A i \in DOMAIN w : w[i] = t[f[i]]
  BY DEF IsSubsequence, w
<1> DEFINE g == [i \in DOMAIN s |-> f[i]]
<1>3. \A i \in DOMAIN s : i \in DOMAIN w
  BY <1>1
<1>4. g \in [DOMAIN s -> DOMAIN t] /\ \A i \in DOMAIN s : g[i] = f[i]
  BY <1>2, <1>3
<1> HIDE DEF g
<1>5. (\A i, j \in DOMAIN s : i < j => g[i] < g[j]) /\ \A i \in DOMAIN s : s[i] = t[g[i]]
  BY <1>1, <1>2, <1>3, <1>4
<1> QED
  BY <1>4, <1>5 DEF IsSubsequence

LEMMA MoveHead ==
  ASSUME NEW S, NEW s \in Seq(S), NEW t \in Seq(S), t # <<>>
  PROVE  Append(s, Head(t)) \o Tail(t) = s \o t
OBVIOUS

LEMMA Regroup ==
  ASSUME NEW S, NEW r \in Seq(S), NEW s \in Seq(S), NEW t \in Seq(S)
  PROVE  (r \o (s \o t)) \o <<>> = (r \o s) \o t
OBVIOUS

LEMMA OneMore ==
  ASSUME NEW S, NEW s \in Seq(S), NEW x \in S
  PROVE  s \o <<x>> = Append(s, x) /\ s \o <<>> = s
OBVIOUS

LEMMA NothingFollows == \A runs : Follows(<<>>, <<>>, <<>>, <<>>, runs)
<1>1. <<>> \in Seq({0}) /\ (<<>> \o <<>>) \o <<>> = <<>>
  OBVIOUS
<1>2. IsSubsequence(<<>>, <<>>)
  BY <1>1, PartOfItself
<1> QED
  BY <1>1, <1>2 DEF Follows

(* A packet is decoded.                                                          *)
LEMMA FollowsDecoded ==
  ASSUME NEW S, NEW read \in Seq(S), NEW waits \in Seq(S), NEW all \in Seq(S), NEW runs,
         NEW x \in S, Follows(read, waits, <<>>, all, runs)
  PROVE  Follows(read, waits, <<x>>, Append(all, x), runs)
<1> DEFINE s == read \o waits
<1>1. s \in Seq(S) /\ (runs => s \o <<>> = all) /\ IsSubsequence(s \o <<>>, all)
  BY DEF Follows
<1> HIDE DEF s
<1>2. s \o <<x>> = Append(s, x) /\ s \o <<>> = s
  BY <1>1, OneMore
<1>3. IsSubsequence(Append(s, x), Append(all, x))
  BY <1>1, <1>2, PartGrows
<1> QED
  BY <1>1, <1>2, <1>3 DEF Follows, s

(* It gets its place in the queue.                                                *)
LEMMA FollowsQueued ==
  ASSUME NEW S, NEW read \in Seq(S), NEW waits \in Seq(S), NEW pend \in Seq(S), NEW all, NEW runs,
         Follows(read, waits, pend, all, runs)
  PROVE  Follows(read, waits \o pend, <<>>, all, runs)
<1>1. (read \o (waits \o pend)) \o <<>> = (read \o waits) \o pend
  BY Regroup
<1> QED
  BY <1>1 DEF Follows

(* It is lost, at an end.                                                        *)
LEMMA FollowsLost ==
  ASSUME NEW S, NEW read \in Seq(S), NEW waits \in Seq(S), NEW pend \in Seq(S),
         NEW all \in Seq(S), NEW runs, Follows(read, waits, pend, all, runs)
  PROVE  Follows(read, waits, <<>>, all, FALSE)
<1> DEFINE s == read \o waits
<1>1. s \in Seq(S) /\ IsSubsequence(s \o pend, all)
  BY DEF Follows
<1> HIDE DEF s
<1>2. s \o <<>> = s
  BY <1>1
<1>3. IsSubsequence(s, all)
  BY <1>1, PartLoses
<1> QED
  BY <1>2, <1>3 DEF Follows, s

(* It is read.                                                                  *)
LEMMA FollowsRead ==
  ASSUME NEW S, NEW read \in Seq(S), NEW waits \in Seq(S), waits # <<>>, NEW pend, NEW all,
         NEW runs, Follows(read, waits, pend, all, runs)
  PROVE  Follows(Append(read, Head(waits)), Tail(waits), pend, all, runs)
<1>1. Append(read, Head(waits)) \o Tail(waits) = read \o waits
  BY MoveHead
<1> QED
  BY <1>1 DEF Follows

(* Every step of a stream; what else may happen to it, or what a write does to it.   *)
Unmoved ==
  /\ UNCHANGED <<inbox, arrived>> /\ (phase' = "running" => phase = "running")
  /\ held' = held \/ (held' = <<>> /\ phase' # "running")

LEMMA FollowsStream ==
  ASSUME NEW S, NEW read \in Seq(S), inbox \in Seq(S), held \in Seq(S), arrived \in Seq(S),
         Follows(read, inbox, held, arrived, phase = "running"),
         \/ Decodes /\ Head(transit).kind \in S
         \/ Queues \/ Drops \/ Leaves \/ SeesThePeerGo \/ Unmoved
  PROVE  Follows(read, inbox', held', arrived', phase' = "running")
<1>r. ASSUME UNCHANGED <<inbox, held, arrived>>, phase' = "running" => phase = "running"
      PROVE  Follows(read, inbox', held', arrived', phase' = "running")
  BY <1>r DEF Follows
<1>l. ASSUME UNCHANGED <<inbox, arrived>>, held' = <<>>, phase' # "running"
      PROVE  Follows(read, inbox', held', arrived', phase' = "running")
  <2>1. Follows(read, inbox, <<>>, arrived, FALSE)
    BY FollowsLost
  <2> QED
    BY <1>l, <2>1 DEF Follows
<1>q. ASSUME inbox' = inbox \o held, held' = <<>>, arrived' = arrived,
             phase' = "running" => phase = "running"
      PROVE  Follows(read, inbox', held', arrived', phase' = "running")
  <2>1. Follows(read, inbox \o held, <<>>, arrived, phase = "running")
    BY FollowsQueued
  <2> QED
    BY <1>q, <2>1 DEF Follows
<1>1. CASE Decodes /\ Head(transit).kind \in S
  <2>1. CASE Head(transit).fate = "whole"
    <3>1. /\ held = <<>> /\ held' = <<Head(transit).kind>> /\ phase' = phase /\ inbox' = inbox
          /\ arrived' = Append(arrived, Head(transit).kind)
      BY <1>1, <2>1 DEF Decodes
    <3>2. Follows(read, inbox, <<Head(transit).kind>>, Append(arrived, Head(transit).kind),
                  phase = "running")
      BY <1>1, <3>1, FollowsDecoded
    <3> QED
      BY <3>1, <3>2
  <2>2. CASE Head(transit).fate # "whole"
    <3>1. UNCHANGED <<inbox, arrived>> /\ held' = <<>> /\ phase' = "left"
      BY <1>1, <2>2 DEF Decodes, Breaks
    <3> QED
      BY <1>l, <3>1
  <2> QED
    BY <2>1, <2>2
<1>2. CASE Queues
  BY <1>q, <1>2 DEF Queues
<1>3. CASE Drops
  BY <1>l, <1>3 DEF Drops
<1>4. CASE Leaves
  BY <1>l, <1>q, <1>4 DEF Leaves
<1>5. CASE SeesThePeerGo
  BY <1>r, <1>5 DEF SeesThePeerGo, Ends
<1>6. CASE Unmoved
  BY <1>r, <1>l, <1>6 DEF Unmoved
<1> QED
  BY <1>1, <1>2, <1>3, <1>4, <1>5, <1>6

LEMMA FollowsIsOrder ==
  ASSUME NEW S, NEW read \in Seq(S), inbox \in Seq(S), held \in Seq(S), arrived \in Seq(S),
         Follows(read, inbox, held, arrived, phase = "running")
  PROVE  ReadsInOrder(read)
<1>1. read \o inbox \in Seq(S)
  OBVIOUS
<1>2. IsSubsequence(read \o inbox, arrived)
  BY <1>1, PartLoses DEF Follows
<1> QED
  BY <1>2 DEF Follows, ReadsInOrder

(***************************************************************************)
(* A command.  What the reports say follows from what the stream can still do at    *)
(* each place the command can be.                                              *)
(***************************************************************************)
Stages ==
  {"listening", "greeting", "asked", "answering", "echoing", "returning the ping",
   "refusing", "playing", "draining", "recording", "replying", "ended", "closing",
   "closed", "exited"}

Causes ==
  {"none", "short", "wrong", "leaves", "resets", "unsent", "refused", "closed", "interrupted"}

Packets == {"login"} \cup UNION {s.kinds \cup s.greetings : s \in Settings}
Frames  == [kind : Packets, fate : Fates]

Summaries == [written : Nat, read : Seq(Packets), mismatches : Nat, failures : Seq(Causes)]
Sinks     == [observed : Nat, kept : Nat, open : BOOLEAN]

Phases == {"running", "stopping", "left", "done"}

StreamTyped ==
  /\ transit \in Seq(Frames)
  /\ peer \in Goings \cup {"here"} /\ phase \in Phases
  /\ cause \in Causes /\ held \in Seq(Packets) /\ inbox \in Seq(Packets)
  /\ arrived \in Seq(Packets)
  /\ phase = "running" => cause = "none"

ReportTyped ==
  /\ at \in Stages /\ step \in 0..Len(Script)
  /\ served \in BOOLEAN /\ interrupted \in BOOLEAN /\ printed \in Causes \cup {"not yet"}
  /\ summary \in Summaries
  /\ summary.written + summary.mismatches <= step
  /\ keepAlives \in -1..MaxKeepAlives /\ sessions \in 0..MaxSessions
  /\ sink \in Sinks
  /\ sink.kept <= sink.observed

Playback == {"playing", "draining", "ended", "closing", "closed", "exited"}

Counted(read) == Follows(read, inbox, held, arrived, phase = "running")

Counting ==
  /\ served => at \in Playback
  /\ at = "greeting" => summary.read = <<>> /\ Counted(<<>>)
  /\ served => Counted(<<"login">> \o summary.read)

(* Where a script only listens, the stream can end of nothing but what arrives.       *)
Finding ==
  Command = "serve" /\ OnlyListens =>
    /\ interrupted = FALSE
    /\ at \in {"greeting", "playing", "draining"} =>
         sink.open /\ cause \in {"none", "wrong", "leaves"}
    /\ FindingsAreReported /\ FailuresAreFindings

Keeping ==
  Command = "capture" =>
    /\ at \in {"listening", "recording", "replying", "ended", "closing", "closed", "exited"}
    /\ at \in {"recording", "replying", "ended", "closing"} => sink.open
    /\ at \in {"closing", "closed"} => phase = "done"
    /\ FileOutlivesStream
    /\ keepAlives = -1

ServeIInv ==
  /\ setting \in Settings
  /\ StreamTyped /\ ReportTyped /\ Counting /\ Finding /\ Keeping

LEMMA NothingYet ==
  <<>> \in Seq(Frames) /\ <<>> \in Seq(Packets) /\ <<>> \in Seq(Causes) /\ DOMAIN <<>> = {}
OBVIOUS

LEMMA SettingTyped ==
  ASSUME setting \in Settings
  PROVE  /\ Command \in {"serve", "capture"} /\ Len(Script) \in Nat
         /\ Kinds \subseteq Packets /\ Greetings \subseteq Packets
         /\ Fates \subseteq {"whole", "short", "wrong"} /\ Goings \subseteq {"leaves", "resets"}
         /\ Interrupts \in BOOLEAN
         /\ MaxPackets \in Nat /\ MaxKeepAlives \in Nat /\ MaxSessions \in Nat
<1>1. Kinds \subseteq Packets /\ Greetings \subseteq Packets
  BY DEF Kinds, Greetings, Packets
<1> QED
  BY <1>1, ServeAssumption DEF Command, Script, Fates, Goings, Interrupts, MaxPackets,
     MaxKeepAlives, MaxSessions

LEMMA SettingStays ==
  ASSUME setting' = setting
  PROVE  /\ Command' = Command /\ Script' = Script /\ Fates' = Fates /\ Goings' = Goings
         /\ Interrupts' = Interrupts /\ MaxKeepAlives' = MaxKeepAlives
         /\ MaxSessions' = MaxSessions /\ (OnlyListens' <=> OnlyListens)
BY DEF Command, Script, Fates, Goings, Interrupts, MaxKeepAlives, MaxSessions, OnlyListens

LEMMA ServeStarts == ASSUME Init PROVE ServeIInv
<1>1. setting \in Settings
  BY DEF Init
<1>2. Len(Script) \in Nat /\ MaxKeepAlives \in Nat /\ MaxSessions \in Nat
  BY <1>1, SettingTyped
<1>3. StreamTyped
  <2>1. transit = <<>> /\ held = <<>> /\ inbox = <<>> /\ arrived = <<>> /\ peer = "here"
        /\ phase = "running" /\ cause = "none"
    BY DEF Init, Connected
  <2> QED
    BY <2>1, NothingYet DEF StreamTyped, Causes, Phases
<1>4. ReportTyped
  <2>1. /\ at = "listening" /\ step = 0 /\ served = FALSE /\ interrupted = FALSE
        /\ printed = "not yet" /\ summary = NoSummary /\ sink = Fresh
    BY DEF Init
  <2>0. keepAlives = -1 /\ sessions = 0 /\ step = 0
    BY DEF Init
  <2>2. /\ NoSummary \in Summaries
        /\ NoSummary.written + NoSummary.mismatches = 0
        /\ Fresh \in Sinks /\ Fresh.kept <= Fresh.observed
    BY NothingYet DEF NoSummary, Fresh, Summaries, Sinks
  <2>3. at \in Stages /\ printed \in Causes \cup {"not yet"}
    BY <2>1 DEF Stages
  <2>4. step \in 0..Len(Script) /\ keepAlives \in -1..MaxKeepAlives /\ sessions \in 0..MaxSessions
    BY <1>2, <2>0
  <2>5. served \in BOOLEAN /\ interrupted \in BOOLEAN
    BY <2>1
  <2>6. /\ summary \in Summaries
    BY <2>1, <2>2
  <2>7. summary.written + summary.mismatches <= step
    <3>1. summary.written + summary.mismatches = 0
      BY <2>1, <2>2
    <3> QED
      BY <2>0, <3>1
  <2>8. sink \in Sinks /\ sink.kept <= sink.observed
    BY <2>1, <2>2
  <2> QED
    BY <2>3, <2>4, <2>5, <2>6, <2>7, <2>8 DEF ReportTyped
<1>5. Counting
  BY DEF Counting, Init
<1>6. Finding
  <2>1. printed = "not yet" /\ summary.failures = <<>>
    BY DEF Init, NoSummary
  <2>2. interrupted = FALSE /\ at = "listening"
    BY DEF Init
  <2> QED
    BY <2>1, <2>2, NothingYet DEF Finding, FindingsAreReported, FailuresAreFindings, Undecodable
<1>7. Keeping
  BY DEF Keeping, FileOutlivesStream, Init, Connected, Fresh
<1> QED
  BY <1>1, <1>3, <1>4, <1>5, <1>6, <1>7 DEF ServeIInv

(* What the command itself does to its stream.                                    *)
LEMMA MainOfStream ==
  ASSUME Main
  PROVE  \/ UNCHANGED inlet
         \/ TakesPacket
         \/ /\ UNCHANGED <<transit, peer, inbox, arrived>>
            /\ \E why \in {"none", "unsent", "closed"} : (Ends(why) /\ held' = held) \/ Breaks(why)
<1> USE DEF inlet
<1>1. CASE Greeted \/ Asked \/ Hears \/ Drains \/ Records
  BY <1>1 DEF Greeted, Asked, Hears, Drains, Records
<1>2. CASE GivesUp \/ HearsNothing \/ ReadFails \/ StartsDraining \/ GoesIdle \/ StopsRecording
  BY <1>2 DEF GivesUp, HearsNothing, ReadFails, StartsDraining, GoesIdle, StopsRecording
<1>3. CASE ClosesSink \/ Returns \/ Exits
  BY <1>3 DEF ClosesSink, Returns, Exits
<1>4. CASE Answers \/ AnswerFails \/ Says \/ SayFails \/ Replies
  <2>1. Writes \/ WriteFails
    BY <1>4 DEF Answers, AnswerFails, Says, SayFails, Replies
  <2> QED
    BY <2>1 DEF Writes, WriteFails
<1>5. CASE Refuses
  BY <1>5 DEF Refuses
<1>6. CASE ClosesStream
  BY <1>6 DEF ClosesStream
<1> QED
  BY <1>1, <1>2, <1>3, <1>4, <1>5, <1>6 DEF Main

LEMMA StreamTypedStep ==
  ASSUME setting \in Settings, StreamTyped, Next
  PROVE  StreamTyped'
<1> DEFINE F == Frames
<1>1. setting' = setting /\ Fates' = Fates /\ Goings' = Goings /\ Frames' = F
  BY SettingStays DEF Next, Frames
<1>2. /\ Kinds \subseteq Packets /\ Greetings \subseteq Packets
      /\ Fates \subseteq Causes \cup {"whole"} /\ Goings \subseteq Causes \ {"none"}
  BY SettingTyped DEF Causes
<1>3. /\ transit \in Seq(F) /\ peer \in Goings \cup {"here"}
      /\ phase \in Phases /\ held \in Seq(Packets)
      /\ cause \in Causes /\ inbox \in Seq(Packets) /\ arrived \in Seq(Packets)
      /\ phase = "running" => cause = "none"
  BY DEF StreamTyped
<1>4. /\ transit' \in Seq(F) /\ peer' \in Goings \cup {"here"}
      /\ phase' \in Phases /\ held' \in Seq(Packets)
      /\ cause' \in Causes /\ inbox' \in Seq(Packets) /\ arrived' \in Seq(Packets)
      /\ phase' = "running" => cause' = "none"
  <2>0. \A f \in F : f.kind \in Packets /\ f.fate \in Fates
    BY DEF Packets, Frames
  <2>e. \A why : Ends(why) /\ why \in Causes =>
          /\ phase' \in Phases /\ cause' \in Causes
          /\ phase' = "running" => cause' = "none"
    BY <1>3 DEF Ends, FirstCause, Phases
  <2>b. \A why : Breaks(why) /\ why \in Causes =>
          /\ phase' \in Phases /\ cause' \in Causes /\ held' \in Seq(Packets)
          /\ phase' = "running" => cause' = "none"
    BY <1>3, NothingYet DEF Breaks, FirstCause, Phases
  <2>w. {"none", "unsent", "refused", "closed", "interrupted"} \subseteq Causes
    BY DEF Causes
  <2>1. CASE Accept
    <3>1. /\ transit' = <<>> /\ held' = <<>> /\ inbox' = <<>> /\ arrived' = <<>> /\ peer' = "here"
          /\ phase' = "running" /\ cause' = "none"
      BY <2>1 DEF Accept
    <3> QED
      BY <3>1, <2>w, NothingYet DEF F, Phases
  <2>2. CASE ClientSends
    <3>1. PICK kind \in Packets, fate \in Fates : PeerSends(kind, fate)
      BY <1>2, <2>2 DEF ClientSends
    <3>2. [kind |-> kind, fate |-> fate] \in F
      BY DEF Packets, Frames
    <3> HIDE DEF F
    <3>3. transit' \in Seq(F)
      BY <1>3, <3>1, <3>2 DEF PeerSends
    <3> QED
      BY <1>3, <3>1, <3>3, <2>2 DEF PeerSends, ClientSends
  <2> HIDE DEF F
  <2>3. CASE ClientGoes
    BY <1>3, <2>3 DEF ClientGoes, PeerGoes
  <2>4. CASE Interrupt
    BY <1>3, <2>e, <2>w, <2>4 DEF Interrupt
  <2>5. CASE KeepsAlive
    <3>1. CASE Writes
      BY <1>3, <3>1 DEF Writes, inlet
    <3>2. CASE WriteFails
      BY <1>3, <2>e, <2>b, <2>w, <3>2 DEF WriteFails
    <3> QED
      BY <2>5, <3>1, <3>2 DEF KeepsAlive
  <2>6. CASE StreamDecodes
    <3>1. Head(transit) \in F /\ Tail(transit) \in Seq(F)
      BY <1>3, <2>6 DEF StreamDecodes, Decodes
    <3>2. Head(transit).kind \in Packets /\ Head(transit).fate \in Fates
      BY <3>1, <2>0
    <3>3. Head(transit).fate # "whole" => Head(transit).fate \in Causes
      BY <3>2, <1>2
    <3>4. transit' \in Seq(F) /\ peer' = peer
      BY <2>6, <3>1 DEF StreamDecodes, Decodes
    <3>5. CASE Head(transit).fate = "whole"
      <4>1. /\ inbox' = inbox /\ UNCHANGED <<cause, phase>> /\ held' = <<Head(transit).kind>>
            /\ arrived' = Append(arrived, Head(transit).kind)
        BY <2>6, <3>5 DEF StreamDecodes, Decodes
      <4>2. held' \in Seq(Packets) /\ arrived' \in Seq(Packets)
        BY <1>3, <3>2, <4>1
      <4> QED
        BY <1>3, <3>4, <4>1, <4>2
    <3>6. CASE Head(transit).fate # "whole"
      <4>1. inbox' = inbox /\ arrived' = arrived /\ Breaks(Head(transit).fate)
        BY <2>6, <3>6 DEF StreamDecodes, Decodes
      <4> QED
        BY <1>3, <2>b, <3>3, <3>4, <3>6, <4>1
    <3> QED
      BY <3>5, <3>6
  <2>7. CASE StreamGoesOn \/ StreamQueues
    <3>0. inbox \o held \in Seq(Packets) /\ <<>> \in Seq(Packets)
      BY <1>3
    <3>1. CASE Drops \/ Leaves \/ Queues
      BY <1>3, <3>0, <3>1 DEF Drops, Leaves, Queues, Phases
    <3>2. CASE SeesThePeerGo
      <4>1. peer \in Causes /\ Ends(peer) /\ UNCHANGED <<transit, peer, held, inbox, arrived>>
        BY <1>2, <1>3, <3>2 DEF SeesThePeerGo
      <4> QED
        BY <1>3, <2>e, <4>1
    <3> QED
      BY <2>7, <3>1, <3>2 DEF StreamGoesOn, StreamQueues
  <2>8. CASE Delivers \/ Refused \/ StreamFinishes
    BY <1>3, <2>e, <2>w, <2>8 DEF Delivers, Refused, StreamFinishes, inlet, Phases
  <2>9. CASE Main
    <3>1. CASE UNCHANGED inlet
      BY <1>3, <3>1 DEF inlet
    <3>2. CASE TakesPacket
      BY <1>3, <3>2 DEF TakesPacket
    <3>3. CASE /\ UNCHANGED <<transit, peer, inbox, arrived>>
               /\ \E why \in {"none", "unsent", "closed"} : (Ends(why) /\ held' = held) \/ Breaks(why)
      BY <1>3, <2>e, <2>b, <2>w, <3>3
    <3> QED
      BY <2>9, <3>1, <3>2, <3>3, MainOfStream
  <2> QED
    BY <2>1, <2>2, <2>3, <2>4, <2>5, <2>6, <2>7, <2>8, <2>9 DEF Next, Goroutines
<1> QED
  BY <1>1, <1>4 DEF StreamTyped

(* What a step does to the recording.                                             *)
LEMMA SinkMoves ==
  ASSUME Next, sink \in Sinks, sink.kept <= sink.observed
  PROVE  sink' \in Sinks /\ sink'.kept <= sink'.observed
<1>1. \/ UNCHANGED sink
      \/ sink' = Fresh
      \/ sink' = [sink EXCEPT !.observed = @ + 1]
      \/ sink' = [sink EXCEPT !.kept = @ + 1] /\ sink.kept < sink.observed
      \/ sink' = [sink EXCEPT !.open = FALSE]
  <2>1. CASE Accept \/ ClientSends \/ ClientGoes \/ Interrupt
    BY <2>1 DEF Accept, ClientSends, ClientGoes, Interrupt
  <2>2. CASE Goroutines \/ StreamQueues
    BY <2>2 DEF Goroutines, StreamDecodes, StreamGoesOn, StreamQueues, Delivers, Refused,
       StreamFinishes, Recorded
  <2>w. CASE Writes \/ WriteFails
    BY <2>w DEF Writes, WriteFails, Recorded
  <2>3. CASE KeepsAlive
    BY <2>3, <2>w DEF KeepsAlive
  <2>4. CASE Greeted \/ Asked \/ Hears \/ Drains \/ Records \/ GivesUp \/ HearsNothing
             \/ ReadFails \/ StartsDraining \/ GoesIdle \/ StopsRecording
    BY <2>4 DEF Greeted, Asked, Hears, Drains, Records, GivesUp, HearsNothing,
       ReadFails, StartsDraining, GoesIdle, StopsRecording
  <2>5. CASE Answers \/ AnswerFails \/ Says \/ SayFails \/ Replies
    BY <2>5, <2>w DEF Answers, AnswerFails, Says, SayFails, Replies
  <2>6. CASE Refuses \/ ClosesStream \/ ClosesSink \/ Returns \/ Exits
    BY <2>6 DEF Refuses, Recorded, ClosesStream, ClosesSink, Returns, Exits
  <2> QED
    BY <2>1, <2>2, <2>3, <2>4, <2>5, <2>6 DEF Next, Main
<1>2. sink.kept \in Nat /\ sink.observed \in Nat
  BY DEF Sinks
<1>3. CASE UNCHANGED sink
  BY <1>3
<1>7. CASE sink' = Fresh
  <2>1. Fresh \in Sinks /\ Fresh.kept <= Fresh.observed
    BY DEF Sinks, Fresh
  <2> QED
    BY <1>7, <2>1
<1>4. CASE sink' = [sink EXCEPT !.observed = @ + 1]
  BY <1>2, <1>4 DEF Sinks
<1>5. CASE sink' = [sink EXCEPT !.kept = @ + 1] /\ sink.kept < sink.observed
  BY <1>2, <1>5 DEF Sinks
<1>6. CASE sink' = [sink EXCEPT !.open = FALSE]
  BY <1>2, <1>6 DEF Sinks
<1> QED
  BY <1>1, <1>3, <1>4, <1>5, <1>6, <1>7

(* A step of the script is at most one write or one mismatch.                      *)
LEMMA SummaryMoves ==
  ASSUME Next, summary \in Summaries, StreamTyped, step \in 0..Len(Script),
         Len(Script) \in Nat, summary.written + summary.mismatches <= step
  PROVE  /\ summary' \in Summaries /\ step' \in 0..Len(Script)
         /\ summary'.written + summary'.mismatches <= step'
<1>0. summary.written \in Nat /\ summary.mismatches \in Nat /\ step \in Nat
  BY DEF Summaries
<1>1. CASE UNCHANGED <<summary, step>>
  BY <1>1
<1>2. CASE Accept
  <2>1. summary' = NoSummary /\ step' = 0
    BY <1>2 DEF Accept
  <2>2. NoSummary \in Summaries /\ NoSummary.written + NoSummary.mismatches = 0
    BY NothingYet DEF NoSummary, Summaries
  <2> QED
    BY <2>1, <2>2
<1>3. CASE Says
  <2>1. step' = step + 1 /\ summary' = [summary EXCEPT !.written = @ + 1] /\ step < Len(Script)
    BY <1>3 DEF Says, Saying
  <2>2. /\ summary'.written = summary.written + 1 /\ summary'.mismatches = summary.mismatches
        /\ summary' \in Summaries
    BY <2>1, <1>0 DEF Summaries
  <2> QED
    BY <1>0, <2>1, <2>2
<1>4. CASE HearsNothing
  <2>1. step' = step + 1 /\ summary' = [summary EXCEPT !.mismatches = @ + 1] /\ step < Len(Script)
    BY <1>4 DEF HearsNothing, Hearing
  <2>2. /\ summary'.written = summary.written /\ summary'.mismatches = summary.mismatches + 1
        /\ summary' \in Summaries
    BY <2>1, <1>0 DEF Summaries
  <2> QED
    BY <1>0, <2>1, <2>2
<1>5. CASE Hears \/ Drains
  <2>1. /\ step' = step \/ (step' = step + 1 /\ step < Len(Script))
        /\ summary' = [summary EXCEPT !.read = Append(@, Head(inbox))]
    BY <1>5 DEF Hears, Drains, Hearing
  <2>2. Head(inbox) \in Packets
    BY <1>5 DEF Hears, Drains, TakesPacket, StreamTyped
  <2>3. Append(summary.read, Head(inbox)) \in Seq(Packets)
    BY <2>2 DEF Summaries
  <2>4. /\ summary'.written = summary.written /\ summary'.mismatches = summary.mismatches
        /\ summary' \in Summaries
    BY <2>1, <2>3, <1>0 DEF Summaries
  <2> QED
    BY <1>0, <2>1, <2>4
<1>6. CASE ReadFails
  <2>1. /\ step' = step
        /\ summary' = summary \/ summary' = [summary EXCEPT !.failures = Append(@, cause)]
    BY <1>6 DEF ReadFails
  <2>2. cause \in Causes
    BY DEF StreamTyped
  <2>3. Append(summary.failures, cause) \in Seq(Causes)
    BY <2>2 DEF Summaries
  <2>4. /\ summary'.written = summary.written /\ summary'.mismatches = summary.mismatches
        /\ summary' \in Summaries
    BY <2>1, <2>3, <1>0 DEF Summaries
  <2> QED
    BY <1>0, <2>1, <2>4
<1> QED
  <2>1. CASE ClientSends \/ ClientGoes \/ Interrupt \/ KeepsAlive
    BY <2>1, <1>1 DEF ClientSends, ClientGoes, Interrupt, KeepsAlive, harness
  <2>2. CASE Goroutines \/ StreamQueues
    BY <2>2, <1>1 DEF Goroutines, StreamDecodes, StreamGoesOn, StreamQueues, Delivers, Refused,
       StreamFinishes, harness
  <2>3. CASE Greeted \/ Asked \/ Answers \/ AnswerFails \/ Refuses \/ GivesUp \/ SayFails \/ StartsDraining
             \/ GoesIdle \/ Records \/ Replies \/ StopsRecording \/ ClosesSink \/ ClosesStream
             \/ Returns \/ Exits
    BY <2>3, <1>1 DEF Greeted, Asked, Answers, AnswerFails, Refuses, GivesUp, SayFails, StartsDraining,
       GoesIdle, Records, Replies, StopsRecording, ClosesSink, ClosesStream, Returns, Exits
  <2> QED
    BY <1>2, <1>3, <1>4, <1>5, <1>6, <2>1, <2>2, <2>3 DEF Next, Main

LEMMA ReportTypedStep ==
  ASSUME setting \in Settings, StreamTyped, ReportTyped, Next
  PROVE  ReportTyped'
<1>1. setting' = setting
  BY DEF Next
<1>2. /\ Script' = Script /\ MaxKeepAlives' = MaxKeepAlives /\ MaxSessions' = MaxSessions
      /\ Len(Script) \in Nat /\ MaxKeepAlives \in Nat /\ MaxSessions \in Nat
  BY <1>1, SettingStays, SettingTyped
<1>3. sink' \in Sinks /\ sink'.kept <= sink'.observed
  BY SinkMoves DEF ReportTyped, Sinks
<1>4. /\ summary' \in Summaries /\ step' \in 0..Len(Script)
      /\ summary'.written + summary'.mismatches <= step'
  BY <1>2, SummaryMoves DEF ReportTyped, Summaries
<1>5. at' \in Stages /\ served' \in BOOLEAN /\ interrupted' \in BOOLEAN
      /\ printed' \in Causes \cup {"not yet"}
  <2>0. /\ at \in Stages /\ served \in BOOLEAN /\ interrupted \in BOOLEAN
        /\ printed \in Causes \cup {"not yet"} /\ cause \in Causes
    BY DEF ReportTyped, StreamTyped
  <2>l. Leave /\ cause' = cause => at' \in Stages /\ printed' \in Causes \cup {"not yet"}
    BY <2>0 DEF Leave, Stages
  <2>1. CASE Accept \/ ClientSends \/ ClientGoes \/ Interrupt \/ KeepsAlive
    BY <2>0, <2>1 DEF Accept, ClientSends, ClientGoes, Interrupt, KeepsAlive, harness, Stages
  <2>2. CASE Goroutines \/ StreamQueues
    BY <2>0, <2>2 DEF Goroutines, StreamDecodes, StreamGoesOn, StreamQueues, Delivers, Refused,
       StreamFinishes, harness
  <2>3. CASE Greeted
    BY <2>0, <2>l, <2>3 DEF Greeted, TakesPacket, Stages
  <2>4. CASE Asked \/ Answers \/ AnswerFails \/ Refuses \/ GivesUp
    BY <2>0, <2>4 DEF Asked, Answers, AnswerFails, Refuses, GivesUp, Stages
  <2>5. CASE Says \/ Hears \/ HearsNothing \/ StartsDraining \/ Drains
    BY <2>0, <2>5 DEF Says, Hears, HearsNothing, StartsDraining, Drains, Stages
  <2>6. CASE SayFails \/ ReadFails \/ GoesIdle
    BY <2>0, <2>6 DEF SayFails, ReadFails, GoesIdle, Leave, Stages
  <2>7. CASE Records \/ Replies \/ StopsRecording
    BY <2>0, <2>7 DEF Records, Replies, StopsRecording, Stages
  <2>8. CASE ClosesSink \/ ClosesStream \/ Returns \/ Exits
    BY <2>0, <2>8 DEF ClosesSink, ClosesStream, Returns, Exits, AfterClosing, Stages
  <2> QED
    BY <2>1, <2>2, <2>3, <2>4, <2>5, <2>6, <2>7, <2>8 DEF Next, Main
<1>6. keepAlives' \in -1..MaxKeepAlives /\ sessions' \in 0..MaxSessions
  <2>0. keepAlives \in -1..MaxKeepAlives /\ sessions \in 0..MaxSessions
    BY DEF ReportTyped
  <2>a. CASE Accept
    <3>1. keepAlives' = -1 /\ sessions' = sessions + 1 /\ sessions < MaxSessions
      BY <2>a DEF Accept
    <3> QED
      BY <1>2, <2>0, <3>1
  <2>b. CASE KeepsAlive
    <3>1. sessions' = sessions
      BY <2>b DEF KeepsAlive
    <3>2. keepAlives' = -1 \/ (keepAlives' = keepAlives + 1 /\ keepAlives \in 0..(MaxKeepAlives - 1))
      BY <2>b DEF KeepsAlive
    <3> QED
      BY <1>2, <2>0, <3>1, <3>2
  <2>1. CASE ClientSends \/ ClientGoes \/ Interrupt
    BY <2>0, <2>1 DEF ClientSends, ClientGoes, Interrupt, harness
  <2>2. CASE Goroutines \/ StreamQueues
    BY <2>0, <2>2 DEF Goroutines, StreamDecodes, StreamGoesOn, StreamQueues, Delivers, Refused,
       StreamFinishes, harness
  <2>3. CASE Main
    <3>1. sessions' = sessions
      BY <2>3 DEF Main, Greeted, Asked, Answers, AnswerFails, Refuses, GivesUp, Says, SayFails, Hears,
        HearsNothing, ReadFails, StartsDraining, Drains, GoesIdle, Records, Replies,
        StopsRecording, ClosesSink, ClosesStream, Returns, Exits
    <3>2. keepAlives' \in {keepAlives, 0, -1}
      BY <2>3 DEF Main, Greeted, Asked, Answers, AnswerFails, Refuses, GivesUp, Says, SayFails, Hears,
        HearsNothing, ReadFails, StartsDraining, Drains, GoesIdle, Records, Replies,
        StopsRecording, ClosesSink, ClosesStream, Returns, Exits, Leave
    <3> QED
      BY <1>2, <2>0, <3>1, <3>2
  <2> QED
    BY <2>a, <2>b, <2>1, <2>2, <2>3 DEF Next
<1> QED
  BY <1>2, <1>3, <1>4, <1>5, <1>6 DEF ReportTyped, Sinks, Summaries

LEMMA AppendLast ==
  ASSUME NEW S, NEW s \in Seq(S), NEW t \in Seq(S), NEW x \in S
  PROVE  s \o Append(t, x) = Append(s \o t, x)
OBVIOUS

(* What a step of anybody but the reader does to the stream.                       *)
LEMMA WritesUnmoved ==
  ASSUME Writes \/ WriteFails
  PROVE  Unmoved
<1>1. CASE Writes
  BY <1>1 DEF Writes, inlet, Unmoved
<1>2. CASE WriteFails
  BY <1>2 DEF WriteFails, Breaks, Ends, Unmoved
<1> QED
  BY <1>1, <1>2

LEMMA CountingStep ==
  ASSUME setting \in Settings, StreamTyped, ReportTyped, Counting, Next
  PROVE  Counting'
<1> DEFINE Then(read) == Follows(read, inbox', held', arrived', phase' = "running")
<1>1. /\ inbox \in Seq(Packets) /\ held \in Seq(Packets) /\ arrived \in Seq(Packets)
      /\ transit \in Seq(Frames) /\ summary \in Summaries /\ summary.read \in Seq(Packets)
      /\ "login" \in Packets
  <2>1. inbox \in Seq(Packets) /\ arrived \in Seq(Packets) /\ summary \in Summaries
    BY DEF StreamTyped, ReportTyped
  <2>2. summary.read \in Seq(Packets)
    BY <2>1 DEF Summaries
  <2>3. "login" \in Packets /\ held \in Seq(Packets) /\ transit \in Seq(Frames)
    BY DEF Packets, StreamTyped
  <2> QED
    BY <2>1, <2>2, <2>3
<1> DEFINE Read == <<"login">> \o summary.read
<1>R. Read \in Seq(Packets) /\ <<>> \in Seq(Packets)
  BY <1>1
<1> HIDE DEF Read
<1>2. /\ served => at \in Playback
      /\ at = "greeting" => summary.read = <<>> /\ Follows(<<>>, inbox, held, arrived, phase = "running")
      /\ served => Follows(Read, inbox, held, arrived, phase = "running")
  BY DEF Counting, Counted, Read
<1>3. /\ served' => at' \in Playback
      /\ at' = "greeting" => summary'.read = <<>> /\ Then(<<>>)
      /\ served' => Then(<<"login">> \o summary'.read)
  <2>r. ASSUME served' = served, summary'.read = summary.read,
               at' \in Playback \/ (at' # "greeting" /\ ~served) \/ at' = at,
               \A read \in Seq(Packets) :
                 Follows(read, inbox, held, arrived, phase = "running") => Then(read)
        PROVE  /\ served' => at' \in Playback
               /\ at' = "greeting" => summary'.read = <<>> /\ Then(<<>>)
               /\ served' => Then(<<"login">> \o summary'.read)
    <3>1. <<"login">> \o summary'.read = Read
      BY <2>r DEF Read
    <3>2. served' => Then(Read)
      BY <1>R, <1>2, <2>r
    <3>3. at' = "greeting" => at = "greeting"
      BY <2>r DEF Playback
    <3>4. at' = "greeting" => Then(<<>>)
      BY <1>R, <1>2, <2>r, <3>3
    <3>5. served' => at' \in Playback
      BY <1>2, <2>r
    <3>6. at' = "greeting" => summary'.read = <<>>
      BY <1>2, <2>r, <3>3
    <3> HIDE DEF Then
    <3> QED
      BY <3>1, <3>2, <3>4, <3>5, <3>6
  <2>u. ASSUME Unmoved, NEW read \in Seq(Packets),
               Follows(read, inbox, held, arrived, phase = "running")
        PROVE  Then(read)
    BY <1>1, <2>u, FollowsStream
  <2>m. ASSUME UNCHANGED inlet
        PROVE  Unmoved
    BY <2>m DEF inlet, Unmoved
  <2> HIDE DEF Then
  <2>1. CASE Accept
    <3>1. /\ summary'.read = <<>> /\ served' = FALSE /\ inbox' = <<>> /\ held' = <<>>
          /\ arrived' = <<>>
      BY <2>1 DEF Accept, NoSummary
    <3>2. Then(<<>>)
      BY <3>1, NothingFollows DEF Then
    <3> QED
      BY <3>1, <3>2
  <2>2. CASE ClientSends \/ ClientGoes \/ Interrupt \/ KeepsAlive
    <3>1. UNCHANGED <<at, served, summary>>
      BY <2>2 DEF ClientSends, ClientGoes, Interrupt, KeepsAlive, harness
    <3>2. CASE ClientSends \/ ClientGoes
      <4>1. Unmoved
        BY <3>2 DEF ClientSends, ClientGoes, PeerSends, PeerGoes, Unmoved
      <4> QED
        BY <2>r, <2>u, <3>1, <4>1
    <3>3. CASE Interrupt
      <4>1. Unmoved
        BY <3>3 DEF Interrupt, Ends, Unmoved
      <4> QED
        BY <2>r, <2>u, <3>1, <4>1
    <3>4. CASE KeepsAlive
      <4>1. Unmoved
        BY <3>4, WritesUnmoved DEF KeepsAlive
      <4> QED
        BY <2>r, <2>u, <3>1, <4>1
    <3> QED
      BY <2>2, <3>2, <3>3, <3>4
  <2>3. CASE StreamGoesOn \/ StreamQueues
    <3>1. UNCHANGED <<at, served, summary>>
      BY <2>3 DEF StreamGoesOn, StreamQueues, harness
    <3>2. Drops \/ Leaves \/ SeesThePeerGo \/ Queues
      BY <2>3 DEF StreamGoesOn, StreamQueues
    <3>3. ASSUME NEW read \in Seq(Packets), Follows(read, inbox, held, arrived, phase = "running")
          PROVE  Then(read)
      BY <1>1, <3>2, <3>3, FollowsStream DEF Then
    <3> QED
      BY <2>r, <3>1, <3>3
  <2>4. CASE Delivers \/ Refused \/ StreamFinishes
    <3>1. UNCHANGED <<at, served, summary>>
      BY <2>4 DEF Delivers, Refused, StreamFinishes, harness
    <3>2. Unmoved
      BY <2>4 DEF Delivers, Refused, StreamFinishes, Ends, inlet, Unmoved
    <3> QED
      BY <2>r, <2>u, <3>1, <3>2
  <2>5. CASE StreamDecodes
    <3>1. UNCHANGED <<at, served, summary>> /\ Decodes
      BY <2>5 DEF StreamDecodes, harness
    <3>2. Head(transit).kind \in Packets
      <4>1. transit # <<>>
        BY <3>1 DEF Decodes
      <4>2. Head(transit) \in Frames
        BY <1>1, <4>1
      <4> QED
        BY <4>2 DEF Frames
    <3>3. ASSUME NEW read \in Seq(Packets), Follows(read, inbox, held, arrived, phase = "running")
          PROVE  Then(read)
      BY <1>1, <3>1, <3>2, <3>3, FollowsStream DEF Then
    <3> QED
      BY <2>r, <3>1, <3>3
  <2>t. ASSUME TakesPacket, NEW read \in Seq(Packets),
               Follows(read, inbox, held, arrived, phase = "running")
        PROVE  Then(Append(read, Head(inbox)))
    <3>1. Follows(Append(read, Head(inbox)), Tail(inbox), held, arrived, phase = "running")
      BY <1>1, <2>t, FollowsRead DEF TakesPacket
    <3> QED
      BY <2>t, <3>1 DEF TakesPacket, Then
  <2>6. CASE Greeted
    <3>1. /\ at = "greeting" /\ TakesPacket /\ summary' = summary
          /\ served' = (Head(inbox) = "login") /\ at' # "greeting"
          /\ served' => at' = "playing"
      BY <2>6 DEF Greeted, Leave
    <3>2. summary'.read = <<>> /\ Then(Append(<<>>, Head(inbox)))
      BY <1>R, <1>2, <2>t, <3>1
    <3>3. Append(<<>>, "login") = <<"login">> \o <<>>
      OBVIOUS
    <3> QED
      BY <3>1, <3>2, <3>3 DEF Playback
  <2>7. CASE Asked \/ Records
    <3>1. /\ at \in {"asked", "echoing", "recording"} /\ served' = served
          /\ at' \in {"answering", "returning the ping", "recording", "replying"}
      BY <2>7 DEF Asked, Records
    <3> QED
      BY <1>2, <3>1 DEF Playback
  <2>8. CASE Hears \/ Drains
    <3>1. /\ TakesPacket /\ UNCHANGED <<at, served>>
          /\ at \in {"playing", "draining"}
          /\ summary' = [summary EXCEPT !.read = Append(@, Head(inbox))]
      BY <2>8 DEF Hears, Hearing, Drains
    <3>2. summary'.read = Append(summary.read, Head(inbox))
      BY <1>1, <3>1 DEF Summaries
    <3>3. Head(inbox) \in Packets /\ <<"login">> \in Seq(Packets)
      BY <1>1, <3>1 DEF TakesPacket
    <3>4. <<"login">> \o summary'.read = Append(Read, Head(inbox))
      <4> DEFINE l == <<"login">>
      <4>1. l \in Seq(Packets)
        BY <3>3
      <4> HIDE DEF l
      <4>2. l \o Append(summary.read, Head(inbox)) = Append(l \o summary.read, Head(inbox))
        BY <1>1, <3>3, <4>1, AppendLast
      <4> QED
        BY <3>2, <4>2 DEF l, Read
    <3>5. served => Then(Append(Read, Head(inbox)))
      BY <1>R, <1>2, <2>t, <3>1
    <3> QED
      BY <1>2, <3>1, <3>4, <3>5
  <2>9. CASE Answers \/ AnswerFails \/ Replies
    <3>1. UNCHANGED <<served, summary>> /\ Unmoved
      BY <2>9, WritesUnmoved DEF Answers, AnswerFails, Replies
    <3>2. at' \in Playback \/ (at' # "greeting" /\ ~served) \/ at' = at
      BY <1>2, <2>9 DEF Answers, AnswerFails, Replies, Playback
    <3> QED
      BY <2>r, <2>u, <3>1, <3>2
  <2>10. CASE Refuses \/ GivesUp \/ StopsRecording
    <3>1. UNCHANGED <<served, summary>>
      BY <2>10 DEF Refuses, GivesUp, StopsRecording
    <3>2. Unmoved
      BY <2>10 DEF Refuses, GivesUp, StopsRecording, Breaks, inlet, Unmoved
    <3>3. at' \in Playback \/ (at' # "greeting" /\ ~served) \/ at' = at
      BY <1>2, <2>10 DEF Refuses, GivesUp, StopsRecording, Playback
    <3> QED
      BY <2>r, <2>u, <3>1, <3>2, <3>3
  <2>11. CASE Says \/ SayFails \/ HearsNothing \/ ReadFails \/ StartsDraining \/ GoesIdle
    <3>1. served' = served
      BY <2>11 DEF Says, SayFails, HearsNothing, ReadFails, StartsDraining, GoesIdle
    <3>2. at' \in Playback
      BY <2>11 DEF Says, Saying, SayFails, HearsNothing, Hearing, ReadFails, StartsDraining, GoesIdle,
         Leave, Playback
    <3>3. \/ summary' = summary
          \/ summary' = [summary EXCEPT !.written = @ + 1]
          \/ summary' = [summary EXCEPT !.mismatches = @ + 1]
          \/ summary' = [summary EXCEPT !.failures = Append(@, cause)]
      BY <2>11 DEF Says, SayFails, HearsNothing, ReadFails, StartsDraining, GoesIdle
    <3>4. summary'.read = summary.read
      BY <1>1, <3>3 DEF Summaries
    <3>5. CASE Says \/ SayFails
      <4>1. Unmoved
        BY <3>5, WritesUnmoved DEF Says, SayFails
      <4> QED
        BY <2>r, <2>u, <3>1, <3>2, <3>4, <4>1
    <3>6. CASE HearsNothing \/ ReadFails \/ StartsDraining \/ GoesIdle
      <4>1. Unmoved
        BY <2>m, <3>6 DEF HearsNothing, ReadFails, StartsDraining, GoesIdle
      <4> QED
        BY <2>r, <2>u, <3>1, <3>2, <3>4, <4>1
    <3> QED
      BY <2>11, <3>5, <3>6
  <2>12. CASE ClosesSink \/ ClosesStream \/ Returns \/ Exits
    <3>1. UNCHANGED <<served, summary>>
      BY <2>12 DEF ClosesSink, ClosesStream, Returns, Exits
    <3>2. Unmoved
      BY <2>12 DEF ClosesSink, ClosesStream, Returns, Exits, Ends, inlet, Unmoved
    <3>3. at' \in Playback \/ (at' # "greeting" /\ ~served) \/ at' = at
      BY <1>2, <2>12 DEF ClosesSink, ClosesStream, Returns, Exits, AfterClosing, Playback
    <3> QED
      BY <2>r, <2>u, <3>1, <3>2, <3>3
  <2> QED
    BY <2>1, <2>2, <2>3, <2>4, <2>5, <2>6, <2>7, <2>8, <2>9, <2>10, <2>11, <2>12
       DEF Next, Goroutines, Main
<1> QED
  BY <1>3 DEF Counting, Counted

LEMMA FindingStep ==
  ASSUME setting \in Settings, StreamTyped, ReportTyped, Finding, Next
  PROVE  Finding'
<1> DEFINE Hearable == {"none", "wrong", "leaves"}
<1>s. SUFFICES ASSUME Command = "serve", OnlyListens
               PROVE  /\ interrupted' = FALSE
                      /\ at' \in {"greeting", "playing", "draining"} =>
                           sink'.open /\ cause' \in Hearable
                      /\ printed' \in {"short", "wrong"} => summary'.failures # <<>>
                      /\ \A i \in DOMAIN summary'.failures : summary'.failures[i] \in {"short", "wrong"}
  <2>1. Command' = Command /\ (OnlyListens' <=> OnlyListens)
    BY SettingStays DEF Next
  <2> QED
    BY <2>1 DEF Finding, FindingsAreReported, FailuresAreFindings, Undecodable
<1>1. /\ interrupted = FALSE
      /\ at \in {"greeting", "playing", "draining"} => sink.open /\ cause \in Hearable
      /\ printed \in {"short", "wrong"} => summary.failures # <<>>
      /\ \A i \in DOMAIN summary.failures : summary.failures[i] \in {"short", "wrong"}
  BY <1>s DEF Finding, FindingsAreReported, FailuresAreFindings, Undecodable
<1>2. /\ Fates \subseteq {"whole", "wrong"} /\ Goings \subseteq {"leaves"} /\ Interrupts = FALSE
      /\ MaxKeepAlives = 0 /\ \A i \in 1..Len(Script) : ~Script[i].says
  <2>1. /\ "short" \notin Fates /\ Goings \subseteq {"leaves"} /\ ~Interrupts
        /\ MaxKeepAlives = 0 /\ \A i \in 1..Len(Script) : ~Script[i].says
    BY <1>s DEF OnlyListens
  <2>2. Fates \subseteq {"whole", "short", "wrong"} /\ Interrupts \in BOOLEAN
    BY SettingTyped
  <2> QED
    BY <2>1, <2>2
<1>3. step \in 0..Len(Script) /\ Len(Script) \in Nat
  BY SettingTyped DEF ReportTyped
<1>4. ~KeepsAlive
  BY <1>2 DEF KeepsAlive
<1>5. ~Interrupt
  BY <1>2 DEF Interrupt
<1>6. ~Saying
  <2>1. step < Len(Script) => step + 1 \in 1..Len(Script)
    BY <1>3
  <2> QED
    BY <1>2, <2>1 DEF Saying, Next1
<1>7. summary \in Summaries /\ sink \in Sinks /\ (phase = "running" => cause = "none")
  BY DEF ReportTyped, StreamTyped
<1>r. ASSUME interrupted' = interrupted, summary'.failures = summary.failures,
             printed' = printed,
             at' \in {"greeting", "playing", "draining"} => sink'.open /\ cause' \in Hearable
      PROVE  /\ interrupted' = FALSE
             /\ at' \in {"greeting", "playing", "draining"} => sink'.open /\ cause' \in Hearable
             /\ printed' \in {"short", "wrong"} => summary'.failures # <<>>
             /\ \A i \in DOMAIN summary'.failures : summary'.failures[i] \in {"short", "wrong"}
  BY <1>1, <1>r
<1>8. CASE Accept
  <2>1. /\ interrupted' = interrupted /\ summary' = NoSummary /\ printed' = "not yet"
        /\ sink' = Fresh /\ cause' = "none"
    BY <1>8 DEF Accept
  <2>2. summary'.failures = <<>> /\ sink'.open
    BY <2>1 DEF NoSummary, Fresh
  <2> QED
    BY <1>1, <2>1, <2>2, NothingYet
<1>9. CASE ClientSends \/ ClientGoes
  <2>1. UNCHANGED <<interrupted, summary, printed, at, sink, cause>>
    BY <1>9 DEF ClientSends, ClientGoes, PeerSends, PeerGoes, harness
  <2> QED
    BY <1>1, <2>1
<1>10. CASE StreamDecodes
  <2>1. UNCHANGED <<interrupted, summary, printed, at>> /\ sink'.open = sink.open
    BY <1>7, <1>10 DEF StreamDecodes, Recorded, harness, Sinks
  <2>2. transit \in Seq(Frames) /\ transit # <<>>
    BY <1>10 DEF StreamDecodes, Decodes, StreamTyped
  <2>3. Head(transit) \in Frames
    BY <2>2
  <2>4. Head(transit).fate \in Fates
    BY <2>3 DEF Frames
  <2>5. cause' = cause \/ cause' = "wrong"
    BY <1>2, <1>10, <2>4 DEF StreamDecodes, Decodes, Breaks, FirstCause
  <2> QED
    BY <1>1, <2>1, <2>5
<1>11. CASE StreamGoesOn \/ StreamQueues
  <2>1. UNCHANGED <<interrupted, summary, printed, at, sink>>
    BY <1>11 DEF StreamGoesOn, StreamQueues, harness
  <2>2. CASE SeesThePeerGo
    <3>1. peer = "leaves"
      BY <1>2, <2>2 DEF SeesThePeerGo, StreamTyped
    <3>2. cause' = cause \/ cause' = "leaves"
      BY <2>2, <3>1 DEF SeesThePeerGo, Ends, FirstCause
    <3> QED
      BY <1>1, <2>1, <3>2
  <2>3. CASE Drops \/ Leaves \/ Queues
    <3>1. cause' = cause
      BY <2>3 DEF Drops, Leaves, Queues
    <3> QED
      BY <1>1, <2>1, <3>1
  <2> QED
    BY <1>11, <2>2, <2>3 DEF StreamGoesOn, StreamQueues
<1>12. CASE Delivers \/ Refused \/ StreamFinishes
  <2>1. UNCHANGED <<interrupted, summary, printed, at>>
    BY <1>12 DEF Delivers, Refused, StreamFinishes, harness
  <2>2. sink'.open = sink.open
    BY <1>7, <1>12 DEF Delivers, Refused, StreamFinishes, Sinks
  <2>3. cause' = cause \/ ~sink.open
    BY <1>12 DEF Delivers, Refused, StreamFinishes, inlet
  <2> QED
    BY <1>1, <2>1, <2>2, <2>3
<1>13. CASE Greeted
  <2>1. /\ UNCHANGED <<interrupted, summary, sink, cause>>
        /\ printed' = printed
    BY <1>13 DEF Greeted, TakesPacket, Leave
  <2>2. at = "greeting"
    BY <1>13 DEF Greeted
  <2> QED
    BY <1>1, <2>1, <2>2
<1>14. CASE Asked \/ Answers \/ AnswerFails \/ Refuses \/ GivesUp \/ Records \/ Replies \/ StopsRecording
  <2>1. UNCHANGED <<interrupted, summary, printed>>
    BY <1>14 DEF Asked, Answers, AnswerFails, Refuses, GivesUp, Records, Replies, StopsRecording
  <2>2. at' \notin {"greeting", "playing", "draining"}
    BY <1>14 DEF Asked, Answers, AnswerFails, Refuses, GivesUp, Records, Replies, StopsRecording
  <2> QED
    BY <1>1, <2>1, <2>2
<1>15. CASE Says \/ SayFails
  BY <1>6, <1>15 DEF Says, SayFails
<1>16. CASE Hears \/ HearsNothing \/ StartsDraining \/ Drains
  <2>1. UNCHANGED <<interrupted, printed, sink, cause>>
    BY <1>16 DEF Hears, HearsNothing, StartsDraining, Drains, TakesPacket, inlet
  <2>2. at \in {"playing", "draining"}
    BY <1>16 DEF Hears, HearsNothing, Hearing, StartsDraining, Drains
  <2>3. \/ summary' = summary
        \/ summary' = [summary EXCEPT !.read = Append(@, Head(inbox))]
        \/ summary' = [summary EXCEPT !.mismatches = @ + 1]
    BY <1>16 DEF Hears, HearsNothing, StartsDraining, Drains
  <2>4. summary'.failures = summary.failures
    BY <1>7, <2>3 DEF Summaries
  <2> QED
    BY <1>1, <2>1, <2>2, <2>4
<1>17. CASE ReadFails
  <2>1. /\ interrupted' = interrupted /\ cause' = cause /\ at' = "ended"
        /\ at \in {"playing", "draining"}
        /\ printed' = printed \/ printed' = cause
        /\ summary' = IF SessionEnd THEN summary
                      ELSE [summary EXCEPT !.failures = Append(@, cause)]
    BY <1>17 DEF ReadFails, Hearing, Leave, inlet
  <2>2. CASE SessionEnd
    <3>1. cause \in {"none", "leaves"}
      BY <1>1, <2>1, <2>2 DEF SessionEnd, IsEOF
    <3> QED
      BY <1>1, <2>1, <2>2, <3>1
  <2>3. CASE ~SessionEnd
    <3>1. cause = "wrong"
      BY <1>1, <2>1, <2>3 DEF SessionEnd, IsEOF
    <3>2. summary'.failures = Append(summary.failures, "wrong") /\ summary.failures \in Seq(Causes)
      BY <1>7, <2>1, <2>3, <3>1 DEF Summaries
    <3> DEFINE f == summary.failures
               g == summary'.failures
    <3> HIDE DEF f, g
    <3>3. f \in Seq(Causes) /\ g = Append(f, "wrong")
      BY <3>2 DEF f, g
    <3>4. /\ Len(f) \in Nat /\ DOMAIN f = 1..Len(f) /\ DOMAIN g = 1..(Len(f) + 1)
          /\ g[Len(f) + 1] = "wrong" /\ \A i \in 1..Len(f) : g[i] = f[i]
          /\ g # <<>>
      BY <3>3
    <3>5. \A i \in DOMAIN f : f[i] \in {"short", "wrong"}
      BY <1>1 DEF f
    <3>6. \A i \in DOMAIN g : g[i] \in {"short", "wrong"}
      BY <3>4, <3>5
    <3> QED
      BY <1>1, <2>1, <3>4, <3>6 DEF g
  <2> QED
    BY <2>2, <2>3
<1>18. CASE GoesIdle
  <2>1. /\ UNCHANGED <<interrupted, summary>> /\ at' = "ended" /\ phase = "running"
        /\ printed' = printed \/ printed' = cause
    BY <1>18 DEF GoesIdle, Leave, ReadExpires
  <2>2. cause = "none"
    BY <1>7, <2>1
  <2> QED
    BY <1>1, <2>1, <2>2
<1>19. CASE ClosesSink \/ ClosesStream \/ Returns \/ Exits
  <2>1. UNCHANGED <<interrupted, summary, printed>>
    BY <1>19 DEF ClosesSink, ClosesStream, Returns, Exits
  <2>2. at' \notin {"greeting", "playing", "draining"}
    BY <1>19 DEF ClosesSink, ClosesStream, Returns, Exits, Closes, AfterClosing
  <2> QED
    BY <1>1, <2>1, <2>2
<1> QED
  BY <1>4, <1>5, <1>8, <1>9, <1>10, <1>11, <1>12, <1>13, <1>14, <1>15, <1>16, <1>17, <1>18, <1>19
     DEF Next, Goroutines, Main

LEMMA KeepingStep ==
  ASSUME setting \in Settings, StreamTyped, ReportTyped, Keeping, Next
  PROVE  Keeping'
<1> DEFINE Stretch == {"recording", "replying", "ended", "closing"}
<1>s. SUFFICES ASSUME Command = "capture"
               PROVE  /\ at' \in Stretch \cup {"listening", "closed", "exited"}
                      /\ at' \in Stretch => sink'.open
                      /\ at' \in {"closing", "closed"} => phase' = "done"
                      /\ (sink'.open \/ phase' = "done") /\ cause' # "refused"
                      /\ keepAlives' = -1
  <2>1. Command' = Command
    BY SettingStays DEF Next
  <2> QED
    BY <2>1 DEF Keeping, FileOutlivesStream
<1>1. /\ at \in Stretch \cup {"listening", "closed", "exited"}
      /\ at \in Stretch => sink.open
      /\ at \in {"closing", "closed"} => phase = "done"
      /\ (sink.open \/ phase = "done") /\ cause # "refused"
      /\ keepAlives = -1
  BY <1>s DEF Keeping, FileOutlivesStream
<1>2. sink \in Sinks /\ phase \in Phases /\ peer # "refused"
  BY SettingTyped DEF ReportTyped, StreamTyped
<1>c. \A why : (Ends(why) \/ Breaks(why)) /\ why # "refused" => cause' # "refused"
  BY <1>1 DEF Ends, Breaks, FirstCause
<1>e. \A why : Ends(why) => (phase = "done" => phase' = "done")
  BY DEF Ends
<1>w. ASSUME Writes \/ WriteFails
      PROVE  sink'.open = sink.open /\ cause' # "refused" /\ (phase = "done" => phase' = "done")
  <2>1. CASE Writes
    BY <1>1, <1>2, <2>1 DEF Writes, Recorded, inlet, Sinks
  <2>2. CASE WriteFails
    BY <1>1, <1>c, <1>e, <2>2 DEF WriteFails
  <2> QED
    BY <1>w, <2>1, <2>2
<1>3. CASE Accept
  <2>1. /\ at' = "recording" /\ sink' = Fresh /\ phase' = "running" /\ cause' = "none"
        /\ keepAlives' = -1
    BY <1>s, <1>3 DEF Accept
  <2>2. sink'.open
    BY <2>1 DEF Fresh
  <2> QED
    BY <2>1, <2>2
<1>4. CASE ClientSends \/ ClientGoes
  <2>1. UNCHANGED <<at, sink, keepAlives, phase, cause>>
    BY <1>4 DEF ClientSends, ClientGoes, PeerSends, PeerGoes, harness
  <2> QED
    BY <1>1, <2>1
<1>5. CASE Interrupt
  <2>1. UNCHANGED <<at, sink, keepAlives>>
    BY <1>5 DEF Interrupt
  <2>2. cause' # "refused" /\ (phase = "done" => phase' = "done")
    BY <1>1, <1>c, <1>e, <1>5 DEF Interrupt
  <2> QED
    BY <1>1, <2>1, <2>2
<1>6. CASE KeepsAlive
  <2>1. keepAlives \in 0..(MaxKeepAlives - 1) /\ MaxKeepAlives \in Nat
    BY <1>6, SettingTyped DEF KeepsAlive
  <2> QED
    BY <1>1, <2>1
<1>7. CASE StreamDecodes
  <2>1. UNCHANGED <<at, keepAlives>> /\ phase \in {"running", "stopping"} /\ Decodes
    BY <1>7 DEF StreamDecodes, Decodes, Coordinating, harness
  <2>2. sink'.open = sink.open
    BY <1>2, <1>7 DEF StreamDecodes, Recorded, Sinks
  <2>3. cause' # "refused"
    <3>1. transit \in Seq(Frames) /\ transit # <<>>
      BY <2>1 DEF StreamTyped, Decodes
    <3>2. Head(transit) \in Frames
      BY <3>1
    <3>3. Head(transit).fate # "refused"
      BY <3>2, SettingTyped DEF Frames
    <3> QED
      BY <1>1, <1>c, <2>1, <3>3 DEF Decodes
  <2> QED
    BY <1>1, <2>1, <2>2, <2>3
<1>8. CASE Delivers
  <2>1. UNCHANGED <<at, keepAlives, phase, cause>>
    BY <1>8 DEF Delivers, harness, inlet
  <2>2. sink'.open = sink.open
    BY <1>2, <1>8 DEF Delivers, Sinks
  <2> QED
    BY <1>1, <2>1, <2>2
<1>9. CASE StreamFinishes
  <2>1. UNCHANGED <<at, keepAlives, sink, cause>> /\ phase' = "done"
    BY <1>9 DEF StreamFinishes, harness
  <2> QED
    BY <1>1, <2>1
<1>n. CASE Refused
  BY <1>1, <1>n DEF Refused
<1>g. CASE StreamGoesOn \/ StreamQueues
  <2>1. UNCHANGED <<at, keepAlives, sink>>
    BY <1>g DEF StreamGoesOn, StreamQueues, harness
  <2>2. CASE Drops \/ Leaves \/ Queues
    <3>1. cause' = cause /\ (phase = "done" => phase' = "done")
      BY <2>2 DEF Drops, Leaves, Queues
    <3> QED
      BY <1>1, <2>1, <3>1
  <2>3. CASE SeesThePeerGo
    <3>1. cause' # "refused" /\ (phase = "done" => phase' = "done")
      BY <1>2, <1>c, <1>e, <2>3 DEF SeesThePeerGo
    <3> QED
      BY <1>1, <2>1, <3>1
  <2> QED
    BY <1>g, <2>2, <2>3 DEF StreamGoesOn, StreamQueues
<1>10. CASE Greeted \/ Asked \/ Answers \/ AnswerFails \/ Refuses \/ GivesUp \/ Says \/ SayFails
            \/ Hears \/ HearsNothing \/ ReadFails \/ StartsDraining \/ Drains \/ GoesIdle
  BY <1>1, <1>10 DEF Greeted, Asked, Answers, AnswerFails, Refuses, GivesUp, Says, SayFails, Saying,
     Hears, HearsNothing, ReadFails, Hearing, StartsDraining, Drains, GoesIdle
<1>11. CASE Records \/ StopsRecording
  <2>1. UNCHANGED <<sink, keepAlives, phase, cause>> /\ at = "recording"
        /\ at' \in {"recording", "replying", "ended"}
    BY <1>11 DEF Records, StopsRecording, TakesPacket, inlet
  <2> QED
    BY <1>1, <2>1
<1>12. CASE Replies
  <2>1. at = "replying" /\ at' \in {"recording", "ended"} /\ keepAlives' = keepAlives
        /\ (Writes \/ WriteFails)
    BY <1>12 DEF Replies
  <2> QED
    BY <1>1, <1>w, <2>1
<1>13. CASE ClosesSink
  <2>1. /\ at = "closing" /\ at' = "closed" /\ UNCHANGED <<phase, cause, keepAlives>>
    BY <1>s, <1>13 DEF ClosesSink, Closes, AfterClosing, inlet
  <2> QED
    BY <1>1, <2>1
<1>14. CASE ClosesStream
  <2>1. at = "ended" /\ UNCHANGED <<sink, keepAlives>>
    BY <1>s, <1>14 DEF ClosesStream, Closes
  <2>2. /\ cause' # "refused"
        /\ \/ at' = at
           \/ phase = "done" /\ at' = "closing" /\ phase' = phase
    BY <1>1, <1>c, <1>14, <2>1 DEF ClosesStream, AfterClosing
  <2> QED
    BY <1>1, <2>1, <2>2
<1>15. CASE Returns \/ Exits
  <2>1. at' = "exited" /\ UNCHANGED <<keepAlives, sink, phase, cause>>
    BY <1>s, <1>15 DEF Returns, Exits, inlet
  <2> QED
    BY <1>1, <2>1
<1> QED
  BY <1>3, <1>4, <1>5, <1>6, <1>7, <1>8, <1>9, <1>n, <1>g, <1>10, <1>11, <1>12, <1>13, <1>14, <1>15
     DEF Next, Goroutines, Main

LEMMA ServeStep ==
  ASSUME ServeIInv, Next
  PROVE  ServeIInv'
<1>1. /\ setting \in Settings /\ setting' = setting
      /\ StreamTyped /\ ReportTyped /\ Counting /\ Finding /\ Keeping
  BY DEF ServeIInv, Next
<1>2. StreamTyped' /\ ReportTyped' /\ Counting'
  BY <1>1, StreamTypedStep, ReportTypedStep, CountingStep
<1>3. Finding' /\ Keeping'
  BY <1>1, FindingStep, KeepingStep
<1> QED
  BY <1>1, <1>2, <1>3 DEF ServeIInv

(***************************************************************************)
(* The router.  Flattening is a recursive function, as the totals are.             *)
(***************************************************************************)
Flattens(n, s, f) == f = [i \in 1..n |-> IF i = 1 THEN s[i] ELSE f[i - 1] \o s[i]]

LEMMA FlattensOnce ==
  ASSUME NEW n \in Nat, NEW s, NEW f, NEW g, Flattens(n, s, f), Flattens(n, s, g)
  PROVE  f = g
<1> DEFINE Bad == {i \in 1..n : f[i] # g[i]}
<1>1. /\ f = [i \in 1..n |-> f[i]] /\ g = [i \in 1..n |-> g[i]]
      /\ \A i \in 1..n : f[i] = IF i = 1 THEN s[i] ELSE f[i - 1] \o s[i]
      /\ \A i \in 1..n : g[i] = IF i = 1 THEN s[i] ELSE g[i - 1] \o s[i]
  BY DEF Flattens
<1>2. SUFFICES ASSUME Bad # {} PROVE FALSE
  BY <1>1
<1>3. PICK i \in Bad : \A j \in Bad : i <= j
  <2>1. Bad \subseteq Nat
    OBVIOUS
  <2> HIDE DEF Bad
  <2> QED
    BY <1>2, <2>1, Smallest
<1>4. i \in 1..n /\ i # 1 /\ i - 1 \in 1..n /\ ~(i <= i - 1)
  <2>1. i \in 1..n /\ f[i] # g[i]
    BY <1>3
  <2>2. i # 1
    BY <1>1, <2>1
  <2> QED
    BY <2>1, <2>2
<1>5. f[i - 1] = g[i - 1]
  BY <1>3, <1>4
<1> QED
  BY ZenonT(60), <1>1, <1>3, <1>4, <1>5

(* Sequences that may be joined, and the table that joins the first n of them.       *)
Joinable(T) == (\A x, y \in T : x \o y \in T) /\ <<>> \in T /\ \A x \in T : <<>> \o x = x
Rows(T, n, s) == n \in Nat /\ s \in [1..n -> T]
Joined(n, t, f, g) == g[n + 1] = f[n] \o t[n + 1]
Longer(n, s, t) == \A i \in 1..n : t[i] = s[i]
Table(T, n, s, f) == f \in [1..n -> T] /\ Flattens(n, s, f)

LEMMA FlattensLonger ==
  ASSUME NEW T, Joinable(T), NEW n \in Nat, n # 0, NEW s, NEW t, t[n + 1] \in T,
         Longer(n, s, t), NEW f, Table(T, n, s, f)
  PROVE  \E g : Table(T, n + 1, t, g) /\ Joined(n, t, f, g)
<1> DEFINE g == [i \in 1..(n + 1) |-> IF i = n + 1 THEN f[n] \o t[n + 1] ELSE f[i]]
<1>0. f \in [1..n -> T] /\ Flattens(n, s, f)
  BY DEF Table
<1>1. n \in 1..n /\ f[n] \o t[n + 1] \in T
  BY <1>0 DEF Joinable
<1>2. g \in [1..(n + 1) -> T]
  <2>1. \A i \in 1..(n + 1) : i # n + 1 => i \in 1..n
    OBVIOUS
  <2> QED
    BY <1>0, <1>1, <2>1
<1>3. ASSUME NEW i \in 1..(n + 1)
      PROVE  g[i] = IF i = 1 THEN t[i] ELSE g[i - 1] \o t[i]
  <2>1. CASE i = n + 1
    <3>1. i # 1 /\ i - 1 = n /\ i - 1 # n + 1 /\ i - 1 \in 1..(n + 1)
      BY <2>1
    <3> QED
      BY <2>1, <3>1
  <2>2. CASE i # n + 1
    <3>1. i \in 1..n /\ t[i] = s[i]
      BY <2>2 DEF Longer
    <3>2. f[i] = IF i = 1 THEN s[i] ELSE f[i - 1] \o s[i]
      BY <1>0, <3>1 DEF Flattens
    <3>3. i # 1 => i - 1 \in 1..(n + 1) /\ i - 1 # n + 1
      BY <3>1
    <3>4. g[i] = f[i] /\ (i # 1 => g[i - 1] = f[i - 1])
      BY <2>2, <3>3
    <3> HIDE DEF g
    <3> QED
      BY <3>1, <3>2, <3>4
  <2> QED
    BY <2>1, <2>2
<1>4. g = [i \in 1..(n + 1) |-> g[i]] /\ g[n + 1] = f[n] \o t[n + 1]
  <2>1. n + 1 \in 1..(n + 1)
    OBVIOUS
  <2> QED
    BY <2>1
<1> HIDE DEF g
<1>5. Flattens(n + 1, t, g)
  BY <1>3, <1>4 DEF Flattens
<1>6. Table(T, n + 1, t, g) /\ Joined(n, t, f, g)
  BY <1>2, <1>4, <1>5 DEF Table, Joined
<1> QED
  BY <1>6

LEMMA FlatteningsExist ==
  ASSUME NEW T, Joinable(T), NEW N, NEW s, Rows(T, N, s)
  PROVE  \A n \in 1..N : \E f : Table(T, n, s, f)
<1> DEFINE Bad == {n \in 1..N : ~ \E f : Table(T, n, s, f)}
<1>1. SUFFICES ASSUME Bad # {} PROVE FALSE
  OBVIOUS
<1>0. N \in Nat /\ s \in [1..N -> T]
  BY DEF Rows
<1>2. PICK n \in Bad : \A m \in Bad : n <= m
  <2>1. Bad \subseteq Nat
    BY <1>0
  <2> HIDE DEF Bad
  <2> QED
    BY <1>1, <2>1, Smallest
<1>3. n \in 1..N /\ ~ \E f : Table(T, n, s, f)
  BY <1>2
<1>4. n # 1
  <2> DEFINE z == [i \in 1..1 |-> s[1]]
  <2>0. s[1] \in T \/ n # 1
    BY <1>0, <1>3
  <2>1. z \in [1..1 -> T] \/ n # 1
    BY <2>0
  <2>2. z = [i \in 1..1 |-> IF i = 1 THEN s[i] ELSE z[i - 1] \o s[i]]
    OBVIOUS
  <2> HIDE DEF z
  <2>3. Flattens(1, s, z)
    BY <2>2 DEF Flattens
  <2>4. Table(T, 1, s, z) \/ n # 1
    BY <2>1, <2>3 DEF Table
  <2> QED
    BY <1>3, <2>4
<1>5. n - 1 \in 1..N /\ n - 1 \in Nat /\ n - 1 # 0 /\ (n - 1) + 1 = n /\ ~(n <= n - 1)
  BY <1>0, <1>3, <1>4
<1>6. n - 1 \notin Bad
  <2> HIDE DEF Bad
  <2> QED
    BY <1>2, <1>5
<1>7. PICK f : Table(T, n - 1, s, f)
  BY <1>5, <1>6
<1>8. s[n] \in T
  BY <1>0, <1>3
<1>9. \E g : Table(T, (n - 1) + 1, s, g)
  <2> DEFINE m == n - 1
  <2>1. m \in Nat /\ m # 0 /\ s[m + 1] \in T /\ Table(T, m, s, f) /\ Longer(m, s, s)
    BY <1>5, <1>7, <1>8 DEF Longer
  <2> HIDE DEF m
  <2>2. \E g : Table(T, m + 1, s, g)
    BY <2>1, FlattensLonger
  <2> QED
    BY <2>2 DEF m
<1> QED
  BY <1>3, <1>5, <1>9

LEMMA OfLength ==
  ASSUME NEW S, NEW n \in Nat, NEW s \in [1..n -> S]
  PROVE  s \in Seq(S) /\ Len(s) = n
OBVIOUS

LEMMA FlattenReadsTable ==
  ASSUME NEW T, NEW n, n # 0, NEW s, Rows(T, n, s), NEW f, Table(T, n, s, f)
  PROVE  Routes!FlattenSeq(s) = f[n] /\ f[n] \in T
<1>0. n \in Nat /\ s \in [1..n -> T] /\ f \in [1..n -> T] /\ Flattens(n, s, f)
  BY DEF Rows, Table
<1>1. Len(s) = n
  BY <1>0, OfLength
<1> DEFINE k == CHOOSE g : g = [i \in 1..n |-> IF i = 1 THEN s[i] ELSE g[i - 1] \o s[i]]
<1>2. Flattens(n, s, k)
  BY <1>0 DEF Flattens
<1>3. k = f
  <2> HIDE DEF k
  <2> QED
    BY <1>0, <1>2, FlattensOnce
<1>4. Routes!FlattenSeq(s) = k[n]
  BY <1>1 DEF Routes!FlattenSeq
<1>5. f[n] \in T
  BY <1>0
<1> QED
  BY <1>3, <1>4, <1>5

(* One sequence more is behind the others.                                        *)
LEMMA FlattenAddsTo ==
  ASSUME NEW T, Joinable(T), NEW n, NEW s, NEW t, Rows(T, n, s), Rows(T, n + 1, t),
         \A i \in 1..n : t[i] = s[i]
  PROVE  /\ Routes!FlattenSeq(s) \in T
         /\ Routes!FlattenSeq(t) = Routes!FlattenSeq(s) \o t[n + 1]
<1>0. n \in Nat /\ s \in [1..n -> T] /\ t \in [1..(n + 1) -> T] /\ t[n + 1] \in T
  <2>1. n \in Nat /\ s \in [1..n -> T] /\ t \in [1..(n + 1) -> T]
    BY DEF Rows
  <2>2. n + 1 \in 1..(n + 1)
    BY <2>1
  <2> QED
    BY <2>1, <2>2
<1>1. CASE n = 0
  <2>1. s \in Seq(T) /\ Len(s) = 0
    BY <1>0, <1>1, OfLength
  <2>2. s = <<>>
    BY <2>1
  <2>3. Routes!FlattenSeq(s) = <<>>
    BY <2>1, <2>2 DEF Routes!FlattenSeq
  <2>4. Rows(T, 1, t) /\ 1 \in 1..1 /\ t[1] \in T
    BY <1>0, <1>1
  <2>5. PICK g : Table(T, 1, t, g)
    BY <2>4, FlatteningsExist
  <2>6. g[1] = t[1]
    BY <2>5 DEF Table, Flattens
  <2>7. Routes!FlattenSeq(t) = t[1]
    BY <2>4, <2>5, <2>6, FlattenReadsTable
  <2>8. t[1] = <<>> \o t[1] /\ <<>> \in T
    BY <2>4 DEF Joinable
  <2> QED
    BY <1>1, <2>3, <2>7, <2>8
<1>2. CASE n # 0
  <2>0. n \in 1..n /\ n + 1 # 0
    BY <1>0, <1>2
  <2>1. PICK f : Table(T, n, s, f)
    BY <2>0, FlatteningsExist
  <2>2. PICK g : Table(T, n + 1, t, g) /\ Joined(n, t, f, g)
    <3>1. n \in Nat /\ n # 0 /\ t[n + 1] \in T /\ Table(T, n, s, f)
          /\ Longer(n, s, t)
      BY <1>0, <1>2, <2>1 DEF Longer
    <3> QED
      BY <3>1, FlattensLonger
  <2>3. Routes!FlattenSeq(s) = f[n] /\ f[n] \in T
    BY <1>2, <2>1, FlattenReadsTable
  <2>4. Routes!FlattenSeq(t) = g[n + 1]
    BY <2>0, <2>2, FlattenReadsTable
  <2> QED
    BY <2>2, <2>3, <2>4 DEF Joined
<1> QED
  BY <1>0, <1>1, <1>2

LEMMA FlattenAdds ==
  ASSUME NEW S, NEW n \in Nat, NEW s \in [1..n -> Seq(S)],
         NEW t \in [1..(n + 1) -> Seq(S)], \A i \in 1..n : t[i] = s[i]
  PROVE  /\ Routes!FlattenSeq(s) \in Seq(S)
         /\ Routes!FlattenSeq(t) = Routes!FlattenSeq(s) \o t[n + 1]
<1> DEFINE T == Seq(S)
<1>1. Joinable(T)
  <2>1. (\A x, y \in T : x \o y \in T) /\ <<>> \in T /\ \A x \in T : <<>> \o x = x
    OBVIOUS
  <2> QED
    BY <2>1 DEF Joinable
<1>2. Rows(T, n, s) /\ Rows(T, n + 1, t)
  BY DEF Rows
<1> HIDE DEF T
<1>3. Routes!FlattenSeq(s) \in T /\ Routes!FlattenSeq(t) = Routes!FlattenSeq(s) \o t[n + 1]
  BY ZenonT(60), <1>1, <1>2, FlattenAddsTo
<1> QED
  BY <1>3 DEF T

(* What moves, and when: a packet from the stream to the queue, from the queue to the   *)
(* handlers that are left, and from those to the calls that are done.                *)
Routed == [kind : Keys, fate : {"whole", "wrong"}]
Duties == [handler : Handlers, packet : Nat]
Calls  == [handler : Handlers, packet : Nat, ok : BOOLEAN]

Stopped == {"wrong", "leaves", "resets", "unsent"}
Ahead == {"not yet", "nil", "handler", "cancelled", "whole"} \cup Stopped

ArrivalsTyped ==
  /\ transit \in Seq(Routed) /\ held \in Seq(Keys) /\ inbox \in Seq(Keys) /\ arrived \in Seq(Keys)
  /\ peer \in {"here", "leaves", "resets"} /\ phase \in Phases
  /\ Len(arrived) + Len(transit) <= MaxRouted

TableTyped ==
  /\ handlers \in [Keys -> Seq(Handlers)]
  /\ \A key \in Keys : Len(handlers[key]) <= MaxHandlers
  /\ fallback \in Handlers \cup {NoHandler} /\ running \in BOOLEAN /\ cancelled \in BOOLEAN

CallsTyped ==
  /\ pending \in Seq(Handlers) /\ calls \in Seq(Calls) /\ counted \in Seq(Keys) /\ returned \in Ahead

(* Packets are read in the order of their arrival, each once.                       *)
InOrder ==
  /\ Follows(counted, inbox, held, arrived, phase = "running")
  /\ Len(counted) + Len(inbox) + Len(held) <= Len(arrived)

Endings ==
  /\ phase = "running" => cause = "none"
  /\ phase # "running" => cause \in Stopped
  /\ cause = "leaves" => peer = "leaves" /\ transit = <<>>
  /\ returned # "not yet" => pending = <<>>
  /\ returned \in {"nil", "whole"} \cup Stopped => inbox = <<>> /\ phase = "done"
  /\ returned = "nil" => cause = "leaves"
  /\ ~running => counted = <<>> /\ calls = <<>> /\ pending = <<>> /\ returned = "not yet"

(* What has been called and what still has to be is what is due.                    *)
Done == [i \in DOMAIN calls |-> [handler |-> calls[i].handler, packet |-> calls[i].packet]]
Left == [j \in DOMAIN pending |-> [handler |-> pending[j], packet |-> Len(counted)]]

DoneAndLeft ==
  IF returned = "handler"
    THEN /\ \E rest \in Seq(Duties) : Done \o rest = Routes!Due(Len(counted))
         /\ \A i \in DOMAIN calls : calls[i].ok \/ i = Len(calls)
    ELSE Done \o Left = Routes!Due(Len(counted)) /\ \A i \in DOMAIN calls : calls[i].ok

RouteIInv == ArrivalsTyped /\ TableTyped /\ CallsTyped /\ InOrder /\ Endings /\ DoneAndLeft

(* The same of any table, fallback and packets, for the steps that change them.       *)
RowOf(table, fall, key, i) ==
  LET for == IF table[key] # <<>> THEN table[key]
             ELSE IF fall # NoHandler THEN <<fall>> ELSE <<>>
  IN  [j \in DOMAIN for |-> [handler |-> for[j], packet |-> i]]

DueOf(table, fall, keys, n) ==
  Routes!FlattenSeq([i \in 1..n |-> RowOf(table, fall, keys[i], i)])

TableOf(table, fall) ==
  table \in [Keys -> Seq(Handlers)] /\ fall \in Handlers \cup {NoHandler}

LEMMA DispatchedTyped ==
  ASSUME TableTyped, NEW key \in Keys
  PROVE  Routes!Dispatched(key) \in Seq(Handlers)
<1>1. handlers[key] \in Seq(Handlers)
  BY DEF TableTyped
<1>2. fallback # NoHandler => <<fallback>> \in Seq(Handlers)
  BY DEF TableTyped
<1> QED
  BY <1>1, <1>2 DEF Routes!Dispatched

LEMMA MappedTyped ==
  ASSUME NEW S, NEW T, NEW s \in Seq(S), NEW t, DOMAIN t = DOMAIN s,
         t = [i \in DOMAIN s |-> t[i]], \A i \in DOMAIN s : t[i] \in T
  PROVE  t \in Seq(T) /\ Len(t) = Len(s)
<1>1. DOMAIN s = 1..Len(s) /\ Len(s) \in Nat
  OBVIOUS
<1>2. t \in [1..Len(s) -> T]
  BY <1>1
<1> QED
  BY <1>1, <1>2, OfLength

LEMMA RowTyped ==
  ASSUME NEW table, NEW fall, TableOf(table, fall), NEW key \in Keys, NEW n \in Nat
  PROVE  RowOf(table, fall, key, n) \in Seq(Duties)
<1> DEFINE d == IF table[key] # <<>> THEN table[key]
                ELSE IF fall # NoHandler THEN <<fall>> ELSE <<>>
           r == RowOf(table, fall, key, n)
<1>1. d \in Seq(Handlers)
  <2>1. table[key] \in Seq(Handlers)
    BY DEF TableOf
  <2>2. fall # NoHandler => <<fall>> \in Seq(Handlers)
    BY DEF TableOf
  <2>3. <<>> \in Seq(Handlers)
    OBVIOUS
  <2> QED
    BY <2>1, <2>2, <2>3
<1>2. r = [j \in DOMAIN d |-> [handler |-> d[j], packet |-> n]]
  BY DEF RowOf
<1> HIDE DEF d, r
<1>3. \A j \in DOMAIN d : d[j] \in Handlers
  BY <1>1
<1>4. \A j \in DOMAIN d : r[j] \in Duties
  BY <1>2, <1>3 DEF Duties
<1>5. DOMAIN r = DOMAIN d /\ r = [j \in DOMAIN d |-> r[j]]
  BY <1>2
<1>6. r \in Seq(Duties)
  BY <1>1, <1>4, <1>5, MappedTyped
<1> QED
  BY <1>6 DEF r

LEMMA DueIsFlat ==
  \A n : Routes!Due(n) = DueOf(handlers, fallback, counted, n)
BY DEF Routes!Due, DueOf, RowOf

LEMMA DueIsFlatNext ==
  \A n : (Routes!Due(n))' = DueOf(handlers', fallback', counted', n)
BY DEF Routes!Due, DueOf, RowOf

LEMMA DueGrows ==
  ASSUME NEW table, NEW fall, TableOf(table, fall), NEW n \in Nat, NEW keys,
         \A i \in 1..(n + 1) : keys[i] \in Keys
  PROVE  DueOf(table, fall, keys, n + 1)
           = DueOf(table, fall, keys, n) \o RowOf(table, fall, keys[n + 1], n + 1)
<1> DEFINE Row(i) == RowOf(table, fall, keys[i], i)
<1>1. \A i \in 1..(n + 1) : Row(i) \in Seq(Duties)
  BY RowTyped
<1> HIDE DEF Row
<1> DEFINE s == [i \in 1..n |-> Row(i)]
           t == [i \in 1..(n + 1) |-> Row(i)]
<1>2. s \in [1..n -> Seq(Duties)] /\ t \in [1..(n + 1) -> Seq(Duties)]
  BY <1>1
<1>3. (\A i \in 1..n : t[i] = s[i]) /\ t[n + 1] = Row(n + 1) /\ n + 1 \in 1..(n + 1)
  OBVIOUS
<1>4. /\ DueOf(table, fall, keys, n) = Routes!FlattenSeq(s)
      /\ DueOf(table, fall, keys, n + 1) = Routes!FlattenSeq(t)
  BY DEF DueOf, Row
<1> HIDE DEF s, t
<1>5. Routes!FlattenSeq(t) = Routes!FlattenSeq(s) \o t[n + 1]
  BY <1>2, <1>3, FlattenAdds
<1> QED
  BY <1>3, <1>4, <1>5 DEF Row

LEMMA NothingDue ==
  ASSUME NEW table, NEW fall, NEW keys
  PROVE  DueOf(table, fall, keys, 0) = <<>>
<1> DEFINE s == [i \in 1..0 |-> RowOf(table, fall, keys[i], i)]
<1>1. s \in [1..0 -> {RowOf(table, fall, keys[i], i) : i \in 1..0}]
  OBVIOUS
<1>2. s = <<>> /\ Len(s) = 0
  BY <1>1, OfLength
<1>3. DueOf(table, fall, keys, 0) = Routes!FlattenSeq(s)
  BY DEF DueOf
<1> HIDE DEF s
<1> QED
  BY <1>2, <1>3 DEF Routes!FlattenSeq

LEMMA DueStays ==
  ASSUME NEW table, NEW fall, NEW keys, NEW more, NEW n \in Nat,
         \A i \in 1..n : more[i] = keys[i]
  PROVE  DueOf(table, fall, more, n) = DueOf(table, fall, keys, n)
<1>1. [i \in 1..n |-> RowOf(table, fall, more[i], i)] = [i \in 1..n |-> RowOf(table, fall, keys[i], i)]
  OBVIOUS
<1> QED
  BY <1>1 DEF DueOf

LEMMA DoneTyped ==
  ASSUME CallsTyped
  PROVE  Done \in Seq(Duties) /\ Left \in Seq(Duties) /\ Len(Done) = Len(calls) /\ Len(Left) = Len(pending)
<1>1. calls \in Seq(Calls) /\ pending \in Seq(Handlers) /\ Len(counted) \in Nat
  BY DEF CallsTyped
<1>2. \A i \in DOMAIN calls : calls[i] \in Calls
  BY <1>1
<1>3. \A i \in DOMAIN calls : Done[i] \in Duties
  BY <1>2 DEF Done, Duties, Calls
<1>4. \A i \in DOMAIN pending : Left[i] \in Duties
  BY <1>1 DEF Left, Duties
<1>5. /\ DOMAIN Done = DOMAIN calls /\ Done = [i \in DOMAIN calls |-> Done[i]]
      /\ DOMAIN Left = DOMAIN pending /\ Left = [i \in DOMAIN pending |-> Left[i]]
  BY DEF Done, Left
<1> DEFINE D == Done
           L == Left
<1> HIDE DEF D, L
<1>6. D \in Seq(Duties) /\ Len(D) = Len(calls)
  BY <1>1, <1>3, <1>5, MappedTyped DEF D
<1>7. L \in Seq(Duties) /\ Len(L) = Len(pending)
  BY <1>1, <1>4, <1>5, MappedTyped DEF L
<1> QED
  BY <1>6, <1>7 DEF D, L

(* The router's stream is the commands'.                                            *)
LEMMA SameInlet ==
  /\ Routes!inlet = inlet /\ (Routes!Connected <=> Connected)
  /\ (Routes!Decodes <=> Decodes) /\ (Routes!Queues <=> Queues) /\ (Routes!Drops <=> Drops)
  /\ (Routes!Leaves <=> Leaves) /\ (Routes!SeesThePeerGo <=> SeesThePeerGo)
  /\ (Routes!TakesPacket <=> TakesPacket)
  /\ \A read : Routes!ReadsInOrder(read) <=> ReadsInOrder(read)
<1>1. \A s, t : Routes!IsSubsequence(s, t) <=> IsSubsequence(s, t)
  BY DEF Routes!IsSubsequence, IsSubsequence
<1>2. \A why : (Routes!Breaks(why) <=> Breaks(why)) /\ (Routes!Ends(why) <=> Ends(why))
  BY DEF Routes!Breaks, Routes!Ends, Routes!FirstCause, Breaks, Ends, FirstCause
<1>3. Routes!Decodes <=> Decodes
  BY <1>2 DEF Routes!Decodes, Routes!Coordinating, Decodes, Coordinating
<1>4. Routes!SeesThePeerGo <=> SeesThePeerGo
  BY <1>2 DEF Routes!SeesThePeerGo, SeesThePeerGo
<1>5. \A read : Routes!ReadsInOrder(read) <=> ReadsInOrder(read)
  BY <1>1 DEF Routes!ReadsInOrder, ReadsInOrder
<1>6. /\ (Routes!Queues <=> Queues) /\ (Routes!Drops <=> Drops) /\ (Routes!Leaves <=> Leaves)
      /\ (Routes!TakesPacket <=> TakesPacket) /\ (Routes!Connected <=> Connected)
  BY DEF Routes!Queues, Routes!Drops, Routes!Leaves, Routes!TakesPacket, Routes!Connected,
     Routes!Coordinating, Queues, Drops, Leaves, TakesPacket, Connected, Coordinating
<1>7. Routes!inlet = inlet
  BY DEF Routes!inlet, inlet
<1> QED
  BY <1>3, <1>4, <1>5, <1>6, <1>7

(* A stream that ends behind a peer that has gone, or done with all it has to do.     *)
Given == Routes!SendFails \/ Routes!Finishes

LEMMA GivenMoves ==
  ASSUME Given
  PROVE  /\ UNCHANGED <<transit, peer, inbox, arrived>> /\ Unmoved
         /\ \/ phase = "running" /\ phase' = "left" /\ cause' = "unsent" /\ held' = <<>>
            \/ phase = "left" /\ phase' = "done" /\ cause' = cause /\ held' = held
<1>1. CASE Routes!SendFails
  BY <1>1 DEF Routes!SendFails, Routes!Breaks, Routes!FirstCause, Unmoved
<1>2. CASE Routes!Finishes
  BY <1>2 DEF Routes!Finishes, Unmoved
<1> QED
  BY <1>1, <1>2 DEF Given

LEMMA StreamRunsAs ==
  ASSUME Routes!StreamRuns
  PROVE  /\ UNCHANGED <<handlers, fallback, running, pending, counted, calls, returned, cancelled>>
         /\ Decodes \/ Queues \/ Drops \/ Leaves \/ SeesThePeerGo \/ Given
BY SameInlet DEF Routes!StreamRuns, Routes!routing, Given

Others ==
  \/ Routes!Cancel \/ Routes!Register \/ Routes!Fallback \/ Routes!Run \/ Routes!Handle
  \/ Routes!RunEnds

LEMMA OthersOfStream ==
  ASSUME Others
  PROVE  UNCHANGED <<transit, peer, held, inbox, cause, phase, arrived>>
BY DEF Others, Routes!Cancel, Routes!Register, Routes!Fallback, Routes!Run, Routes!Handle,
   Routes!RunEnds, Routes!inlet

LEMMA RouteStarts == ASSUME Routes!Init PROVE RouteIInv
<1>1. /\ transit = <<>> /\ held = <<>> /\ inbox = <<>> /\ arrived = <<>> /\ calls = <<>> /\ pending = <<>>
      /\ peer = "here" /\ phase = "running" /\ cause = "none"
      /\ handlers = [key \in Keys |-> <<>>] /\ fallback = NoHandler
      /\ running = FALSE /\ cancelled = FALSE /\ returned = "not yet"
  BY DEF Routes!Init, Routes!Connected
<1>2. counted = <<>> /\ MaxHandlers \in Nat /\ MaxRouted \in Nat
  BY RoutesAssumption DEF Routes!Init, Routes!RouterAssumption
<1>3. /\ <<>> \in Seq(Routed) /\ <<>> \in Seq(Keys) /\ <<>> \in Seq(Handlers) /\ <<>> \in Seq(Calls)
      /\ Len(<<>>) = 0
  OBVIOUS
<1>4. ArrivalsTyped
  <2>1. transit \in Seq(Routed) /\ held \in Seq(Keys) /\ inbox \in Seq(Keys) /\ arrived \in Seq(Keys)
    BY <1>1, <1>3
  <2>2. Len(arrived) = 0 /\ Len(transit) = 0
    BY <1>1
  <2>3. Len(arrived) + Len(transit) <= MaxRouted
    BY <1>2, <2>2
  <2>4. peer \in {"here", "leaves", "resets"} /\ phase \in Phases
    BY <1>1 DEF Phases
  <2> QED
    BY <2>1, <2>3, <2>4 DEF ArrivalsTyped
<1>5. TableTyped
  <2>1. \A key \in Keys : handlers[key] = <<>>
    BY <1>1
  <2>2. \A key \in Keys : handlers[key] \in Seq(Handlers) /\ Len(handlers[key]) = 0
    BY <1>3, <2>1
  <2>3. handlers \in [Keys -> Seq(Handlers)]
    BY <1>1, <1>3
  <2>4. \A key \in Keys : Len(handlers[key]) <= MaxHandlers
    BY <1>2, <2>2
  <2> QED
    BY <1>1, <2>3, <2>4 DEF TableTyped
<1>6. CallsTyped
  BY <1>1, <1>2, <1>3 DEF CallsTyped, Ahead
<1>7. InOrder
  <2>0. Len(counted) = 0 /\ Len(inbox) = 0 /\ Len(held) = 0 /\ Len(arrived) = 0
    BY <1>1, <1>2
  <2>1. Len(counted) + Len(inbox) + Len(held) <= Len(arrived)
    BY <2>0
  <2>2. Follows(counted, inbox, held, arrived, phase = "running")
    BY <1>1, <1>2, NothingFollows
  <2> QED
    BY <2>1, <2>2 DEF InOrder
<1>8. Endings
  BY <1>1, <1>2 DEF Endings, Stopped
<1>9. DoneAndLeft
  <2>1. Len(Done) = 0 /\ Done \in Seq(Duties) /\ Len(Left) = 0 /\ Left \in Seq(Duties)
    BY <1>1, <1>3, <1>6, DoneTyped
  <2>2. Done \o Left = <<>> /\ Routes!Due(Len(counted)) = <<>>
    <3>1. Len(counted) = 0
      BY <1>2
    <3> QED
      BY <2>1, <3>1, DueIsFlat, NothingDue
  <2> QED
    BY <1>1, <2>2, NothingYet DEF DoneAndLeft
<1> QED
  BY <1>4, <1>5, <1>6, <1>7, <1>8, <1>9 DEF RouteIInv

LEMMA ArrivalsTypedStep ==
  ASSUME ArrivalsTyped, Routes!Next
  PROVE  ArrivalsTyped'
<1>1. /\ transit \in Seq(Routed) /\ held \in Seq(Keys) /\ inbox \in Seq(Keys) /\ arrived \in Seq(Keys)
      /\ peer \in {"here", "leaves", "resets"} /\ phase \in Phases
      /\ Len(arrived) + Len(transit) <= MaxRouted
  BY DEF ArrivalsTyped
<1>2. MaxRouted \in Nat
  BY RoutesAssumption DEF Routes!RouterAssumption
<1>3. CASE Routes!PeerWrites
  <2>1. PICK key \in Keys, fate \in {"whole", "wrong"} : Routes!PeerSends(key, fate)
    BY <1>3 DEF Routes!PeerWrites
  <2>2. [kind |-> key, fate |-> fate] \in Routed
    BY DEF Routed
  <2>3. /\ transit' = Append(transit, [kind |-> key, fate |-> fate])
        /\ UNCHANGED <<peer, held, inbox, phase, arrived>>
        /\ Len(arrived) + Len(transit) < MaxRouted
    BY <1>3, <2>1 DEF Routes!PeerWrites, Routes!PeerSends
  <2>4. transit' \in Seq(Routed) /\ Len(transit') = Len(transit) + 1
    BY <1>1, <2>2, <2>3
  <2>5. Len(arrived') + Len(transit') <= MaxRouted
    BY <1>1, <1>2, <2>3, <2>4
  <2> QED
    BY <1>1, <2>3, <2>4, <2>5 DEF ArrivalsTyped
<1>4. CASE Routes!PeerLeaves
  BY <1>1, <1>4 DEF Routes!PeerLeaves, Routes!PeerGoes, ArrivalsTyped
<1>5. CASE Decodes
  <2>1. transit # <<>> /\ transit' = Tail(transit) /\ peer' = peer /\ inbox' = inbox
    BY <1>5 DEF Decodes
  <2>2. Head(transit) \in Routed /\ transit' \in Seq(Routed) /\ Len(transit') = Len(transit) - 1
    BY <1>1, <2>1
  <2>3. Head(transit).kind \in Keys
    BY <2>2 DEF Routed
  <2>4. CASE Head(transit).fate = "whole"
    <3>1. /\ held' = <<Head(transit).kind>> /\ phase' = phase
          /\ arrived' = Append(arrived, Head(transit).kind)
      BY <1>5, <2>4 DEF Decodes
    <3>2. held' \in Seq(Keys) /\ arrived' \in Seq(Keys) /\ Len(arrived') = Len(arrived) + 1
      BY <1>1, <2>3, <3>1
    <3>3. Len(arrived') + Len(transit') <= MaxRouted
      BY <1>1, <1>2, <2>2, <3>2
    <3> QED
      BY <1>1, <2>1, <2>2, <3>1, <3>2, <3>3 DEF ArrivalsTyped
  <2>5. CASE Head(transit).fate # "whole"
    <3>1. held' = <<>> /\ arrived' = arrived /\ phase' = "left"
      BY <1>5, <2>5 DEF Decodes, Breaks
    <3>2. Len(arrived') + Len(transit') <= MaxRouted /\ <<>> \in Seq(Keys)
      BY <1>1, <1>2, <2>2, <3>1
    <3> QED
      BY <1>1, <2>1, <2>2, <3>1, <3>2 DEF ArrivalsTyped, Phases
  <2> QED
    BY <2>4, <2>5
<1>6. CASE Queues \/ Drops \/ Leaves \/ SeesThePeerGo \/ Given
  <2>1. UNCHANGED <<transit, peer, arrived>>
    BY <1>6, GivenMoves DEF Queues, Drops, Leaves, SeesThePeerGo
  <2>2. held' \in Seq(Keys) /\ inbox' \in Seq(Keys)
    <3>1. held' \in {held, <<>>} /\ inbox' \in {inbox, inbox \o held}
      BY <1>6, GivenMoves DEF Queues, Drops, Leaves, SeesThePeerGo
    <3>2. <<>> \in Seq(Keys) /\ inbox \o held \in Seq(Keys)
      BY <1>1
    <3> QED
      BY <1>1, <3>1, <3>2
  <2>3. phase' \in Phases
    BY <1>1, <1>6, GivenMoves DEF Queues, Drops, Leaves, SeesThePeerGo, Ends, Phases
  <2> QED
    BY <1>1, <2>1, <2>2, <2>3 DEF ArrivalsTyped
<1>7. CASE Routes!Receive
  <2>1. inbox # <<>> /\ inbox' = Tail(inbox) /\ UNCHANGED <<transit, peer, held, phase, arrived>>
    BY <1>7, SameInlet DEF Routes!Receive, TakesPacket
  <2>2. inbox' \in Seq(Keys)
    BY <1>1, <2>1
  <2> QED
    BY <1>1, <2>1, <2>2 DEF ArrivalsTyped
<1>8. CASE Others
  BY <1>1, <1>8, OthersOfStream DEF ArrivalsTyped
<1> QED
  BY <1>3, <1>4, <1>5, <1>6, <1>7, <1>8, StreamRunsAs DEF Routes!Next, Others

LEMMA TableTypedStep ==
  ASSUME TableTyped, Routes!Next
  PROVE  /\ TableTyped'
         /\ running => UNCHANGED <<handlers, fallback, running>>
<1>1. /\ handlers \in [Keys -> Seq(Handlers)] /\ \A key \in Keys : Len(handlers[key]) <= MaxHandlers
      /\ fallback \in Handlers \cup {NoHandler} /\ running \in BOOLEAN /\ cancelled \in BOOLEAN
      /\ MaxHandlers \in Nat
  BY RoutesAssumption DEF TableTyped, Routes!RouterAssumption
<1>h. ASSUME NEW key \in Keys, NEW handler \in Handlers, Routes!HandleID(key, handler)
      PROVE  /\ handlers' \in [Keys -> Seq(Handlers)]
             /\ \A k \in Keys : Len(handlers'[k]) <= MaxHandlers
             /\ running => handlers' = handlers
  <2>1. CASE running
    BY <1>1, <1>h, <2>1 DEF Routes!HandleID
  <2>2. CASE ~running
    <3>1. Len(handlers[key]) < MaxHandlers /\ handlers' = [handlers EXCEPT ![key] = Append(@, handler)]
      BY <1>h, <2>2 DEF Routes!HandleID
    <3>2. Append(handlers[key], handler) \in Seq(Handlers)
          /\ Len(Append(handlers[key], handler)) = Len(handlers[key]) + 1
          /\ Len(handlers[key]) \in Nat
      BY <1>1
    <3>3. handlers' \in [Keys -> Seq(Handlers)]
      BY <1>1, <3>1, <3>2
    <3>4. ASSUME NEW k \in Keys PROVE Len(handlers'[k]) <= MaxHandlers
      <4>1. CASE k = key
        <5>1. handlers'[k] = Append(handlers[key], handler)
          BY <1>1, <3>1, <4>1
        <5> QED
          BY <1>1, <3>1, <3>2, <5>1
      <4>2. CASE k # key
        <5>1. handlers'[k] = handlers[k]
          BY <1>1, <3>1, <4>2
        <5> QED
          BY <1>1, <5>1
      <4> QED
        BY <4>1, <4>2
    <3> QED
      BY <2>2, <3>3, <3>4
  <2> QED
    BY <2>1, <2>2
<1>2. CASE Routes!PeerWrites \/ Routes!PeerLeaves \/ Routes!StreamRuns
           \/ Routes!Cancel \/ Routes!Run \/ Routes!Receive \/ Routes!RunEnds
  <2>1. UNCHANGED <<handlers, fallback>> /\ running' \in {running, TRUE} /\ cancelled' \in {cancelled, TRUE}
    BY <1>2 DEF Routes!PeerWrites, Routes!PeerLeaves, Routes!StreamRuns,
       Routes!Cancel, Routes!Run, Routes!Receive, Routes!RunEnds, Routes!routing
  <2> QED
    BY <1>1, <2>1 DEF TableTyped
<1>3. CASE Routes!Register
  <2>1. PICK key \in Keys, handler \in Handlers : Routes!HandleID(key, handler)
    BY <1>3 DEF Routes!Register
  <2>2. UNCHANGED <<fallback, running, cancelled>>
    BY <1>3 DEF Routes!Register
  <2> QED
    BY <1>1, <1>h, <2>1, <2>2 DEF TableTyped
<1>4. CASE Routes!Fallback
  <2>1. ~running /\ fallback' \in Handlers /\ UNCHANGED <<handlers, running, cancelled>>
    BY <1>4 DEF Routes!Fallback
  <2> QED
    BY <1>1, <2>1 DEF TableTyped
<1>5. CASE Routes!Handle
  <2>1. UNCHANGED <<fallback, running, cancelled>>
    BY <1>5 DEF Routes!Handle
  <2>2. handlers' = handlers \/ \E key \in Keys, handler \in Handlers : Routes!HandleID(key, handler)
    BY <1>5 DEF Routes!Handle, Routes!Fails, Routes!Succeeds
  <2>3. /\ handlers' \in [Keys -> Seq(Handlers)]
        /\ \A k \in Keys : Len(handlers'[k]) <= MaxHandlers
        /\ running => handlers' = handlers
    BY <1>1, <1>h, <2>2
  <2> QED
    BY <1>1, <2>1, <2>3 DEF TableTyped
<1> QED
  BY <1>2, <1>3, <1>4, <1>5 DEF Routes!Next

LEMMA CallsTypedStep ==
  ASSUME ArrivalsTyped, TableTyped, CallsTyped, Endings, Routes!Next
  PROVE  CallsTyped'
<1>1. pending \in Seq(Handlers) /\ calls \in Seq(Calls) /\ counted \in Seq(Keys) /\ returned \in Ahead
  BY DEF CallsTyped
<1>2. CASE Routes!Receive
  <2>1. /\ inbox # <<>> /\ counted' = Append(counted, Head(inbox)) /\ UNCHANGED <<calls, returned>>
        /\ pending' = Routes!Dispatched(Head(inbox))
    BY <1>2, SameInlet DEF Routes!Receive, TakesPacket
  <2>2. Head(inbox) \in Keys /\ counted' \in Seq(Keys)
    <3>1. Head(inbox) \in Keys
      BY <2>1 DEF ArrivalsTyped
    <3> QED
      BY <1>1, <2>1, <3>1
  <2>3. pending' \in Seq(Handlers)
    BY <2>1, <2>2, DispatchedTyped
  <2> QED
    BY <1>1, <2>1, <2>2, <2>3 DEF CallsTyped
<1>3. CASE Routes!Handle
  <2>1. /\ pending # <<>> /\ counted' = counted /\ returned' \in {returned, "handler"}
        /\ pending' \in {<<>>, Tail(pending)}
        /\ \E good \in BOOLEAN :
             calls' = Append(calls, [handler |-> Head(pending), packet |-> Len(counted), ok |-> good])
    BY <1>3 DEF Routes!Handle, Routes!Fails, Routes!Succeeds
  <2>2. PICK good \in BOOLEAN :
          calls' = Append(calls, [handler |-> Head(pending), packet |-> Len(counted), ok |-> good])
    BY <2>1
  <2>3. Head(pending) \in Handlers /\ Tail(pending) \in Seq(Handlers) /\ <<>> \in Seq(Handlers)
    BY <1>1, <2>1
  <2>n. Len(counted) \in Nat
    BY <1>1
  <2>4. [handler |-> Head(pending), packet |-> Len(counted), ok |-> good] \in Calls
    BY <2>3, <2>n DEF Calls
  <2>5. calls' \in Seq(Calls)
    BY <1>1, <2>2, <2>4
  <2>6. pending' \in Seq(Handlers)
    BY <2>1, <2>3
  <2>7. returned' \in Ahead
    BY <1>1, <2>1 DEF Ahead
  <2> QED
    BY <1>1, <2>1, <2>5, <2>6, <2>7 DEF CallsTyped
<1>4. CASE Routes!RunEnds
  <2>1. UNCHANGED <<pending, calls, counted>>
    BY <1>4 DEF Routes!RunEnds
  <2>2. returned' \in {"nil", "cancelled"} \/ (returned' = cause /\ phase = "done")
    BY <1>4 DEF Routes!RunEnds, Routes!EndsWithStream
  <2>3. returned' \in Ahead
    BY <2>2 DEF Ahead, Stopped, Endings
  <2> QED
    BY <1>1, <2>1, <2>3 DEF CallsTyped
<1>5. CASE Routes!PeerWrites \/ Routes!PeerLeaves \/ Routes!StreamRuns
           \/ Routes!Cancel \/ Routes!Run \/ Routes!Register \/ Routes!Fallback
  <2>1. UNCHANGED <<pending, calls, counted, returned>>
    BY <1>5 DEF Routes!PeerWrites, Routes!PeerLeaves, Routes!StreamRuns,
       Routes!Cancel, Routes!Run, Routes!Register, Routes!Fallback, Routes!routing
  <2> QED
    BY <1>1, <2>1 DEF CallsTyped
<1> QED
  BY <1>2, <1>3, <1>4, <1>5 DEF Routes!Next

LEMMA InOrderStep ==
  ASSUME ArrivalsTyped, CallsTyped, InOrder, Routes!Next
  PROVE  InOrder'
<1>1. /\ inbox \in Seq(Keys) /\ held \in Seq(Keys) /\ arrived \in Seq(Keys) /\ counted \in Seq(Keys)
      /\ Follows(counted, inbox, held, arrived, phase = "running")
      /\ Len(counted) + Len(inbox) + Len(held) <= Len(arrived)
  BY DEF ArrivalsTyped, CallsTyped, InOrder
<1>n. /\ Len(counted) \in Nat /\ Len(inbox) \in Nat /\ Len(held) \in Nat /\ Len(arrived) \in Nat
  BY <1>1
<1>2. CASE Routes!PeerWrites \/ Routes!PeerLeaves \/ Others
  <2>1. UNCHANGED <<inbox, held, arrived, counted, phase>>
    <3>1. CASE Routes!PeerWrites \/ Routes!PeerLeaves
      BY <3>1 DEF Routes!PeerWrites, Routes!PeerSends, Routes!PeerLeaves, Routes!PeerGoes,
         Routes!routing
    <3>2. CASE Others
      <4>1. counted' = counted
        BY <3>2 DEF Others, Routes!Cancel, Routes!Register, Routes!Fallback, Routes!Run,
           Routes!Handle, Routes!RunEnds
      <4> QED
        BY <3>2, <4>1, OthersOfStream
    <3> QED
      BY <1>2, <3>1, <3>2
  <2> QED
    BY <1>1, <2>1 DEF InOrder
<1>3. CASE Routes!Receive
  <2>1. /\ inbox # <<>> /\ inbox' = Tail(inbox) /\ counted' = Append(counted, Head(inbox))
        /\ UNCHANGED <<held, arrived, phase>>
    BY <1>3, SameInlet DEF Routes!Receive, TakesPacket
  <2>2. Follows(counted', inbox', held', arrived', phase' = "running")
    BY <1>1, <2>1, FollowsRead
  <2>3. Len(counted') = Len(counted) + 1 /\ Len(inbox') = Len(inbox) - 1
    BY <1>1, <2>1
  <2>4. Len(counted') + Len(inbox') + Len(held') <= Len(arrived')
    BY <1>1, <1>n, <2>1, <2>3
  <2> QED
    BY <2>2, <2>4 DEF InOrder
<1>4. CASE Routes!StreamRuns
  <2>0. counted' = counted /\ (Decodes \/ Queues \/ Drops \/ Leaves \/ SeesThePeerGo \/ Given)
    BY <1>4, StreamRunsAs
  <2>1. Decodes => Head(transit).kind \in Keys
    <3>1. Decodes => Head(transit) \in Routed
      BY DEF Decodes, ArrivalsTyped
    <3> QED
      BY <3>1 DEF Routed
  <2>2. Follows(counted, inbox', held', arrived', phase' = "running")
    BY <1>1, <2>0, <2>1, GivenMoves, FollowsStream
  <2>3. Len(inbox') + Len(held') - Len(arrived') <= Len(inbox) + Len(held) - Len(arrived)
    <3>1. CASE Decodes
      <4>1. \/ held' = <<>> /\ UNCHANGED <<inbox, arrived>>
            \/ held' = <<Head(transit).kind>> /\ inbox' = inbox
               /\ arrived' = Append(arrived, Head(transit).kind)
        BY <3>1 DEF Decodes, Breaks
      <4>2. CASE held' = <<>> /\ UNCHANGED <<inbox, arrived>>
        <5>1. Len(held') = 0
          BY <4>2
        <5> QED
          BY <1>n, <4>2, <5>1
      <4>3. CASE held' = <<Head(transit).kind>> /\ inbox' = inbox
                 /\ arrived' = Append(arrived, Head(transit).kind)
        <5>1. Len(held') = 1 /\ Len(arrived') = Len(arrived) + 1
          BY <1>1, <4>3
        <5> QED
          BY <1>n, <4>3, <5>1
      <4> QED
        BY <4>1, <4>2, <4>3
    <3>2. CASE Queues \/ Drops \/ Leaves \/ SeesThePeerGo \/ Given
      <4>1. /\ arrived' = arrived
            /\ \/ held' = held /\ inbox' = inbox
               \/ held' = <<>> /\ inbox' \in {inbox, inbox \o held}
        BY <3>2, GivenMoves DEF Queues, Drops, Leaves, SeesThePeerGo
      <4>2. Len(inbox \o held) = Len(inbox) + Len(held)
        BY <1>1
      <4>3. held' = <<>> => Len(held') = 0
        OBVIOUS
      <4> QED
        BY <1>n, <4>1, <4>2, <4>3
    <3> QED
      BY <2>0, <3>1, <3>2
  <2>4. /\ Len(inbox') \in Nat /\ Len(held') \in Nat /\ Len(arrived') \in Nat
    <3>1. ArrivalsTyped'
      BY ArrivalsTypedStep
    <3> QED
      BY <3>1 DEF ArrivalsTyped
  <2>5. Len(counted) + Len(inbox') + Len(held') <= Len(arrived')
    BY <1>1, <1>n, <2>3, <2>4
  <2> QED
    BY <2>0, <2>2, <2>5 DEF InOrder
<1> QED
  BY <1>2, <1>3, <1>4 DEF Routes!Next, Others

LEMMA EndingsStep ==
  ASSUME ArrivalsTyped, TableTyped, CallsTyped, Endings, Routes!Next
  PROVE  Endings'
<1>1. /\ phase = "running" => cause = "none"
      /\ phase # "running" => cause \in Stopped
      /\ cause = "leaves" => peer = "leaves" /\ transit = <<>>
      /\ returned # "not yet" => pending = <<>>
      /\ returned \in {"nil", "whole"} \cup Stopped => inbox = <<>> /\ phase = "done"
      /\ returned = "nil" => cause = "leaves"
      /\ ~running => counted = <<>> /\ calls = <<>> /\ pending = <<>> /\ returned = "not yet"
  BY DEF Endings
<1>2. CASE Routes!PeerWrites \/ Routes!PeerLeaves
  <2>1. UNCHANGED <<phase, cause, inbox, pending, returned, running, counted, calls>> /\ peer = "here"
    BY <1>2 DEF Routes!PeerWrites, Routes!PeerSends, Routes!PeerLeaves, Routes!PeerGoes, Routes!routing
  <2>2. cause # "leaves"
    BY <1>1, <2>1
  <2> QED
    BY <1>1, <2>1, <2>2 DEF Endings
<1>3. CASE Routes!StreamRuns
  <2>0. UNCHANGED <<pending, returned, running, counted, calls>>
    BY <1>3, StreamRunsAs
  <2>n. phase # "done" => returned \notin {"nil", "whole"} \cup Stopped
    BY <1>1
  <2>1. CASE Decodes
    <3>1. transit # <<>> /\ peer' = peer /\ inbox' = inbox /\ phase \in {"running", "stopping"}
      BY <2>1 DEF Decodes, Coordinating
    <3>2. Head(transit) \in Routed
      BY <3>1 DEF ArrivalsTyped
    <3>3. Head(transit).fate \in {"whole", "wrong"}
      BY <3>2 DEF Routed
    <3>4. \/ UNCHANGED <<cause, phase>>
          \/ phase' = "left" /\ cause' = IF phase = "running" THEN "wrong" ELSE cause
      BY <2>1, <3>3 DEF Decodes, Breaks, FirstCause
    <3>5. cause # "leaves"
      BY <1>1, <3>1
    <3> QED
      BY <1>1, <2>0, <2>n, <3>1, <3>4, <3>5 DEF Endings, Stopped
  <2>2. CASE Queues \/ Drops \/ Leaves
    <3>1. UNCHANGED <<transit, peer, cause>> /\ phase \in {"running", "stopping"}
          /\ (phase' = phase \/ (phase = "stopping" /\ phase' = "left"))
      BY <2>2 DEF Queues, Drops, Leaves, Coordinating
    <3> QED
      BY <1>1, <2>0, <2>n, <3>1 DEF Endings
  <2>3. CASE SeesThePeerGo
    <3>1. /\ phase = "running" /\ phase' = "stopping" /\ cause' = peer
          /\ peer \in {"leaves", "resets"} /\ (transit = <<>> \/ peer = "resets")
          /\ UNCHANGED <<transit, peer, inbox>>
      BY <2>3 DEF SeesThePeerGo, Ends, FirstCause, ArrivalsTyped
    <3> QED
      BY <1>1, <2>0, <2>n, <3>1 DEF Endings, Stopped
  <2>4. CASE Given
    <3>1. UNCHANGED <<transit, peer, inbox>>
      BY <2>4, GivenMoves
    <3>2. \/ phase = "running" /\ phase' = "left" /\ cause' = "unsent"
          \/ phase = "left" /\ phase' = "done" /\ cause' = cause
      BY <2>4, GivenMoves
    <3> QED
      BY <1>1, <2>0, <2>n, <3>1, <3>2 DEF Endings, Stopped
  <2> QED
    BY <1>3, <2>1, <2>2, <2>3, <2>4, StreamRunsAs
<1>5. CASE Routes!Cancel \/ Routes!Register \/ Routes!Fallback \/ Routes!Run
  <2>1. UNCHANGED <<transit, peer, inbox, cause, phase, pending, returned, counted, calls>>
        /\ running' \in {running, TRUE}
    BY <1>5, OthersOfStream DEF Others, Routes!Cancel, Routes!Register, Routes!Fallback, Routes!Run
  <2> QED
    BY <1>1, <2>1 DEF Endings
<1>6. CASE Routes!Receive
  <2>1. UNCHANGED <<transit, peer, cause, phase, running, returned>> /\ running /\ returned = "not yet"
    BY <1>6, SameInlet DEF Routes!Receive, Routes!Reading, TakesPacket
  <2> QED
    BY <1>1, <2>1 DEF Endings, Stopped
<1>7. CASE Routes!Handle
  <2>1. UNCHANGED <<transit, peer, inbox, cause, phase, running>> /\ pending # <<>>
        /\ (returned' = returned \/ (returned' = "handler" /\ pending' = <<>>))
    BY <1>7, OthersOfStream DEF Others, Routes!Handle, Routes!Fails, Routes!Succeeds
  <2>2. running /\ returned = "not yet"
    BY <1>1, <2>1 DEF TableTyped
  <2> QED
    BY <1>1, <2>1, <2>2 DEF Endings, Stopped
<1>8. CASE Routes!RunEnds
  <2>1. /\ UNCHANGED <<transit, peer, inbox, cause, phase, running, pending, counted, calls>>
        /\ running /\ pending = <<>>
        /\ \/ returned' = "cancelled"
           \/ inbox = <<>> /\ phase = "done" /\
              returned' = IF cause \in {"none", "leaves", "short"} THEN "nil" ELSE cause
    BY <1>8, OthersOfStream DEF Others, Routes!RunEnds, Routes!EndsWithStream, Routes!Reading,
       Routes!IsEOF
  <2> QED
    BY <1>1, <2>1 DEF Endings, Stopped
<1> QED
  BY <1>2, <1>3, <1>5, <1>6, <1>7, <1>8 DEF Routes!Next

LEMMA AsFunction ==
  ASSUME NEW S, NEW s \in Seq(S), NEW n, n = Len(s)
  PROVE  s = [i \in 1..n |-> s[i]]
OBVIOUS

(* One call goes from what is left to what is done.                                *)
LEMMA CallMoves ==
  ASSUME CallsTyped, pending # <<>>, NEW good \in BOOLEAN,
         calls' = Append(calls, [handler |-> Head(pending), packet |-> Len(counted), ok |-> good])
  PROVE  /\ Left # <<>> /\ Done' = Append(Done, Head(Left))
         /\ Tail(Left) = [j \in DOMAIN Tail(pending) |-> [handler |-> Tail(pending)[j], packet |-> Len(counted)]]
<1> DEFINE c == [handler |-> Head(pending), packet |-> Len(counted), ok |-> good]
           D == Done
           L == Left
           R == [j \in DOMAIN Tail(pending) |-> [handler |-> Tail(pending)[j], packet |-> Len(counted)]]
<1>1. /\ calls \in Seq(Calls) /\ pending \in Seq(Handlers) /\ Len(counted) \in Nat
      /\ Head(pending) \in Handlers /\ pending[1] = Head(pending)
      /\ Tail(pending) \in Seq(Handlers) /\ Len(Tail(pending)) = Len(pending) - 1
      /\ \A j \in 1..Len(Tail(pending)) : Tail(pending)[j] = pending[j + 1]
      /\ Len(pending) \in Nat /\ Len(pending) >= 1
  BY DEF CallsTyped
<1>2. D \in Seq(Duties) /\ Len(D) = Len(calls) /\ L \in Seq(Duties) /\ Len(L) = Len(pending)
  BY DoneTyped
<1>3. L # <<>> /\ Head(L) = [handler |-> Head(pending), packet |-> Len(counted)]
  <2>1. L[1] = [handler |-> pending[1], packet |-> Len(counted)]
    BY <1>1 DEF Left
  <2> HIDE DEF L
  <2> QED
    BY <1>1, <1>2, <2>1
<1>4. Done' = Append(D, Head(L))
  <2> DEFINE N == Done'
             h == [handler |-> Head(pending), packet |-> Len(counted)]
  <2>1. c \in Calls /\ c.handler = h.handler /\ c.packet = h.packet /\ h \in Duties
    BY <1>1 DEF Calls, Duties
  <2>2. /\ DOMAIN calls = 1..Len(calls) /\ DOMAIN calls' = 1..(Len(calls) + 1)
        /\ calls'[Len(calls) + 1] = c /\ \A i \in 1..Len(calls) : calls'[i] = calls[i]
        /\ Len(calls) \in Nat
    <3> HIDE DEF c
    <3>1. calls' = Append(calls, c)
      BY DEF c
    <3> QED
      BY <1>1, <2>1, <3>1
  <2>3. /\ N = [i \in DOMAIN calls' |-> N[i]]
        /\ \A i \in DOMAIN calls' : N[i] = [handler |-> calls'[i].handler, packet |-> calls'[i].packet]
    BY DEF Done
  <2>4. \A i \in DOMAIN calls : D[i] = [handler |-> calls[i].handler, packet |-> calls[i].packet]
    BY DEF Done
  <2> HIDE DEF N, D, c
  <2>5. \A i \in 1..Len(calls) : N[i] = D[i]
    <3>1. \A i \in 1..Len(calls) : i \in DOMAIN calls /\ i \in DOMAIN calls'
      BY <2>2
    <3> QED
      BY ZenonT(60), <2>2, <2>3, <2>4, <3>1
  <2>6. N[Len(calls) + 1] = h
    BY <2>1, <2>2, <2>3
  <2>7. N = [i \in 1..(Len(calls) + 1) |-> N[i]]
    BY <2>2, <2>3
  <2> HIDE DEF h
  <2>8. \A i \in 1..(Len(calls) + 1) : N[i] = Append(D, h)[i]
    BY <1>2, <2>1, <2>2, <2>5, <2>6
  <2>9. Append(D, h) = [i \in 1..(Len(calls) + 1) |-> Append(D, h)[i]]
    <3>1. Append(D, h) \in Seq(Duties) /\ Len(Append(D, h)) = Len(calls) + 1
      BY <1>2, <2>1
    <3> QED
      BY <3>1, AsFunction
  <2>10. N = Append(D, h)
    BY <2>7, <2>8, <2>9
  <2> QED
    BY <1>3, <2>10 DEF N, h
<1>5. Tail(L) = R
  <2>1. \A j \in 1..Len(pending) : L[j] = [handler |-> pending[j], packet |-> Len(counted)]
    BY <1>1 DEF Left
  <2>2. DOMAIN Tail(pending) = 1..(Len(pending) - 1)
    BY <1>1
  <2>3. R = [j \in 1..(Len(pending) - 1) |-> R[j]]
    BY <2>2
  <2>4. \A j \in 1..(Len(pending) - 1) : R[j] = [handler |-> pending[j + 1], packet |-> Len(counted)]
    BY <1>1, <2>2
  <2> HIDE DEF L, R
  <2>5. \A j \in 1..(Len(pending) - 1) : Tail(L)[j] = L[j + 1]
    BY <1>2, <1>3
  <2>6. Tail(L) = [j \in 1..(Len(pending) - 1) |-> Tail(L)[j]]
    <3>1. Tail(L) \in Seq(Duties) /\ Len(Tail(L)) = Len(pending) - 1
      BY <1>2, <1>3
    <3> QED
      BY <3>1, AsFunction
  <2>7. \A j \in 1..(Len(pending) - 1) : Tail(L)[j] = R[j]
    <3>1. \A j \in 1..(Len(pending) - 1) : j + 1 \in 1..Len(pending)
      BY <1>1
    <3> QED
      BY <2>1, <2>4, <2>5, <3>1
  <2> QED
    BY <2>3, <2>6, <2>7
<1> QED
  BY <1>3, <1>4, <1>5

LEMMA DoneAndLeftStep ==
  ASSUME RouteIInv, Routes!Next
  PROVE  DoneAndLeft'
<1>1. ArrivalsTyped /\ TableTyped /\ CallsTyped /\ InOrder /\ Endings /\ DoneAndLeft
  BY DEF RouteIInv
<1>2. /\ counted \in Seq(Keys) /\ Len(counted) \in Nat /\ calls \in Seq(Calls)
      /\ Done \in Seq(Duties) /\ Left \in Seq(Duties)
  BY <1>1, DoneTyped DEF CallsTyped
<1>d. ASSUME UNCHANGED <<counted, handlers, fallback>>
      PROVE  (Routes!Due(Len(counted)))' = Routes!Due(Len(counted))
  BY <1>d, DueIsFlat, DueIsFlatNext
<1>r. ASSUME UNCHANGED <<calls, pending, counted, handlers, fallback>>,
             returned' = returned \/ (returned # "handler" /\ returned' # "handler")
      PROVE  DoneAndLeft'
  <2>1. (Routes!Due(Len(counted)))' = Routes!Due(Len(counted))
    BY <1>r, <1>d
  <2>2. Done' = Done /\ Left' = Left
    BY <1>r DEF Done, Left
  <2>3. returned' = "handler" <=> returned = "handler"
    BY <1>r
  <2> QED
    BY <1>1, <1>r, <2>1, <2>2, <2>3 DEF DoneAndLeft
<1>4. CASE Routes!PeerWrites \/ Routes!PeerLeaves \/ Routes!StreamRuns
           \/ Routes!Cancel \/ Routes!Run
  <2>1. UNCHANGED <<calls, pending, counted, handlers, fallback, returned>>
    BY <1>4 DEF Routes!PeerWrites, Routes!PeerLeaves, Routes!StreamRuns,
       Routes!Cancel, Routes!Run, Routes!routing
  <2> QED
    BY <1>r, <2>1
<1>5. CASE Routes!RunEnds
  <2>1. UNCHANGED <<calls, pending, counted, handlers, fallback>>
    BY <1>5 DEF Routes!RunEnds
  <2>2. returned = "not yet" /\ returned' # "handler"
    BY <1>1, <1>5 DEF Routes!RunEnds, Routes!EndsWithStream, Routes!Reading, Routes!IsEOF, Endings,
       Stopped
  <2> QED
    BY <1>r, <2>1, <2>2
<1>6. CASE Routes!Register \/ Routes!Fallback
  <2>1. ~running /\ UNCHANGED <<calls, pending, counted, returned>>
    BY <1>6 DEF Routes!Register, Routes!Fallback
  <2>2. Len(counted) = 0 /\ returned = "not yet" /\ Len(counted') = 0
    <3>1. counted = <<>> /\ returned = "not yet"
      BY <1>1, <2>1 DEF Endings
    <3> QED
      BY <2>1, <3>1
  <2>3. Routes!Due(Len(counted)) = <<>>
    BY <2>2, DueIsFlat, NothingDue
  <2>4. (Routes!Due(Len(counted)))' = <<>>
    BY <2>2, DueIsFlatNext, NothingDue
  <2>5. Done' = Done /\ Left' = Left
    BY <2>1 DEF Done, Left
  <2> QED
    BY <1>1, <2>1, <2>2, <2>3, <2>4, <2>5 DEF DoneAndLeft
<1>7. CASE Routes!Receive
  <2> DEFINE n == Len(counted)
             x == Head(inbox)
  <2>1. /\ pending = <<>> /\ returned = "not yet" /\ inbox # <<>>
        /\ counted' = Append(counted, x) /\ pending' = Routes!Dispatched(x)
        /\ UNCHANGED <<calls, handlers, fallback, returned>>
    BY <1>7, SameInlet DEF Routes!Receive, Routes!Reading, TakesPacket
  <2>2. x \in Keys
    <3>1. inbox \in Seq(Keys) /\ inbox # <<>>
      BY <1>1, <2>1 DEF ArrivalsTyped
    <3> QED
      BY <3>1
  <2> HIDE DEF x
  <2>3. /\ Len(counted') = n + 1 /\ counted'[n + 1] = x /\ \A i \in 1..n : counted'[i] = counted[i]
        /\ \A i \in 1..(n + 1) : counted'[i] \in Keys
    <3> DEFINE more == Append(counted, x)
    <3>1. /\ Len(more) = n + 1 /\ more[n + 1] = x /\ \A i \in 1..n : more[i] = counted[i]
          /\ \A i \in 1..(n + 1) : more[i] \in Keys
      BY <1>2, <2>2
    <3> QED
      BY <2>1, <3>1
  <2>0. n \in Nat
    BY <1>2
  <2> HIDE DEF n
  <2>4. DueOf(handlers, fallback, counted', n + 1)
          = DueOf(handlers, fallback, counted', n) \o RowOf(handlers, fallback, x, n + 1)
    <3>1. TableOf(handlers, fallback)
      BY <1>1 DEF TableTyped, TableOf
    <3> QED
      BY <2>0, <2>3, <3>1, DueGrows
  <2>5. DueOf(handlers, fallback, counted', n) = DueOf(handlers, fallback, counted, n)
    BY <2>0, <2>3, DueStays
  <2>6. Left' = RowOf(handlers, fallback, x, n + 1)
    <3>1. Routes!Dispatched(x) = IF handlers[x] # <<>> THEN handlers[x]
                                 ELSE IF fallback # NoHandler THEN <<fallback>> ELSE <<>>
      BY DEF Routes!Dispatched
    <3> QED
      BY <2>1, <2>3, <3>1 DEF Left, RowOf
  <2>7. Done' = Done
    BY <2>1 DEF Done
  <2>8. Done = Routes!Due(n)
    <3>1. Left = <<>>
      <4>1. Len(pending) = 0
        BY <2>1
      <4> QED
        BY <1>1, <1>2, <4>1, DoneTyped
    <3>2. Done \o Left = Routes!Due(n)
      BY <1>1, <2>1 DEF DoneAndLeft, n
    <3>3. Done \o <<>> = Done
      BY <1>2
    <3> QED
      BY <3>1, <3>2, <3>3
  <2>9. (Routes!Due(Len(counted)))' = DueOf(handlers, fallback, counted', n + 1)
    BY <2>1, <2>3, DueIsFlatNext
  <2>10. Routes!Due(n) = DueOf(handlers, fallback, counted, n)
    BY DueIsFlat
  <2>11. Done' \o Left' = (Routes!Due(Len(counted)))'
    BY <2>4, <2>5, <2>6, <2>7, <2>8, <2>9, <2>10
  <2> QED
    BY <1>1, <2>1, <2>11 DEF DoneAndLeft
<1>8. CASE Routes!Handle
  <2>1. pending # <<>> /\ UNCHANGED <<fallback, counted, running>>
    BY <1>8 DEF Routes!Handle
  <2>2. running /\ returned = "not yet"
    BY <1>1, <2>1 DEF Endings, TableTyped
  <2>3. handlers' = handlers
    BY <1>1, <1>8, <2>2, TableTypedStep
  <2>4. (Routes!Due(Len(counted)))' = Routes!Due(Len(counted))
    BY <1>d, <2>1, <2>3
  <2>5. Done \o Left = Routes!Due(Len(counted)) /\ \A i \in DOMAIN calls : calls[i].ok
    BY <1>1, <2>2 DEF DoneAndLeft
  <2>6. ASSUME NEW good \in BOOLEAN,
               calls' = Append(calls, [handler |-> Head(pending), packet |-> Len(counted), ok |-> good])
        PROVE  /\ Done' \o Tail(Left) = Routes!Due(Len(counted)) /\ Tail(Left) \in Seq(Duties)
               /\ Tail(Left) = [j \in DOMAIN Tail(pending) |->
                                  [handler |-> Tail(pending)[j], packet |-> Len(counted)]]
               /\ \A i \in DOMAIN calls' : calls'[i].ok \/ (i = Len(calls') /\ ~good)
    <3>1. /\ Left # <<>> /\ Done' = Append(Done, Head(Left))
          /\ Tail(Left) = [j \in DOMAIN Tail(pending) |->
                             [handler |-> Tail(pending)[j], packet |-> Len(counted)]]
      BY <1>1, <2>1, <2>6, CallMoves
    <3>2. Append(Done, Head(Left)) \o Tail(Left) = Done \o Left
      BY <1>2, <3>1, MoveHead
    <3>3. Tail(Left) \in Seq(Duties)
      BY <1>2, <3>1
    <3>4. \A i \in DOMAIN calls' : calls'[i].ok \/ (i = Len(calls') /\ ~good)
      <4> DEFINE c == [handler |-> Head(pending), packet |-> Len(counted), ok |-> good]
      <4>1. c.ok = good
        OBVIOUS
      <4>2. c \in Calls
        BY <1>1, <1>2, <2>1 DEF CallsTyped, Calls
      <4> HIDE DEF c
      <4>3. calls' = Append(calls, c)
        BY <2>6 DEF c
      <4>4. /\ DOMAIN calls = 1..Len(calls) /\ DOMAIN calls' = 1..(Len(calls) + 1)
            /\ Len(calls') = Len(calls) + 1 /\ Len(calls) \in Nat
            /\ calls'[Len(calls) + 1] = c /\ \A i \in 1..Len(calls) : calls'[i] = calls[i]
        BY <1>2, <4>2, <4>3
      <4>5. ASSUME NEW i \in DOMAIN calls', ~(i = Len(calls') /\ ~good) PROVE calls'[i].ok
        <5>1. CASE i = Len(calls) + 1
          BY <4>1, <4>4, <4>5, <5>1
        <5>2. CASE i # Len(calls) + 1
          BY <2>5, <4>4, <5>2
        <5> QED
          BY <5>1, <5>2
      <4> QED
        BY <4>5
    <3> QED
      BY <2>5, <3>1, <3>2, <3>3, <3>4
  <2>7. CASE Routes!Fails
    <3>1. /\ returned' = "handler"
          /\ calls' = Append(calls, [handler |-> Head(pending), packet |-> Len(counted), ok |-> FALSE])
      BY <2>7 DEF Routes!Fails
    <3>2. /\ Done' \o Tail(Left) = Routes!Due(Len(counted)) /\ Tail(Left) \in Seq(Duties)
          /\ \A i \in DOMAIN calls' : calls'[i].ok \/ i = Len(calls')
      BY <2>6, <3>1
    <3> QED
      BY <2>4, <3>1, <3>2 DEF DoneAndLeft
  <2>8. CASE Routes!Succeeds
    <3>1. /\ returned' = returned /\ pending' = Tail(pending)
          /\ calls' = Append(calls, [handler |-> Head(pending), packet |-> Len(counted), ok |-> TRUE])
      BY <2>8 DEF Routes!Succeeds
    <3>2. /\ Done' \o Tail(Left) = Routes!Due(Len(counted))
          /\ Tail(Left) = [j \in DOMAIN Tail(pending) |->
                             [handler |-> Tail(pending)[j], packet |-> Len(counted)]]
          /\ \A i \in DOMAIN calls' : calls'[i].ok
      BY <2>6, <3>1
    <3>3. Left' = Tail(Left)
      BY <2>1, <3>1, <3>2 DEF Left
    <3> QED
      BY <2>2, <2>4, <3>1, <3>2, <3>3 DEF DoneAndLeft
  <2> QED
    BY <1>8, <2>7, <2>8 DEF Routes!Handle
<1> QED
  BY <1>4, <1>5, <1>6, <1>7, <1>8 DEF Routes!Next

LEMMA RouteStep ==
  ASSUME RouteIInv, Routes!Next
  PROVE  RouteIInv'
<1>1. ArrivalsTyped /\ TableTyped /\ CallsTyped /\ InOrder /\ Endings
  BY DEF RouteIInv
<1>2. ArrivalsTyped' /\ TableTyped' /\ CallsTyped'
  BY <1>1, ArrivalsTypedStep, TableTypedStep, CallsTypedStep
<1>3. InOrder' /\ Endings' /\ DoneAndLeft'
  BY <1>1, InOrderStep, EndingsStep, DoneAndLeftStep
<1> QED
  BY <1>2, <1>3 DEF RouteIInv

(* What a router reports follows from the invariant.                               *)
LEMMA RouteReports ==
  ASSUME RouteIInv
  PROVE  /\ Routes!TypeOK /\ Routes!CountsInOrder /\ Routes!HandledAsRegistered
         /\ Routes!EndsHavingHandledAll /\ Routes!NilMeansClean
<1>1. ArrivalsTyped /\ TableTyped /\ CallsTyped /\ InOrder /\ Endings /\ DoneAndLeft
  BY DEF RouteIInv
<1>2. /\ MaxHandlers \in Nat /\ MaxRouted \in Nat /\ Len(counted) \in Nat
      /\ Len(arrived) \in Nat /\ Len(inbox) \in Nat /\ Len(transit) \in Nat /\ Len(held) \in Nat
      /\ Len(arrived) + Len(transit) <= MaxRouted
      /\ Len(counted) + Len(inbox) + Len(held) <= Len(arrived)
  BY <1>1, RoutesAssumption DEF Routes!RouterAssumption, ArrivalsTyped, CallsTyped, InOrder
<1>3. Done \in Seq(Duties) /\ Left \in Seq(Duties) /\ Len(Done) = Len(calls) /\ Len(Left) = Len(pending)
  BY <1>1, DoneTyped
<1>4. Routes!TypeOK
  <2>1. handlers \in [Keys -> UNION {[1..n -> Handlers] : n \in 0..MaxHandlers}]
    <3>1. ASSUME NEW key \in Keys
          PROVE  handlers[key] \in UNION {[1..n -> Handlers] : n \in 0..MaxHandlers}
      <4> DEFINE n == Len(handlers[key])
      <4>1. handlers[key] \in Seq(Handlers) /\ n <= MaxHandlers
        BY <1>1 DEF TableTyped
      <4>2. handlers[key] \in [1..n -> Handlers] /\ n \in Nat
        BY <4>1
      <4>3. n \in 0..MaxHandlers
        BY <1>2, <4>1, <4>2
      <4> HIDE DEF n
      <4> QED
        BY <4>2, <4>3
    <3>2. DOMAIN handlers = Keys /\ handlers = [key \in Keys |-> handlers[key]]
      BY <1>1 DEF TableTyped
    <3> QED
      BY <3>1, <3>2
  <2>2. \A i \in DOMAIN pending : pending[i] \in Handlers
    BY <1>1 DEF CallsTyped
  <2>3. fallback \in Handlers \cup {NoHandler} /\ running \in BOOLEAN /\ cancelled \in BOOLEAN
    BY <1>1 DEF TableTyped
  <2>4. Len(counted) \in 0..MaxRouted
    BY <1>2
  <2>5. returned \in Ahead
    BY <1>1 DEF CallsTyped
  <2> QED
    BY <2>1, <2>2, <2>3, <2>4, <2>5 DEF Routes!TypeOK, Ahead, Stopped
<1>5. Routes!HandledAsRegistered
  <2>1. PICK rest \in Seq(Duties) : Done \o rest = Routes!Due(Len(counted))
    BY <1>1, <1>3 DEF DoneAndLeft
  <2>2. \A i \in DOMAIN calls : calls[i].ok \/ i = Len(calls)
    BY <1>1 DEF DoneAndLeft
  <2> DEFINE D == Done
  <2>3. Routes!IsPrefix(D, D \o rest)
    <3>1. D \in Seq(Duties)
      BY <1>3
    <3> HIDE DEF D
    <3>2. /\ D \o rest \in Seq(Duties) /\ Len(D) \in Nat /\ Len(rest) \in Nat
          /\ Len(D \o rest) = Len(D) + Len(rest)
          /\ \A i \in 1..Len(D) : (D \o rest)[i] = D[i]
      BY <3>1
    <3>3. Len(D) <= Len(D \o rest)
      BY <3>2
    <3>4. /\ SubSeq(D, 1, Len(D)) \in Seq(Duties) /\ Len(SubSeq(D, 1, Len(D))) = Len(D)
          /\ \A i \in 1..Len(D) : SubSeq(D, 1, Len(D))[i] = D[i]
      BY <3>1, <3>2
    <3>5. /\ SubSeq(D \o rest, 1, Len(D)) \in Seq(Duties) /\ Len(SubSeq(D \o rest, 1, Len(D))) = Len(D)
          /\ \A i \in 1..Len(D) : SubSeq(D \o rest, 1, Len(D))[i] = D[i]
      <4> DEFINE E == D \o rest
      <4>1. E \in Seq(Duties) /\ Len(E) \in Nat /\ Len(D) <= Len(E) /\ \A i \in 1..Len(D) : E[i] = D[i]
        BY <3>2, <3>3
      <4> HIDE DEF E
      <4>2. /\ SubSeq(E, 1, Len(D)) \in Seq(Duties) /\ Len(SubSeq(E, 1, Len(D))) = Len(D)
            /\ \A i \in 1..Len(D) : SubSeq(E, 1, Len(D))[i] = E[i]
        BY <3>2, <4>1
      <4> QED
        BY <4>1, <4>2 DEF E
    <3>6. SubSeq(D, 1, Len(D)) = [i \in 1..Len(D) |-> D[i]]
      <4>1. SubSeq(D, 1, Len(D)) = [i \in 1..Len(D) |-> SubSeq(D, 1, Len(D))[i]]
        BY <3>4, AsFunction
      <4> QED
        BY <3>4, <4>1
    <3>7. SubSeq(D \o rest, 1, Len(D)) = [i \in 1..Len(D) |-> D[i]]
      <4>1. SubSeq(D \o rest, 1, Len(D)) = [i \in 1..Len(D) |-> SubSeq(D \o rest, 1, Len(D))[i]]
        BY <3>5, AsFunction
      <4> QED
        BY <3>5, <4>1
    <3> QED
      BY <3>3, <3>6, <3>7 DEF Routes!IsPrefix
  <2> QED
    BY <2>1, <2>2, <2>3 DEF Routes!HandledAsRegistered, Done
<1>6. Routes!EndsHavingHandledAll
  <2>1. SUFFICES ASSUME returned \notin {"not yet", "handler", "cancelled"}
                 PROVE  inbox = <<>> /\ Len(calls) = Len(Routes!Due(Len(counted)))
    BY DEF Routes!EndsHavingHandledAll
  <2>2. inbox = <<>> /\ pending = <<>> /\ returned # "handler"
    BY <1>1, <2>1 DEF Endings, CallsTyped, Ahead
  <2>4. Done \o Left = Routes!Due(Len(counted))
    BY <1>1, <2>2 DEF DoneAndLeft
  <2>5. Len(Done \o Left) = Len(calls)
    <3>1. Len(pending) = 0
      BY <2>2
    <3> DEFINE D == Done
               L == Left
    <3>2. D \in Seq(Duties) /\ L \in Seq(Duties) /\ Len(D) = Len(calls) /\ Len(L) = 0
      BY <1>3, <3>1
    <3> HIDE DEF D, L
    <3>3. Len(D \o L) = Len(calls)
      BY <3>2
    <3> QED
      BY <3>3 DEF D, L
  <2> QED
    BY <2>2, <2>4, <2>5
<1>7. Routes!NilMeansClean
  BY <1>1 DEF Endings, Routes!NilMeansClean
<1>8. Routes!CountsInOrder
  <2>1. ReadsInOrder(counted)
    BY <1>1, FollowsIsOrder DEF ArrivalsTyped, CallsTyped, InOrder
  <2> QED
    BY <2>1, SameInlet DEF Routes!CountsInOrder
<1> QED
  BY <1>4, <1>5, <1>6, <1>7, <1>8
-----------------------------------------------------------------------------
(* What a command says of a session, and what a router has done, is so.             *)
CommandsIInv ==
  /\ part \in {"command", "route"}
  /\ part = "command" => ServeIInv
  /\ part = "route" => RouteIInv

LEMMA ServeReports ==
  ASSUME ServeIInv
  PROVE  /\ Command = "serve" => TypeOK /\ CountsWhatArrived
         /\ Command = "serve" /\ OnlyListens => FindingsAreReported /\ FailuresAreFindings
         /\ FileOutlivesStream
<1>1. setting \in Settings /\ StreamTyped /\ ReportTyped /\ Counting /\ Finding /\ Keeping
  BY DEF ServeIInv
<1>2. TypeOK
  <2>1. summary.written \in Nat /\ summary.mismatches \in Nat /\ step \in 0..Len(Script)
        /\ Len(Script) \in Nat /\ summary.written + summary.mismatches <= step
    BY <1>1, SettingTyped DEF ReportTyped, Summaries
  <2>2. summary.written + summary.mismatches \in 0..Len(Script)
    BY <2>1
  <2>3. sink.kept \in 0..sink.observed
    <3>1. sink \in Sinks /\ sink.kept <= sink.observed
      BY <1>1 DEF ReportTyped
    <3>2. sink.kept \in Nat /\ sink.observed \in Nat
      BY <3>1 DEF Sinks
    <3> QED
      BY <3>1, <3>2
  <2> QED
    BY <1>1, <2>2, <2>3 DEF TypeOK, StreamTyped, ReportTyped, Stages, Phases
<1>3. CountsWhatArrived
  <2>1. CASE served
    <3> DEFINE Read == <<"login">> \o summary.read
    <3>1. /\ inbox \in Seq(Packets) /\ held \in Seq(Packets) /\ arrived \in Seq(Packets)
          /\ Follows(Read, inbox, held, arrived, phase = "running")
      BY <1>1, <2>1 DEF StreamTyped, Counting, Counted
    <3>2. Read \in Seq(Packets)
      <4>1. summary.read \in Seq(Packets) /\ "login" \in Packets
        BY <1>1 DEF ReportTyped, Summaries, Packets
      <4> QED
        BY <4>1
    <3> HIDE DEF Read
    <3>3. ReadsInOrder(Read)
      BY <3>1, <3>2, FollowsIsOrder
    <3> QED
      BY <3>3 DEF CountsWhatArrived, Read
  <2> QED
    BY <2>1 DEF CountsWhatArrived
<1>4. FileOutlivesStream
  BY <1>1 DEF Keeping, FileOutlivesStream
<1> QED
  BY <1>1, <1>2, <1>3, <1>4 DEF Finding

LEMMA CommandsStart == CommandsInit => CommandsIInv
BY ServeStarts, RouteStarts DEF CommandsInit, CommandsIInv

LEMMA ServeStutters ==
  ASSUME UNCHANGED vars, ServeIInv
  PROVE  ServeIInv'
<1>1. /\ setting' = setting /\ UNCHANGED <<transit, peer, held, inbox, cause, phase, arrived, sink>>
      /\ UNCHANGED <<at, step, served, summary, printed, keepAlives, interrupted, sessions>>
  BY DEF vars, inlet, harness
<1>2. /\ Command' = Command /\ Script' = Script /\ Fates' = Fates /\ Goings' = Goings
      /\ MaxKeepAlives' = MaxKeepAlives /\ MaxSessions' = MaxSessions
      /\ (OnlyListens' <=> OnlyListens) /\ Frames' = Frames
  BY <1>1, SettingStays DEF Frames
<1>3. setting \in Settings /\ StreamTyped /\ ReportTyped /\ Counting /\ Finding /\ Keeping
  BY DEF ServeIInv
<1>4. StreamTyped'
  BY <1>1, <1>2, <1>3 DEF StreamTyped
<1>5. ReportTyped'
  BY <1>1, <1>2, <1>3 DEF ReportTyped
<1>6. Counting'
  BY <1>1, <1>3 DEF Counting, Counted
<1>7. Finding'
  BY <1>1, <1>2, <1>3 DEF Finding, FindingsAreReported, FailuresAreFindings
<1>8. Keeping'
  BY <1>1, <1>2, <1>3 DEF Keeping, FileOutlivesStream
<1> QED
  BY <1>1, <1>3, <1>4, <1>5, <1>6, <1>7, <1>8 DEF ServeIInv

LEMMA RouteStutters ==
  ASSUME UNCHANGED <<vars, routing>>, RouteIInv
  PROVE  RouteIInv'
<1>1. /\ UNCHANGED <<transit, peer, held, inbox, cause, phase, arrived>>
      /\ UNCHANGED <<handlers, fallback, running, pending, counted, calls, returned, cancelled>>
  BY DEF vars, inlet, routing
<1>2. (Routes!Due(Len(counted)))' = Routes!Due(Len(counted))
  BY <1>1, DueIsFlat, DueIsFlatNext
<1>3. Done' = Done /\ Left' = Left
  BY <1>1 DEF Done, Left
<1>4. DoneAndLeft'
  BY <1>1, <1>2, <1>3 DEF RouteIInv, DoneAndLeft
<1> QED
  BY <1>1, <1>4 DEF RouteIInv, ArrivalsTyped, TableTyped, CallsTyped, InOrder, Endings

LEMMA CommandsStep ==
  ASSUME CommandsIInv, [CommandsNext]_<<part, vars, routing>>
  PROVE  CommandsIInv'
<1>1. CASE CommandsNext
  <2>1. part' = part
    BY <1>1 DEF CommandsNext
  <2>2. part = "command" => ServeIInv'
    BY <1>1, ServeStep DEF CommandsIInv, CommandsNext
  <2>3. part = "route" => RouteIInv'
    BY <1>1, RouteStep DEF CommandsIInv, CommandsNext
  <2> QED
    BY <2>1, <2>2, <2>3 DEF CommandsIInv
<1>2. CASE UNCHANGED <<part, vars, routing>>
  BY <1>2, ServeStutters, RouteStutters DEF CommandsIInv
<1> QED
  BY <1>1, <1>2

LEMMA CommandsReport == CommandsIInv => ReportsAreTrue
<1>1. ASSUME CommandsIInv, part = "command"
      PROVE  /\ Command = "serve" => TypeOK /\ CountsWhatArrived
             /\ Command = "serve" /\ OnlyListens => FindingsAreReported /\ FailuresAreFindings
             /\ FileOutlivesStream
  BY <1>1, ServeReports DEF CommandsIInv
<1>2. ASSUME CommandsIInv, part = "route"
      PROVE  /\ Routes!TypeOK /\ Routes!CountsInOrder /\ Routes!HandledAsRegistered
             /\ Routes!EndsHavingHandledAll /\ Routes!NilMeansClean
  BY <1>2, RouteReports DEF CommandsIInv
<1> QED
  BY <1>1, <1>2 DEF ReportsAreTrue

(* For any script, client, bounds and handlers: what `serve` counts is what arrived, in  *)
(* its order, but for what the stream lost at its end; where it only listens it reports   *)
(* all that could not be read and nothing else; the file of a capture outlives its        *)
(* stream; and a router has run, in order, what was registered for each packet that the   *)
(* stream queued, and returns nil only behind a peer that left (serve.go 29-31, 552-554;  *)
(* capture.go 169-172; router.go 83-85, 137-138, 189, 255-256).                     *)
THEOREM SpecReportsAreTrue == CommandsSpec => []ReportsAreTrue
<1>1. CommandsInit => CommandsIInv
  BY CommandsStart
<1>2. CommandsIInv /\ [CommandsNext]_<<part, vars, routing>> => CommandsIInv'
  BY CommandsStep
<1>3. CommandsIInv => ReportsAreTrue
  BY CommandsReport
<1> QED
  BY <1>1, <1>2, <1>3, PTL DEF CommandsSpec
=============================================================================
