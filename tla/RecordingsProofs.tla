--------------------------- MODULE RecordingsProofs ---------------------------
(***************************************************************************)
(* The ring keeps the end of its log, and a fetch never loses a tree, for every  *)
(* bound of the ring and any number of fetches.                               *)
(***************************************************************************)
EXTENDS MCRecordings, SumProofs

Busy == {"download", "inspect", "clear", "move aside", "place"}

FetchTyped ==
  /\ output \in Fetch!Tree /\ previous \in Fetch!Tree /\ staging \in Fetch!Tree
  /\ fetches \in 0..MaxFetches
  /\ step \in Busy \union {"clean", "idle"}

(* The tree in place is whole and newer than the one beside it; while a fetch is on  *)
(* its way both are older than the one it stages.                              *)
TreesInOrder ==
  /\ output # Fetch!NoTree => output.whole /\ output.number \in 1..fetches
  /\ previous # Fetch!NoTree => previous.number \in 1..fetches
  /\ output # Fetch!NoTree => previous.number < output.number
  /\ step \in Busy => output.number < fetches /\ previous.number < fetches

(* What each step of swap finds; a tree that was moved aside is whole, so that it   *)
(* can be moved back.                                                          *)
StepsFind ==
  /\ step = "download" => staging = [number |-> fetches, whole |-> FALSE]
  /\ step \in Busy \ {"download"} => staging = [number |-> fetches, whole |-> TRUE]
  /\ step \in {"clear", "move aside"} => output # Fetch!NoTree /\ aside
  /\ step = "move aside" => previous = Fetch!NoTree
  /\ step = "place" => output = Fetch!NoTree /\ (aside => previous.whole)
  /\ step = "clean" => output # Fetch!NoTree /\ output.number = fetches

ReturnsDone ==
  /\ returned = "done" => /\ step = "idle"
                          /\ output.number = fetches /\ (aside => previous = Fetch!NoTree)
  /\ step # "idle" => returned = "nothing"

FetchIInv == FetchTyped /\ TreesInOrder /\ StepsFind /\ ReturnsDone

(* Trees as records.                                                           *)
LEMMA FetchesCount == MaxFetches \in Nat
BY FetchesAssumption DEF Fetch!FetchAssumption
LEMMA Nothing == Fetch!NoTree \in Fetch!Tree /\ Fetch!NoTree.number = 0 /\ ~Fetch!NoTree.whole
<1>1. Fetch!NoTree \in Fetch!Tree
  BY FetchesCount DEF Fetch!Tree, Fetch!NoTree
<1>2. Fetch!NoTree.number = 0
  BY DEF Fetch!NoTree
<1>3. ~Fetch!NoTree.whole
  BY DEF Fetch!NoTree
<1> QED BY <1>1, <1>2, <1>3

LEMMA Wear ==
  ASSUME NEW t \in Fetch!Tree, NEW b \in BOOLEAN
  PROVE  /\ [t EXCEPT !.whole = b] \in Fetch!Tree
         /\ [t EXCEPT !.whole = b].number = t.number
         /\ [t EXCEPT !.whole = b].whole = b
BY DEF Fetch!Tree

LEMMA Removal ==
  ASSUME NEW t \in Fetch!Tree, NEW r \in Fetch!Removed(t)
  PROVE  r = Fetch!NoTree \/ (r \in Fetch!Tree /\ r.number = t.number)
<1>1. r = Fetch!NoTree \/ r = [t EXCEPT !.whole = FALSE]
  BY DEF Fetch!Removed
<1> QED BY <1>1, Wear

LEMMA Staged ==
  ASSUME NEW n, NEW b \in BOOLEAN
  PROVE [[number |-> n, whole |-> FALSE] EXCEPT !.whole = b] = [number |-> n, whole |-> b]
OBVIOUS

-----------------------------------------------------------------------------
(* Each call of a fetch keeps the invariant.                                    *)
LEMMA NextFetchClear == FetchIInv /\ Fetch!Clear => FetchIInv'
<1> SUFFICES ASSUME FetchIInv, Fetch!Clear PROVE FetchIInv'
  OBVIOUS
<1> USE FetchesCount, Nothing DEF FetchIInv, Fetch!Clear
<1>1. /\ step = "clear" /\ UNCHANGED <<output, aside, fetches>>
      /\ output \in Fetch!Tree /\ output # Fetch!NoTree
  BY DEF FetchTyped, StepsFind
<1>2. CASE previous = Fetch!NoTree /\ step' = "move aside" /\ UNCHANGED <<previous, returned, staging>>
  <2>2. FetchTyped'
    BY <1>1, <1>2 DEF FetchTyped, Busy
  <2>3. TreesInOrder'
    BY <1>1, <1>2 DEF TreesInOrder, Busy, FetchTyped
  <2>6. aside
    BY <1>1 DEF StepsFind
  <2>1. aside' = aside
    BY <1>1
  <2>4. StepsFind'
    <3>1. step' = "move aside" /\ step' \in Busy \ {"download"}
      BY <1>2 DEF Busy
    <3>2. staging' = [number |-> fetches', whole |-> TRUE]
      BY <1>1, <1>2 DEF StepsFind, Busy
    <3> QED
      BY <1>1, <1>2, <2>6, <2>1, <3>1, <3>2 DEF StepsFind
  <2>5. ReturnsDone'
    BY <1>1, <1>2 DEF ReturnsDone
  <2> QED BY <2>2, <2>3, <2>4, <2>5
<1>3. CASE previous' \in Fetch!Removed(previous) /\ UNCHANGED <<step, returned, staging>> /\ previous # Fetch!NoTree
  <2>1. previous' = Fetch!NoTree \/ (previous' \in Fetch!Tree /\ previous'.number = previous.number)
    BY <1>3, Removal DEF FetchTyped
  <2>2. FetchTyped'
    BY <1>1, <1>3, <2>1 DEF FetchTyped
  <2>3. TreesInOrder'
    BY <1>1, <1>3, <2>1 DEF TreesInOrder, Busy, FetchTyped
  <2>4. StepsFind'
    BY <1>1, <1>3, <2>1 DEF StepsFind, Busy
  <2> QED BY <2>2, <2>3, <2>4, <1>1, <1>3 DEF ReturnsDone
<1>4. CASE UNCHANGED previous /\ Fetch!Return("error")
  BY <1>1, <1>4 DEF FetchTyped, TreesInOrder, StepsFind, ReturnsDone, Busy, Fetch!Return
<1> QED
  BY <1>2, <1>3, <1>4

LEMMA NextFetchClean == FetchIInv /\ Fetch!Clean => FetchIInv'
<1> SUFFICES ASSUME FetchIInv, Fetch!Clean PROVE FetchIInv'
  OBVIOUS
<1> USE FetchesCount, Nothing DEF FetchIInv, Fetch!Clean
<1>1. /\ step = "clean" /\ UNCHANGED <<output, aside, fetches>>
      /\ output \in Fetch!Tree /\ output # Fetch!NoTree /\ output.number = fetches
  BY DEF FetchTyped, StepsFind
<1>2. CASE previous = Fetch!NoTree /\ Fetch!Return("done") /\ UNCHANGED previous
  <2>2. FetchTyped'
    BY <1>1, <1>2 DEF FetchTyped, Busy, Fetch!Return
  <2>3. TreesInOrder'
    BY <1>1, <1>2 DEF TreesInOrder, Busy, FetchTyped, Fetch!Return
  <2>4. StepsFind'
    BY <1>1, <1>2 DEF StepsFind, Busy, Fetch!Return
  <2>5. ReturnsDone'
    BY <1>1, <1>2 DEF ReturnsDone, Fetch!Return
  <2> QED BY <2>2, <2>3, <2>4, <2>5
<1>3. CASE previous' \in Fetch!Removed(previous) /\ UNCHANGED <<step, returned, staging>> /\ previous # Fetch!NoTree
  <2>1. previous' = Fetch!NoTree \/ (previous' \in Fetch!Tree /\ previous'.number = previous.number)
    BY <1>3, Removal DEF FetchTyped
  <2>2. FetchTyped'
    BY <1>1, <1>3, <2>1 DEF FetchTyped, Busy, Fetch!Return
  <2>3. TreesInOrder'
    BY <1>1, <1>3, <2>1 DEF TreesInOrder, Busy, FetchTyped, Fetch!Return
  <2>4. StepsFind'
    BY <1>1, <1>3, <2>1 DEF StepsFind, Busy, Fetch!Return
  <2>5. ReturnsDone'
    BY <1>1, <1>3, <2>1 DEF ReturnsDone, Fetch!Return
  <2> QED BY <2>2, <2>3, <2>4, <2>5
<1>4. CASE UNCHANGED previous /\ Fetch!Return("error")
  <2>2. FetchTyped'
    BY <1>1, <1>4 DEF FetchTyped, Busy, Fetch!Return
  <2>3. TreesInOrder'
    BY <1>1, <1>4 DEF TreesInOrder, Busy, FetchTyped, Fetch!Return
  <2>4. StepsFind'
    BY <1>1, <1>4 DEF StepsFind, Busy, Fetch!Return
  <2>5. ReturnsDone'
    BY <1>1, <1>4 DEF ReturnsDone, Fetch!Return
  <2> QED BY <2>2, <2>3, <2>4, <2>5
<1> QED
  BY <1>2, <1>3, <1>4

LEMMA NextFetchPlace == FetchIInv /\ Fetch!Place => FetchIInv'
<1> SUFFICES ASSUME FetchIInv, Fetch!Place PROVE FetchIInv'
  OBVIOUS
<1> USE FetchesCount, Nothing DEF FetchIInv, Fetch!Place
<1>1. /\ step = "place" /\ UNCHANGED <<aside, fetches>> /\ output = Fetch!NoTree
      /\ staging = [number |-> fetches, whole |-> TRUE]
  BY DEF StepsFind, Busy
<1>2. staging \in Fetch!Tree /\ staging.number = fetches /\ staging.whole /\ fetches >= 1 /\ staging # Fetch!NoTree
  <2>1. output.number < fetches
    BY <1>1 DEF TreesInOrder, Busy
  <2>2. fetches \in Nat /\ fetches >= 1
    BY <2>1, <1>1 DEF FetchTyped
  <2>3. staging \in Fetch!Tree
    BY <1>1 DEF FetchTyped, Fetch!Tree
  <2> QED BY <1>1, <2>2, <2>3
<1> HIDE DEF Fetch!Place
<1>3. CASE output' = staging /\ UNCHANGED previous /\ aside /\ step' = "clean" /\ staging' = Fetch!NoTree /\ UNCHANGED returned
  <2>2. FetchTyped'
    BY <1>1, <1>2, <1>3 DEF FetchTyped, Busy, Fetch!Return
  <2>3. TreesInOrder'
    BY <1>1, <1>2, <1>3 DEF TreesInOrder, Busy, FetchTyped, Fetch!Return
  <2>4. StepsFind'
    BY <1>1, <1>2, <1>3 DEF StepsFind, Busy, Fetch!Return
  <2>5. ReturnsDone'
    BY <1>1, <1>2, <1>3 DEF ReturnsDone, Fetch!Return
  <2> QED BY <2>2, <2>3, <2>4, <2>5
<1>4. CASE output' = staging /\ UNCHANGED previous /\ ~aside /\ Fetch!Return("done")
  <2>2. FetchTyped'
    BY <1>1, <1>2, <1>4 DEF FetchTyped, Busy, Fetch!Return
  <2>3. TreesInOrder'
    BY <1>1, <1>2, <1>4 DEF TreesInOrder, Busy, FetchTyped, Fetch!Return
  <2>4. StepsFind'
    BY <1>1, <1>2, <1>4 DEF StepsFind, Busy, Fetch!Return
  <2>5. ReturnsDone'
    BY <1>1, <1>2, <1>4 DEF ReturnsDone, Fetch!Return
  <2> QED BY <2>2, <2>3, <2>4, <2>5
<1>5. CASE Fetch!Return("error") /\ aside /\ output' = previous /\ previous' = Fetch!NoTree
  <2>1. output'.whole
    BY <1>1, <1>5 DEF StepsFind
  <2>2. FetchTyped'
    BY <1>1, <1>2, <1>5 DEF FetchTyped, Busy, Fetch!Return
  <2>3. TreesInOrder'
    BY <1>1, <1>2, <1>5, <2>1 DEF TreesInOrder, Busy, FetchTyped, Fetch!Return
  <2>4. StepsFind'
    BY <1>1, <1>2, <1>5 DEF StepsFind, Busy, Fetch!Return
  <2>5. ReturnsDone'
    BY <1>1, <1>2, <1>5 DEF ReturnsDone, Fetch!Return
  <2> QED BY <2>2, <2>3, <2>4, <2>5
<1>6. CASE Fetch!Return("error") /\ UNCHANGED <<output, previous>>
  <2>2. FetchTyped'
    BY <1>1, <1>2, <1>6 DEF FetchTyped, Busy, Fetch!Return
  <2>3. TreesInOrder'
    BY <1>1, <1>2, <1>6 DEF TreesInOrder, Busy, FetchTyped, Fetch!Return
  <2>4. StepsFind'
    BY <1>1, <1>2, <1>6 DEF StepsFind, Busy, Fetch!Return
  <2>5. ReturnsDone'
    BY <1>1, <1>2, <1>6 DEF ReturnsDone, Fetch!Return
  <2> QED BY <2>2, <2>3, <2>4, <2>5
<1> QED
  BY <1>3, <1>4, <1>5, <1>6 DEF Fetch!Place

LEMMA NextFetchInspect == FetchIInv /\ Fetch!Inspect => FetchIInv'
<1> SUFFICES ASSUME FetchIInv, Fetch!Inspect PROVE FetchIInv'
  OBVIOUS
<1> USE FetchesCount, Nothing, Staged DEF FetchIInv, Fetch!Return, Fetch!Inspect
<1>1. FetchTyped'
  BY DEF FetchTyped, TreesInOrder, StepsFind, Busy
<1>2. TreesInOrder'
  BY DEF FetchTyped, TreesInOrder, StepsFind, Busy
<1>3. StepsFind'
  BY DEF FetchTyped, StepsFind, Busy
<1>4. ReturnsDone'
  BY DEF ReturnsDone
<1> QED
  BY <1>1, <1>2, <1>3, <1>4

LEMMA NextFetchDownload == FetchIInv /\ Fetch!Download => FetchIInv'
<1> SUFFICES ASSUME FetchIInv, Fetch!Download PROVE FetchIInv'
  OBVIOUS
<1> USE FetchesCount, Nothing, Staged DEF FetchIInv, Fetch!Return, Fetch!Download
<1>1. FetchTyped'
  <2>1. staging' \in Fetch!Tree
    BY Wear DEF FetchTyped
  <2> QED BY <2>1 DEF FetchTyped, Busy
<1>2. TreesInOrder'
  BY DEF FetchTyped, TreesInOrder, StepsFind, Busy
<1>3. StepsFind'
  BY DEF FetchTyped, StepsFind, Busy
<1>4. ReturnsDone'
  BY DEF ReturnsDone
<1> QED
  BY <1>1, <1>2, <1>3, <1>4

LEMMA NextFetchKilled == FetchIInv /\ Fetch!Killed => FetchIInv'
<1> SUFFICES ASSUME FetchIInv, Fetch!Killed PROVE FetchIInv'
  OBVIOUS
<1> USE FetchesCount, Nothing, Staged DEF FetchIInv, Fetch!Return, Fetch!Killed
<1>1. FetchTyped'
  BY DEF FetchTyped, TreesInOrder, StepsFind, Busy
<1>2. TreesInOrder'
  BY DEF FetchTyped, TreesInOrder, StepsFind, Busy
<1>3. StepsFind'
  BY DEF FetchTyped, StepsFind, Busy
<1>4. ReturnsDone'
  BY DEF ReturnsDone
<1> QED
  BY <1>1, <1>2, <1>3, <1>4

LEMMA NextFetchBegin == FetchIInv /\ Fetch!Begin => FetchIInv'
<1> SUFFICES ASSUME FetchIInv, Fetch!Begin PROVE FetchIInv'
  OBVIOUS
<1> USE FetchesCount, Nothing, Staged DEF FetchIInv, Fetch!Return, Fetch!Begin
<1>1. FetchTyped'
  <2>1. fetches' \in 0..MaxFetches
    BY DEF FetchTyped
  <2>2. staging' \in Fetch!Tree
    BY <2>1 DEF Fetch!Tree
  <2> QED BY <2>1, <2>2 DEF FetchTyped, Busy
<1>2. TreesInOrder'
  BY DEF FetchTyped, TreesInOrder, StepsFind, Busy
<1>3. StepsFind'
  BY DEF FetchTyped, StepsFind, Busy
<1>4. ReturnsDone'
  BY DEF ReturnsDone
<1> QED
  BY <1>1, <1>2, <1>3, <1>4

LEMMA NextFetchMoveAside == FetchIInv /\ Fetch!MoveAside => FetchIInv'
<1> SUFFICES ASSUME FetchIInv, Fetch!MoveAside PROVE FetchIInv'
  OBVIOUS
<1> USE FetchesCount, Nothing, Staged DEF FetchIInv, Fetch!Return, Fetch!MoveAside
<1>1. FetchTyped'
  BY DEF FetchTyped, TreesInOrder, StepsFind, Busy
<1>2. TreesInOrder'
  BY DEF FetchTyped, TreesInOrder, StepsFind, Busy
<1>3. StepsFind'
  <2>1. CASE previous' = output /\ output' = Fetch!NoTree /\ step' = "place"
    <3>1. previous'.whole
      BY <2>1 DEF StepsFind, TreesInOrder
    <3> QED BY <2>1, <3>1 DEF StepsFind, Busy
  <2>2. CASE step' = "idle"
    BY <2>2 DEF StepsFind, Busy
  <2> QED BY <2>1, <2>2
<1>4. ReturnsDone'
  BY DEF ReturnsDone
<1> QED
  BY <1>1, <1>2, <1>3, <1>4

LEMMA NextKeepsFetch == FetchIInv /\ Fetch!Next => FetchIInv'
BY NextFetchBegin, NextFetchDownload, NextFetchInspect, NextFetchClear, NextFetchMoveAside,
   NextFetchPlace, NextFetchClean, NextFetchKilled DEF Fetch!Next

LEMMA InitFetch == Fetch!Init => FetchIInv
BY FetchesCount, Nothing DEF Fetch!Init, FetchIInv, FetchTyped, TreesInOrder, StepsFind, ReturnsDone, Busy

(* What ATreeSurvives says of one step.                                         *)
Swapped ==
  \A old \in {output, previous} :
    old.whole => \E new \in {output', previous'} : new.whole /\ new.number >= old.number

LEMMA FetchPromises ==
  FetchIInv => Fetch!TypeOK /\ Fetch!OutputIsWhole /\ Fetch!DoneMeansInstalled
<1> SUFFICES ASSUME FetchIInv PROVE Fetch!TypeOK /\ Fetch!OutputIsWhole /\ Fetch!DoneMeansInstalled
  OBVIOUS
<1> USE DEF FetchIInv
<1>1. {output, previous, staging} \subseteq Fetch!Tree
  BY DEF FetchTyped
<1>2. output # Fetch!NoTree => output.number # previous.number
  BY <1>1, FetchesCount, Nothing DEF TreesInOrder, Fetch!Tree
<1>5. Fetch!TypeOK
  BY <1>1, <1>2 DEF Fetch!TypeOK, FetchTyped, StepsFind
<1>3. Fetch!OutputIsWhole
  BY DEF TreesInOrder, Fetch!OutputIsWhole
<1>4. Fetch!DoneMeansInstalled
  BY DEF ReturnsDone, Fetch!DoneMeansInstalled
<1> QED BY <1>5, <1>3, <1>4

-----------------------------------------------------------------------------
(* Only a removal could lose a tree: of the one aside while another is in place.  *)
LEMMA ClearSurvives == FetchIInv /\ Fetch!Clear => Swapped
<1> SUFFICES ASSUME FetchIInv, Fetch!Clear PROVE Swapped
  OBVIOUS
<1>1. step = "clear" /\ output' = output
  BY DEF Fetch!Clear
<1>2. output \in Fetch!Tree /\ previous \in Fetch!Tree /\ output # Fetch!NoTree
  BY <1>1 DEF FetchIInv, FetchTyped, StepsFind
<1>3. output.number \in Int /\ previous.number \in Int
  BY <1>2 DEF Fetch!Tree
<1>4. output.whole /\ previous.number <= output.number
  BY <1>2, <1>3 DEF FetchIInv, TreesInOrder
<1> QED
  BY <1>1, <1>3, <1>4 DEF Swapped

LEMMA CleanSurvives == FetchIInv /\ Fetch!Clean => Swapped
<1> SUFFICES ASSUME FetchIInv, Fetch!Clean PROVE Swapped
  OBVIOUS
<1>1. output.whole /\ previous.number <= output.number
  BY FetchesCount, Nothing DEF FetchIInv, FetchTyped, TreesInOrder, StepsFind, Fetch!Tree, Fetch!Clean
<1>2. output' = output /\ output.number \in Int /\ previous.number \in Int
  BY DEF Fetch!Clean, FetchIInv, FetchTyped, Fetch!Tree
<1> QED
  BY <1>1, <1>2 DEF Swapped

LEMMA MovesSurvive ==
  FetchIInv /\ (Fetch!MoveAside \/ Fetch!Place \/ UNCHANGED <<output, previous>>) => Swapped
<1> SUFFICES ASSUME FetchIInv, Fetch!MoveAside \/ Fetch!Place \/ UNCHANGED <<output, previous>>
             PROVE  Swapped
  OBVIOUS
<1>1. /\ output.number \in Int /\ previous.number \in Int
      /\ ~Fetch!NoTree.whole
  BY Nothing DEF FetchIInv, FetchTyped, Fetch!Tree
<1>2. CASE UNCHANGED <<output, previous>>
  BY <1>1, <1>2 DEF Swapped
<1>3. CASE previous = Fetch!NoTree /\ previous' = output
  BY <1>1, <1>3 DEF Swapped
<1>4. CASE output = Fetch!NoTree /\ UNCHANGED previous
  BY <1>1, <1>4 DEF Swapped
<1>5. CASE output = Fetch!NoTree /\ output' = previous
  BY <1>1, <1>5 DEF Swapped
<1> QED
  BY <1>2, <1>3, <1>4, <1>5 DEF Fetch!MoveAside, Fetch!Place, FetchIInv, StepsFind

LEMMA NextSurvives == FetchIInv /\ Fetch!Next => Swapped
BY ClearSurvives, CleanSurvives, MovesSurvive
   DEF Fetch!Next, Fetch!Begin, Fetch!Download, Fetch!Inspect, Fetch!Killed

RecordingsVars == <<part, vars, replaying, keeping, swapping>>

LEMMA RecordingsFetch ==
  [RecordingsNext]_RecordingsVars => Fetch!Next \/ UNCHANGED swapping
BY DEF RecordingsNext, RecordingsVars

LEMMA FetchStays == FetchIInv /\ UNCHANGED swapping => FetchIInv'
<1> SUFFICES ASSUME FetchIInv, UNCHANGED swapping PROVE FetchIInv'
  OBVIOUS
<1>1. /\ output' = output /\ previous' = previous /\ staging' = staging /\ step' = step
      /\ fetches' = fetches /\ returned' = returned
  BY DEF swapping
<1>2. aside' = aside
  BY DEF swapping
<1>3. FetchTyped' /\ TreesInOrder'
  BY <1>1 DEF FetchIInv, FetchTyped, TreesInOrder
<1>4. StepsFind'
  BY <1>1, <1>2 DEF FetchIInv, StepsFind
<1>5. ReturnsDone'
  BY <1>1, <1>2 DEF FetchIInv, ReturnsDone
<1> QED BY <1>3, <1>4, <1>5 DEF FetchIInv

(* Whatever fails, is killed or is run again, a fetch never loses the only whole tree, *)
(* and what is in place is whole (internal/sourcefetch/fetch.go 266-301).           *)
THEOREM SpecFetchKeepsATree == RecordingsSpec => FetchKeepsATree
<1>1. RecordingsInit => FetchIInv
  BY InitFetch DEF RecordingsInit
<1>2. FetchIInv /\ [RecordingsNext]_RecordingsVars => FetchIInv'
  BY NextKeepsFetch, FetchStays, RecordingsFetch
<1>3. FetchIInv /\ [RecordingsNext]_RecordingsVars => [Swapped]_Fetch!vars
  BY NextSurvives, RecordingsFetch DEF swapping, Fetch!vars
<1> QED
  BY <1>1, <1>2, <1>3, FetchPromises, PTL
     DEF RecordingsSpec, FetchKeepsATree, Fetch!ATreeSurvives, Swapped, RecordingsVars

-----------------------------------------------------------------------------
(* The ring adds up sizes as SumProofs does. *)
LEMMA RingSums == \A f, S : Ring!SumFunctionOnSet(f, S) = SumFunctionOnSet(f, S)
BY SumIsATable DEF Ring!SumFunctionOnSet, Ring!FoldFunctionOnSet, Ring!MapThenFoldSet, Sums, Pick

LEMMA SumSame ==
  ASSUME NEW S, NEW f, NEW g, \A x \in S : f[x] = g[x]
  PROVE  SumFunctionOnSet(f, S) = SumFunctionOnSet(g, S)
<1>1. \A h : Sums(f, SUBSET S, h) <=> Sums(g, SUBSET S, h)
  <2> TAKE h
  <2> DEFINE F == [s \in SUBSET S |-> IF s = {} THEN 0 ELSE f[Pick(s)] + h[s \ {Pick(s)}]]
             G == [s \in SUBSET S |-> IF s = {} THEN 0 ELSE g[Pick(s)] + h[s \ {Pick(s)}]]
  <2>1. \A s \in SUBSET S : s # {} => f[Pick(s)] = g[Pick(s)]
    BY DEF Pick
  <2>2. F = G
    BY <2>1
  <2> QED
    BY <2>2 DEF Sums
<1>2. (CHOOSE h : Sums(f, SUBSET S, h)) = (CHOOSE h : Sums(g, SUBSET S, h))
  BY <1>1
<1> QED
  BY <1>2, SumIsATable

(* The sequence numbers of what is left of held when its first n are gone. *)
Kept(held, n) == {held[i] : i \in (n + 1)..Len(held)}

LEMMA RingLoad == \A held, f, n : Ring!Load(held, f, n) = SumFunctionOnSet(f, Kept(held, n))
BY RingSums DEF Ring!Load, Kept

(* Drops is the least number that is enough; keeping one record always is.        *)
LEMMA SmallestFit ==
  ASSUME NEW held, Len(held) \in Nat \ {0}, NEW f,
         SumFunctionOnSet(f, Kept(held, Len(held))) \in Int
  PROVE  LET n == Ring!Drops(held, f)
         IN  /\ n \in 0..(Len(held) - 1)
             /\ Ring!Fits(held, f, n)
             /\ \A m \in 0..Len(held) : Ring!Fits(held, f, m) => n <= m
<1> DEFINE S == {n \in 0..Len(held) : Ring!Fits(held, f, n)}
           n == Ring!Drops(held, f)
<1>1. MaxRecords \in Nat /\ MaxRecords >= 1
  BY RingAssumption DEF Ring!HistoryAssumption
<1>2. Len(held) - 1 \in S
  BY <1>1 DEF Ring!Fits
<1>3. S \subseteq Nat /\ S # {}
  BY <1>2
<1>4. PICK m \in S : \A k \in S : m <= k
  <2> HIDE DEF S
  <2> QED BY <1>3, Smallest
<1>5. n = CHOOSE x \in S : \A y \in S : x <= y
  BY DEF Ring!Drops, Ring!Min
<1>6. n \in S /\ \A k \in S : n <= k
  <2> HIDE DEF S, n
  <2> QED BY <1>4, <1>5
<1> QED
  BY <1>2, <1>6

(* Of the records kept: finite, and one less or one more of them.                  *)
LEMMA KeptFinite ==
  ASSUME NEW N \in Nat, NEW held \in Seq(1..N), NEW n \in Nat
  PROVE  Kept(held, n) \subseteq 1..N /\ IsFiniteSet(Kept(held, n))
<1>1. Kept(held, n) \subseteq 1..N
  BY DEF Kept
<1> QED BY <1>1, FS_Interval, FS_Subset

LEMMA LoadCounts ==
  ASSUME NEW N \in Nat, NEW held \in Seq(1..N), NEW n \in Nat, NEW f, \A x \in 1..N : f[x] \in Nat
  PROVE  SumFunctionOnSet(f, Kept(held, n)) \in Nat
BY KeptFinite, SumCounts

LEMMA KeptOneMore ==
  ASSUME NEW N \in Nat, NEW held \in Seq(1..N), NEW n \in 1..Len(held),
         NEW f, \A x \in 1..N : f[x] \in Nat,
         \A i, j \in 1..Len(held) : held[i] = held[j] => i = j
  PROVE  SumFunctionOnSet(f, Kept(held, n - 1)) = SumFunctionOnSet(f, Kept(held, n)) + f[held[n]]
<1>1. Kept(held, n - 1) = Kept(held, n) \union {held[n]}
  <2>1. (n - 1) + 1 = n /\ n \in Int /\ Len(held) \in Int
    OBVIOUS
  <2>2. \A i \in n..Len(held) : i = n \/ i \in (n + 1)..Len(held)
    OBVIOUS
  <2>3. \A i \in (n + 1)..Len(held) : i \in n..Len(held)
    OBVIOUS
  <2>4. n \in n..Len(held)
    OBVIOUS
  <2> QED BY <2>1, <2>2, <2>3, <2>4 DEF Kept
<1>2. held[n] \notin Kept(held, n)
  BY DEF Kept
<1>3. held[n] \in 1..N /\ Kept(held, n) \subseteq 1..N /\ IsFiniteSet(Kept(held, n))
  BY KeptFinite
<1>4. \A y \in Kept(held, n) \union {held[n]} : f[y] \in Int
  BY <1>3
<1> QED BY <1>1, <1>2, <1>3, <1>4, SumWith

LEMMA KeptAppended ==
  ASSUME NEW held \in Seq(Nat), NEW x \in Nat
  PROVE  Kept(Append(held, x), 0) = Kept(held, 0) \union {x}
<1> DEFINE a == Append(held, x)
<1>1. /\ Len(a) = Len(held) + 1 /\ a[Len(held) + 1] = x /\ Len(held) \in Nat
      /\ \A i \in 1..Len(held) : a[i] = held[i]
  OBVIOUS
<1> HIDE DEF a
<1>2. Kept(a, 0) \subseteq Kept(held, 0) \union {x}
  BY <1>1 DEF Kept
<1>3. x \in Kept(a, 0)
  BY <1>1 DEF Kept
<1>4. Kept(held, 0) \subseteq Kept(a, 0)
  BY <1>1 DEF Kept
<1> QED BY <1>2, <1>3, <1>4 DEF a

LEMMA KeptRest ==
  ASSUME NEW held \in Seq(Nat), NEW n \in 0..Len(held)
  PROVE  Kept(SubSeq(held, n + 1, Len(held)), 0) = Kept(held, n)
<1> DEFINE r == SubSeq(held, n + 1, Len(held))
<1>1. /\ Len(r) = Len(held) - n /\ Len(held) \in Nat
      /\ \A i \in 1..Len(r) : r[i] = held[n + i]
  BY SMTT(60)
<1> HIDE DEF r
<1>2. Kept(r, 0) \subseteq Kept(held, n)
  BY <1>1 DEF Kept
<1>3. ASSUME NEW i \in (n + 1)..Len(held) PROVE held[i] \in Kept(r, 0)
  <2>1. i - n \in 1..Len(r) /\ r[i - n] = held[i]
    BY <1>1
  <2> QED BY <2>1 DEF Kept
<1> QED BY <1>2, <1>3 DEF Kept, r

-----------------------------------------------------------------------------
(* The log counts every record once.                                            *)
LogTyped ==
  /\ offered \in Seq(Sizes) /\ Len(offered) <= MaxOffered
  /\ kept \in Seq(1..Len(offered)) /\ Len(kept) <= Len(offered)
  /\ \A i, j \in 1..Len(kept) : kept[i] = kept[j] => i = j
  /\ dropped \in Nat /\ records \in Seq(1..Len(offered))

(* The ring from its oldest record on is the log from the last dropped on. *)
Window ==
  /\ dropped + Len(records) = Len(kept)
  /\ \A i \in 1..Len(records) : records[i] = kept[dropped + i]

(* Ring.bytes is kept from one Observe to the next, and never added up anew.        *)
Weighed == bytes = SumFunctionOnSet(offered, Kept(records, 0))

RingIInv == LogTyped /\ Window /\ Weighed /\ Ring!AsMuchAsFits

LEMMA InitRing == Ring!Init => RingIInv
<1> SUFFICES ASSUME Ring!Init PROVE RingIInv
  OBVIOUS
<1>1. MaxRecords \in Nat /\ MaxBytes \in Nat /\ MaxOffered \in Nat
  BY RingAssumption DEF Ring!HistoryAssumption
<1>2. /\ offered = <<>> /\ kept = <<>> /\ records = <<>> /\ bytes = 0 /\ dropped = 0
      /\ Len(offered) = 0 /\ Len(kept) = 0 /\ Len(records) = 0
  BY DEF Ring!Init
<1>3. LogTyped
  BY <1>1, <1>2 DEF LogTyped
<1>4. Window
  BY <1>2 DEF Window
<1>5. Kept(records, 0) = {}
  BY <1>2 DEF Kept
<1>6. Weighed
  BY <1>2, <1>5, SumOfNone DEF Weighed
<1>7. Ring!AsMuchAsFits
  BY <1>1, <1>2 DEF Ring!AsMuchAsFits
<1> QED BY <1>3, <1>4, <1>6, <1>7 DEF RingIInv

(* An observation that the first sink refused leaves the ring as it is. *)
LEMMA RefusedKeepsRing ==
  ASSUME RingIInv, NEW size \in Sizes, Len(offered) < MaxOffered,
         offered' = Append(offered, size), UNCHANGED <<kept, records, bytes, dropped>>
  PROVE  RingIInv'
<1>1. MaxOffered \in Nat /\ Sizes \subseteq Nat
  BY RingAssumption DEF Ring!HistoryAssumption
<1>2. /\ offered' \in Seq(Sizes) /\ Len(offered') = Len(offered) + 1
      /\ \A i \in 1..Len(offered) : offered'[i] = offered[i]
      /\ Len(offered) \in Nat /\ 1..Len(offered) \subseteq 1..Len(offered')
  BY DEF RingIInv, LogTyped
<1>3. kept' \in Seq(1..Len(offered')) /\ records' \in Seq(1..Len(offered'))
  BY <1>2 DEF RingIInv, LogTyped
<1>4. LogTyped'
  BY <1>1, <1>2, <1>3 DEF RingIInv, LogTyped
<1>5. Window'
  BY DEF RingIInv, Window
<1>6. Weighed'
  <2>1. Kept(records, 0) \subseteq 1..Len(offered)
    BY <1>2, KeptFinite DEF RingIInv, LogTyped
  <2>2. SumFunctionOnSet(offered', Kept(records, 0)) = SumFunctionOnSet(offered, Kept(records, 0))
    BY <1>2, <2>1, SumSame
  <2> QED BY <2>2 DEF RingIInv, Weighed
<1>7. Ring!AsMuchAsFits'
  <2>1. dropped > 0 => kept[dropped] \in 1..Len(offered)
    BY DEF RingIInv, LogTyped, Window
  <2> QED BY <1>2, <2>1 DEF RingIInv, Ring!AsMuchAsFits
<1> QED BY <1>4, <1>5, <1>6, <1>7 DEF RingIInv

(* The log and the ring with one observation more, before anything is dropped. *)
LEMMA OneMoreHeld ==
  ASSUME RingIInv, NEW size \in Sizes, Len(offered) < MaxOffered,
         offered' = Append(offered, size), kept' = Append(kept, Len(offered')),
         NEW held, held = Append(records, Len(offered'))
  PROVE  /\ dropped' \in Nat /\ records' \in Seq(1..Len(offered')) => LogTyped'
         /\ held \in Seq(1..Len(offered')) /\ Len(held) = Len(records) + 1
         /\ dropped + Len(held) = Len(kept')
         /\ \A i \in 1..Len(held) : held[i] = kept'[dropped + i]
         /\ \A i, j \in 1..Len(held) : held[i] = held[j] => i = j
         /\ \A x \in 1..Len(offered') : offered'[x] \in Nat
         /\ \A x \in 1..Len(offered) : offered'[x] = offered[x]
         /\ Len(offered') = Len(offered) + 1 /\ offered' \in Seq(Sizes)
<1> DEFINE N == Len(offered')
<1>1. MaxOffered \in Nat /\ Sizes \subseteq Nat
  BY RingAssumption DEF Ring!HistoryAssumption
<1>2. /\ offered' \in Seq(Sizes) /\ N = Len(offered) + 1 /\ N \in Nat
      /\ \A i \in 1..Len(offered) : offered'[i] = offered[i]
      /\ Len(offered) \in Nat /\ 1..Len(offered) \subseteq 1..N /\ N \in 1..N
      /\ N \notin 1..Len(offered)
  BY DEF RingIInv, LogTyped
<1>3. \A x \in 1..N : offered'[x] \in Nat
  <2>1. \A s \in Seq(Sizes) : \A x \in 1..Len(s) : s[x] \in Sizes
    OBVIOUS
  <2> QED BY <1>1, <1>2, <2>1
<1> HIDE DEF N
<1>4. kept \in Seq(1..N) /\ records \in Seq(1..N)
  BY <1>2 DEF RingIInv, LogTyped, N
<1>5. /\ kept' \in Seq(1..N) /\ Len(kept') = Len(kept) + 1 /\ kept'[Len(kept) + 1] = N
      /\ \A i \in 1..Len(kept) : kept'[i] = kept[i]
  BY <1>2, <1>4 DEF N
<1>6. /\ held \in Seq(1..N) /\ Len(held) = Len(records) + 1 /\ held[Len(records) + 1] = N
      /\ \A i \in 1..Len(records) : held[i] = records[i]
  BY <1>2, <1>4 DEF N
<1>7. \A i \in 1..Len(kept) : kept[i] \in 1..Len(offered)
  BY DEF RingIInv, LogTyped
<1>8. \A i, j \in 1..Len(kept') : kept'[i] = kept'[j] => i = j
  <2> SUFFICES ASSUME NEW i \in 1..Len(kept'), NEW j \in 1..Len(kept'), kept'[i] = kept'[j]
               PROVE  i = j
    OBVIOUS
  <2>1. CASE i \in 1..Len(kept) /\ j \in 1..Len(kept)
    BY <1>5, <2>1 DEF RingIInv, LogTyped
  <2>2. CASE i = Len(kept) + 1
    BY <1>2, <1>5, <1>7, <2>2
  <2>3. CASE j = Len(kept) + 1
    BY <1>2, <1>5, <1>7, <2>3
  <2> QED BY <1>5, <2>1, <2>2, <2>3
<1>9. /\ dropped \in Nat /\ dropped + Len(held) = Len(kept')
      /\ Len(kept) \in Nat /\ Len(records) \in Nat /\ Len(held) \in Nat /\ Len(kept') \in Nat
  BY <1>4, <1>5, <1>6 DEF RingIInv, LogTyped, Window
<1>10. \A i \in 1..Len(held) : held[i] = kept'[dropped + i]
  <2> TAKE i \in 1..Len(held)
  <2>1. CASE i \in 1..Len(records)
    <3>1. dropped + i \in 1..Len(kept) /\ records[i] = kept[dropped + i]
      BY <2>1, <1>9 DEF RingIInv, Window
    <3> QED BY <2>1, <3>1, <1>5, <1>6
  <2>2. CASE i = Len(records) + 1
    <3>1. dropped + i = Len(kept) + 1
      BY <2>2, <1>9 DEF RingIInv, Window
    <3> QED BY <2>2, <3>1, <1>5, <1>6
  <2> QED BY <1>6, <1>9, <2>1, <2>2
<1>11. \A i, j \in 1..Len(held) : held[i] = held[j] => i = j
  <2> SUFFICES ASSUME NEW i \in 1..Len(held), NEW j \in 1..Len(held), held[i] = held[j]
               PROVE  i = j
    OBVIOUS
  <2>1. dropped + i \in 1..Len(kept') /\ dropped + j \in 1..Len(kept')
    BY <1>9
  <2>2. dropped + i = dropped + j
    BY <1>8, <1>10, <2>1
  <2> QED BY <1>9, <2>2
<1>12. dropped' \in Nat /\ records' \in Seq(1..N) => LogTyped'
  BY SMTT(60), <1>1, <1>2, <1>5, <1>8 DEF RingIInv, LogTyped, N
<1> QED
  BY <1>2, <1>3, <1>6, <1>9, <1>10, <1>11, <1>12 DEF N

(* What the first sink accepted is in the ring, which drops only what it must. *)
LEMMA AcceptedKeepsRing ==
  \A size \in Sizes :
    /\ RingIInv /\ Len(offered) < MaxOffered
    /\ offered' = Append(offered, size) /\ kept' = Append(kept, Len(offered'))
    /\ Ring!RingObserves(offered')
    => RingIInv'
<1>s. SUFFICES ASSUME NEW size \in Sizes, RingIInv, Len(offered) < MaxOffered,
                      offered' = Append(offered, size), kept' = Append(kept, Len(offered')),
                      Ring!RingObserves(offered')
               PROVE  RingIInv'
  OBVIOUS
<1>0. PICK held : held = Append(records, Len(offered'))
  OBVIOUS
<1>a. PICK f : f = offered'
  OBVIOUS
<1>b. PICK last : last = Len(f)
  OBVIOUS
<1>c. PICK gone : gone = Ring!Drops(held, f)
  OBVIOUS
<1> DEFINE Sum(k) == SumFunctionOnSet(f, Kept(held, k))
<1>1. /\ dropped' \in Nat /\ records' \in Seq(1..last) => LogTyped'
      /\ held \in Seq(1..last) /\ Len(held) = Len(records) + 1
      /\ dropped + Len(held) = Len(kept')
      /\ \A i \in 1..Len(held) : held[i] = kept'[dropped + i]
      /\ \A i, j \in 1..Len(held) : held[i] = held[j] => i = j
      /\ \A x \in 1..last : f[x] \in Nat
      /\ \A x \in 1..Len(offered) : f[x] = offered[x]
      /\ last = Len(offered) + 1 /\ f \in Seq(Sizes)
  BY ZenonT(60), <1>s, <1>0, <1>a, <1>b, OneMoreHeld
<1>2. /\ records' = SubSeq(held, gone + 1, Len(held))
      /\ bytes' = Ring!Load(held, f, gone) /\ dropped' = dropped + gone
  BY <1>s, <1>0, <1>a, <1>c DEF Ring!RingObserves
<1>3. /\ Len(offered) \in Nat /\ last \in Nat /\ dropped \in Nat
      /\ Len(records) \in Nat /\ Len(held) \in Nat \ {0} /\ Len(kept) \in Nat
  <2>1. Len(records) \in Nat /\ dropped \in Nat /\ Len(offered) \in Nat /\ Len(kept) \in Nat
    BY <1>s DEF RingIInv, LogTyped
  <2> QED BY <1>1, <2>1
<1>4. MaxRecords \in Nat /\ MaxBytes \in Nat
  BY RingAssumption DEF Ring!HistoryAssumption
<1>5. \A k \in Nat : Sum(k) \in Nat /\ Ring!Load(held, f, k) = Sum(k)
  BY <1>1, <1>3, LoadCounts, RingLoad
<1>6. /\ gone \in 0..(Len(held) - 1) /\ Ring!Fits(held, f, gone)
      /\ \A m \in 0..Len(held) : Ring!Fits(held, f, m) => gone <= m
  <2>1. Sum(Len(held)) \in Int
    BY <1>3, <1>5
  <2> QED BY <1>3, <2>1, SmallestFit, <1>c
<1> HIDE DEF Sum
<1>12. gone \in Nat /\ gone < Len(held) /\ gone + 1 \in Nat /\ Len(held) - gone \in Nat \ {0}
  BY <1>3, <1>6
<1>13. held \in Seq(1..last) /\ dropped' = dropped + gone /\ dropped' \in Nat
  BY <1>1, <1>2, <1>3, <1>12
<1>7. /\ records' \in Seq(1..last) /\ Len(records') = Len(held) - gone
      /\ \A i \in 1..Len(records') : records'[i] = held[gone + i]
  <2>1. \A S : \A s \in Seq(S) : \A k \in 0..Len(s) :
          /\ SubSeq(s, k + 1, Len(s)) \in Seq(S)
          /\ Len(SubSeq(s, k + 1, Len(s))) = Len(s) - k
          /\ \A i \in 1..(Len(s) - k) : SubSeq(s, k + 1, Len(s))[i] = s[k + i]
    OBVIOUS
  <2>2. gone \in 0..Len(held)
    BY <1>3, <1>12
  <2>3. records' = SubSeq(held, gone + 1, Len(held))
    BY <1>2
  <2> QED BY <1>13, <2>1, <2>2, <2>3
<1>14. Len(records') = Len(held) - gone
  BY <1>7
<1>8. LogTyped'
  BY <1>1, <1>7, <1>13, <1>a, <1>b
<1>9. Window'
  <2>1. dropped' + Len(records') = Len(kept')
    BY <1>1, <1>2, <1>3, <1>6, <1>12, <1>7
  <2>2. ASSUME NEW i \in 1..Len(records') PROVE records'[i] = kept'[dropped' + i]
    <3>1. gone + i \in 1..Len(held) /\ dropped + (gone + i) = dropped' + i
      BY <1>3, <1>12, <1>13, <1>14
    <3> QED BY <1>1, <1>7, <3>1
  <2> QED BY <2>1, <2>2 DEF Window
<1>10. Weighed' /\ bytes' = Sum(gone)
  <2>1. Kept(records', 0) = Kept(held, gone)
    <3>1. held \in Seq(Nat)
      BY <1>1
    <3> QED BY <1>2, <1>3, <1>6, <1>12, <3>1, KeptRest
  <2> QED BY <2>1, <1>2, <1>5, <1>6, <1>12, <1>a DEF Weighed, Sum
<1>11. Ring!AsMuchAsFits'
  <2>1. /\ Len(held) - gone <= MaxRecords
        /\ Sum(gone) <= MaxBytes \/ Len(held) - gone <= 1
    BY <1>5, <1>6, <1>12 DEF Ring!Fits
  <2>2. ASSUME dropped' > 0
        PROVE  Len(records') + 1 > MaxRecords \/ bytes' + f[kept'[dropped']] > MaxBytes
    <3>1. CASE gone > 0
      <4>1. gone - 1 \in 0..Len(held) /\ ~Ring!Fits(held, f, gone - 1) /\ gone \in 1..Len(held)
        BY <1>3, <1>6, <1>12, <3>1
      <4>2. Len(held) - (gone - 1) > MaxRecords \/ Sum(gone - 1) > MaxBytes
        <5>1. gone - 1 \in Nat /\ Len(held) - (gone - 1) \in Nat
          BY <1>3, <1>12, <4>1
        <5>2. Sum(gone - 1) \in Nat /\ Ring!Load(held, f, gone - 1) = Sum(gone - 1)
          BY <1>5, <5>1
        <5> QED BY <1>4, <4>1, <5>1, <5>2 DEF Ring!Fits
      <4>3. Sum(gone - 1) = Sum(gone) + f[held[gone]]
        <5>1. /\ \A i, j \in 1..Len(held) : held[i] = held[j] => i = j
              /\ \A x \in 1..last : f[x] \in Nat
          BY <1>1
        <5>2. gone \in 1..Len(held) /\ last \in Nat /\ held \in Seq(1..last)
          BY <1>3, <1>13, <4>1
        <5>3. SumFunctionOnSet(f, Kept(held, gone - 1))
                = SumFunctionOnSet(f, Kept(held, gone)) + f[held[gone]]
          BY <5>1, <5>2, KeptOneMore
        <5> QED BY <5>3 DEF Sum
      <4>4. held[gone] = kept'[dropped']
        BY <1>1, <1>2, <4>1
      <4> QED BY <1>3, <1>6, <1>12, <1>7, <1>10, <4>2, <4>3, <4>4
    <3>2. CASE gone = 0
      <4>1. dropped > 0 /\ dropped' = dropped /\ Len(records') = Len(records) + 1
        BY <1>1, <1>2, <1>3, <1>7, <2>2, <3>2
      <4>2. dropped \in 1..Len(kept) /\ kept[dropped] \in 1..Len(offered)
        BY <1>s, <1>3, <4>1 DEF RingIInv, LogTyped, Window
      <4>3. kept'[dropped'] = kept[dropped]
        <5>1. kept \in Seq(Nat)
          BY <1>s DEF RingIInv, LogTyped
        <5> QED BY <1>s, <5>1, <4>1, <4>2
      <4>4. f[kept'[dropped']] = offered[kept[dropped]] /\ f[kept'[dropped']] \in Nat
        BY <1>1, <1>3, <4>2, <4>3
      <4>5. bytes \in Nat /\ bytes' \in Nat /\ bytes' >= bytes
        <5>1. records \in Seq(1..Len(offered)) /\ records \in Seq(Nat) /\ Len(offered) + 1 \in Nat
          BY <1>s, <1>3 DEF RingIInv, LogTyped
        <5>2. /\ Kept(records, 0) \subseteq 1..Len(offered) /\ IsFiniteSet(Kept(records, 0))
              /\ last \notin Kept(records, 0)
          BY <1>1, <1>3, <5>1, KeptFinite
        <5>3. Kept(held, 0) = Kept(records, 0) \union {last}
          BY <1>0, <1>3, <1>a, <1>b, <5>1, KeptAppended
        <5>4. \A y \in Kept(records, 0) \union {last} : f[y] \in Int
          BY <1>1, <1>3, <5>2
        <5>5. Sum(0) = SumFunctionOnSet(f, Kept(records, 0)) + f[last]
          BY <5>2, <5>3, <5>4, SumWith DEF Sum
        <5>6. SumFunctionOnSet(f, Kept(records, 0)) = bytes
          <6>1. \A x \in Kept(records, 0) : f[x] = offered[x]
            BY <1>1, <5>2
          <6>2. SumFunctionOnSet(f, Kept(records, 0)) = SumFunctionOnSet(offered, Kept(records, 0))
            BY <6>1, SumSame
          <6> QED BY <1>s, <6>2 DEF RingIInv, Weighed
        <5>7. SumFunctionOnSet(f, Kept(records, 0)) \in Nat
          <6>1. \A x \in Kept(records, 0) : f[x] \in Nat
            BY <1>1, <1>3, <5>2
          <6> QED BY <5>2, <6>1, SumCounts
        <5>8. f[last] \in Nat
          BY <1>1, <1>3
        <5> QED BY <1>5, <1>10, <3>2, <5>5, <5>6, <5>7, <5>8
      <4>6. Len(records) + 1 > MaxRecords \/ bytes + offered[kept[dropped]] > MaxBytes
        BY <1>s, <4>1 DEF RingIInv, Ring!AsMuchAsFits
      <4>7. offered[kept[dropped]] \in Nat
        BY <4>4
      <4> QED BY SMTT(60), <1>3, <1>4, <1>10, <4>1, <4>4, <4>5, <4>6, <4>7
    <3> QED BY <1>6, <1>12, <3>1, <3>2
  <2>3. Len(records') > 0
    BY <1>3, <1>6, <1>12, <1>7
  <2> QED BY <1>3, <1>6, <1>12, <1>7, <1>10, <2>1, <2>2, <2>3, <1>a DEF Ring!AsMuchAsFits
<1> QED BY <1>8, <1>9, <1>10, <1>11 DEF RingIInv

LEMMA NextKeepsRing == RingIInv /\ Ring!Next => RingIInv'
<1>s. SUFFICES ASSUME RingIInv, Ring!Next PROVE RingIInv'
  OBVIOUS
<1>1. PICK size \in Sizes : Ring!Observe(size)
  BY <1>s DEF Ring!Next
<1>2. Len(offered) < MaxOffered /\ offered' = Append(offered, size)
  BY <1>1 DEF Ring!Observe
<1>3. CASE kept' = Append(kept, Len(offered')) /\ Ring!RingObserves(offered')
  BY <1>s, <1>2, <1>3, AcceptedKeepsRing
<1>4. CASE UNCHANGED <<kept, records, bytes, dropped>>
  BY <1>s, <1>2, <1>4, RefusedKeepsRing
<1> QED BY <1>1, <1>3, <1>4 DEF Ring!Observe

LEMMA RingStays == RingIInv /\ UNCHANGED keeping => RingIInv'
BY DEF keeping, RingIInv, LogTyped, Window, Weighed, Ring!AsMuchAsFits

LEMMA RecordingsRing == [RecordingsNext]_RecordingsVars => Ring!Next \/ UNCHANGED keeping
BY DEF RecordingsNext, RecordingsVars

LEMMA RingPromises == RingIInv => RingIsTheEndOfTheLog
<1>s. SUFFICES ASSUME RingIInv PROVE RingIsTheEndOfTheLog
  OBVIOUS
<1>1. /\ dropped \in Nat /\ Len(kept) \in Nat /\ Len(records) \in Nat /\ Len(offered) \in Nat
      /\ kept \in Seq(1..Len(offered)) /\ records \in Seq(1..Len(offered))
      /\ Len(kept) <= Len(offered) /\ Len(offered) <= MaxOffered
      /\ dropped + Len(records) = Len(kept)
      /\ \A i \in 1..Len(records) : records[i] = kept[dropped + i]
  BY SMTT(60), <1>s DEF RingIInv, LogTyped, Window
<1>2. bytes = Ring!Load(records, offered, 0)
  BY <1>s, RingLoad DEF RingIInv, Weighed
<1>3. Ring!TypeOK
  BY <1>1, <1>2 DEF Ring!TypeOK
<1>4. records = SubSeq(kept, dropped + 1, Len(kept))
  <2> DEFINE end == SubSeq(kept, dropped + 1, Len(kept))
  <2>1. /\ end \in Seq(1..Len(offered)) /\ Len(end) = Len(records)
        /\ \A i \in 1..Len(records) : end[i] = kept[dropped + i]
    BY SMTT(60), <1>1
  <2> HIDE DEF end
  <2>2. records = end
    BY SMTT(60), <1>1, <2>1
  <2> QED BY <2>2 DEF end
<1>5. Ring!WindowOnTheLog
  BY <1>1, <1>4 DEF Ring!WindowOnTheLog
<1> QED BY <1>s, <1>3, <1>5 DEF RingIInv, RingIsTheEndOfTheLog

(* For every bound of the ring and any observations, the ring is the end of the log of   *)
(* the sink before it, says truly how much it has dropped, and drops only what it      *)
(* must (history/ring.go 58-78, 99-105).                                           *)
THEOREM SpecRingIsTheEndOfTheLog == RecordingsSpec => []RingIsTheEndOfTheLog
<1>1. RecordingsInit => RingIInv
  BY InitRing DEF RecordingsInit
<1>2. RingIInv /\ [RecordingsNext]_RecordingsVars => RingIInv'
  BY NextKeepsRing, RingStays, RecordingsRing
<1> QED
  BY <1>1, <1>2, RingPromises, PTL DEF RecordingsSpec, RecordingsVars
=============================================================================
