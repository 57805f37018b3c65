----------------------------- MODULE SourceSwap -----------------------------
(***************************************************************************)
(* Fetching a dataset tree and swapping it onto its destination                *)
(* (internal/sourcefetch/fetch.go), over file system calls any of which may     *)
(* fail and between any two of which the process may be killed.  A rename is    *)
(* atomic; a RemoveAll is not, and leaves a tree with files missing.           *)
(*                                                                         *)
(* A tree is the number of the fetch that downloaded it and whether all of its  *)
(* files are there.  The staging directory of a killed fetch is never looked at *)
(* again, as its name is random.                                              *)
(***************************************************************************)
EXTENDS Naturals

CONSTANT MaxFetches   (* bound: fetches begun *)

FetchAssumption == MaxFetches \in Nat

VARIABLES
  output,      (* the tree at OutputDir                                     *)
  previous,    (* the tree at OutputDir.previous                            *)
  staging,     (* the tree in the staging directory                         *)
  step,        (* the call the fetch makes next, "idle" when none is running  *)
  aside,       (* swap's `previous` is set                                  *)
  fetches,     (* fetches begun                                             *)
  returned     (* what the last fetch returned                              *)

vars == <<output, previous, staging, step, aside, fetches, returned>>

NoTree == [number |-> 0, whole |-> FALSE]
Tree == [number : 0..MaxFetches, whole : BOOLEAN]

Init ==
  /\ output = NoTree /\ previous = NoTree /\ staging = NoTree
  /\ step = "idle" /\ aside = FALSE /\ fetches = 0 /\ returned = "nothing"

(* Fetch returns; its deferred call removes the staging directory.            *)
Return(result) == step' = "idle" /\ returned' = result /\ staging' = NoTree

Begin ==
  /\ step = "idle" /\ fetches < MaxFetches
  /\ fetches' = fetches + 1
  /\ staging' = [number |-> fetches', whole |-> FALSE]
  /\ step' = "download" /\ returned' = "nothing" /\ aside' = FALSE
  /\ UNCHANGED <<output, previous>>

(* download, writeManifest and Verify: the staged tree is whole, or the fetch    *)
(* fails.                                                                     *)
Download ==
  /\ step = "download"
  /\ \/ /\ staging' = [staging EXCEPT !.whole = TRUE]
        /\ step' = "inspect" /\ UNCHANGED returned
     \/ Return("error")
  /\ UNCHANGED <<output, previous, aside, fetches>>

(* swap finds out whether there is a tree to move aside.                      *)
Inspect ==
  /\ step = "inspect"
  /\ \/ output # NoTree /\ step' = "clear" /\ UNCHANGED <<returned, staging>>
     \/ output = NoTree /\ step' = "place" /\ UNCHANGED <<returned, staging>>
     \/ Return("error")
  /\ aside' = (output # NoTree)
  /\ UNCHANGED <<output, previous, fetches>>

(* One more file of a tree is removed, or the last.                           *)
Removed(tree) == {[tree EXCEPT !.whole = FALSE], NoTree}

Clear ==
  /\ step = "clear"
  /\ \/ previous = NoTree /\ step' = "move aside" /\ UNCHANGED <<previous, returned, staging>>
     \/ /\ previous # NoTree /\ previous' \in Removed(previous)
        /\ UNCHANGED <<step, returned, staging>>
     \/ previous # NoTree /\ Return("error") /\ UNCHANGED previous
  /\ UNCHANGED <<output, aside, fetches>>

(* Faulty: the old tree is removed instead of moved aside.                     *)
RemoveOutput ==
  /\ step = "move aside"
  /\ output' = NoTree /\ step' = "place"
  /\ UNCHANGED <<previous, returned, staging, aside, fetches>>

MoveAside ==
  /\ step = "move aside"
  /\ \/ /\ previous' = output /\ output' = NoTree
        /\ step' = "place" /\ UNCHANGED <<returned, staging>>
     \/ Return("error") /\ UNCHANGED <<output, previous>>
  /\ UNCHANGED <<aside, fetches>>

(* The new tree is moved into place; when that fails the old one is moved back,  *)
(* which may fail as well and is not reported.                                *)
Place ==
  /\ step = "place"
  /\ \/ /\ output' = staging /\ UNCHANGED previous
        /\ IF aside THEN step' = "clean" /\ staging' = NoTree /\ UNCHANGED returned
                    ELSE Return("done")
     \/ /\ Return("error")
        /\ \/ aside /\ output' = previous /\ previous' = NoTree
           \/ UNCHANGED <<output, previous>>
  /\ UNCHANGED <<aside, fetches>>

Clean ==
  /\ step = "clean"
  /\ \/ previous = NoTree /\ Return("done") /\ UNCHANGED previous
     \/ /\ previous # NoTree /\ previous' \in Removed(previous)
        /\ UNCHANGED <<step, returned, staging>>
     \/ previous # NoTree /\ Return("error") /\ UNCHANGED previous
  /\ UNCHANGED <<output, aside, fetches>>

Killed ==
  /\ step # "idle"
  /\ Return("killed")
  /\ UNCHANGED <<output, previous, aside, fetches>>

Next ==
  Begin \/ Download \/ Inspect \/ Clear \/ MoveAside \/ Place \/ Clean \/ Killed

Spec == Init /\ [][Next]_vars
-----------------------------------------------------------------------------
(* A move never overwrites a tree: while the old one is aside the destination is *)
(* free, and the two places never hold the same tree.                          *)
TypeOK ==
  /\ {output, previous, staging} \subseteq Tree
  /\ fetches \in 0..MaxFetches
  /\ step \in {"move aside"} => previous = NoTree
  /\ step = "place" => output = NoTree
  /\ output # NoTree => output.number # previous.number

(* "an interrupted swap leaves one of the two complete trees rather than          *)
(* neither" (fetch.go:266-268): whatever was killed or failed, and however often  *)
(* the fetch was run again, a complete tree that was at the destination is        *)
(* replaced by a complete one, at the destination or beside it, and never by an  *)
(* older one.                                                                 *)
ATreeSurvives ==
  [][\A old \in {output, previous} :
       old.whole =>
         \E new \in {output', previous'} : new.whole /\ new.number >= old.number]_vars

(* What generation reads from the destination is a whole tree, or there is none  *)
(* (fetch.go:155-172): no order of failures leaves a part of one there.        *)
OutputIsWhole == output # NoTree => output.whole

(* A fetch that reports success has installed the tree it downloaded, and left   *)
(* nothing aside that it moved there (fetch.go:287-301).                       *)
DoneMeansInstalled ==
  returned = "done" => output.number = fetches /\ (aside => previous = NoTree)
=============================================================================
