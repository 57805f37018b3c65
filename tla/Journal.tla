------------------------------- MODULE Journal -------------------------------
(***************************************************************************)
(* What a capture promises, without its file: an append-only sequence of      *)
(* records that a reader reads back in order, from the first, until it ends.   *)
(* An ending that claims to be complete is reached only when every record      *)
(* written has been read; any other ending says that it may not have been.     *)
(***************************************************************************)
EXTENDS Naturals, Sequences

CONSTANT Records

VARIABLES
  written,   (* the records the writer accepted, oldest first              *)
  read,      (* the records read back                                       *)
  ending     (* "open" | "complete" | "incomplete"                          *)

Init == written = <<>> /\ read = <<>> /\ ending = "open"

Write(r) ==
  /\ ending # "complete"
  /\ written' = Append(written, r)
  /\ UNCHANGED <<read, ending>>

ReadBack ==
  /\ ending = "open"
  /\ Len(read) < Len(written)
  /\ read' = Append(read, written[Len(read) + 1])
  /\ UNCHANGED <<written, ending>>

End(how) ==
  /\ ending = "open"
  /\ how = "complete" => read = written
  /\ ending' = how
  /\ UNCHANGED <<written, read>>

Next ==
  \/ \E r \in Records : Write(r)
  \/ ReadBack
  \/ \E how \in {"complete", "incomplete"} : End(how)

Spec == Init /\ [][Next]_<<written, read, ending>>
=============================================================================
