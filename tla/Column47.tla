------------------------------- MODULE Column47 -------------------------------
(***************************************************************************)
(* A chunk column of protocol 47 (wire/java/chunk/protocol47.go): positional, of    *)
(* a shape that only the packet and the dimension tell.  A unit of data is          *)
(* labelled with what a server wrote it for, so that a reader that is out of step   *)
(* is seen to be.                                                             *)
(***************************************************************************)
EXTENDS Naturals, Sequences, FiniteSets, FiniteSetsExt, SequencesExt

CONSTANTS
  Height,       (* sections of a dimension                                     *)
  BlockUnits, LightUnits, BiomeUnits   (* lengths of the parts: 8192, 2048, 256   *)

(* Every dimension has the same height, and a section's light is longer than the    *)
(* biomes of a column.                                                        *)
Column47Assumption ==
  /\ Height \in Nat /\ {BlockUnits, LightUnits, BiomeUnits} \subseteq Nat \ {0}
  /\ BiomeUnits < LightUnits /\ LightUnits < BlockUnits

VARIABLES
  layout,    (* [bitmap, skyLight, groundUp] of the column that was written        *)
  data,      (* what arrived of it                                            *)
  assumed,   (* the layout it is read with                                     *)
  column,    (* what Decode47 made of it, or Refused, or Unread                   *)
  split      (* [sections, rest, short] of Split47, or Unread                     *)

vars == <<layout, data, assumed, column, split>>

Layouts == [bitmap : SUBSET (0..(Height - 1)), skyLight : BOOLEAN, groundUp : BOOLEAN]

Ascending(bitmap) == SetToSortSeq(bitmap, <)

Part(what, y, n) == [i \in 1..n |-> <<what, y, i>>]

Parts(what, bitmap, n) ==
  FlattenSeq([i \in 1..Cardinality(bitmap) |-> Part(what, Ascending(bitmap)[i], n)])

(* What a server writes: blocks[present] blockLight[present] skyLight[present]?     *)
(* biomes? (protocol47.go:12).                                                *)
Written(l) ==
  Parts("blocks", l.bitmap, BlockUnits) \o Parts("block light", l.bitmap, LightUnits)
    \o (IF l.skyLight THEN Parts("sky light", l.bitmap, LightUnits) ELSE <<>>)
    \o (IF l.groundUp THEN Part("biomes", 0, BiomeUnits) ELSE <<>>)

Unread == [outcome |-> "unread"]
Refused == [outcome |-> "refused"]

(* A column arrives whole, without its end, or with another column behind it.       *)
Init ==
  /\ layout \in Layouts
  /\ data \in {SubSeq(Written(layout), 1, n) : n \in 0..Len(Written(layout))}
         \cup {Written(layout) \o Written(other) : other \in Layouts}
  /\ assumed \in {l \in Layouts : l.bitmap = layout.bitmap}
  /\ column = Unread /\ split = Unread
-----------------------------------------------------------------------------
Bytes(l) ==
  Cardinality(l.bitmap) *
    (BlockUnits + LightUnits + (IF l.skyLight THEN LightUnits ELSE 0))
  + (IF l.groundUp THEN BiomeUnits ELSE 0)

(* The loop of Split47: the sections for which there is room, with the rest or an   *)
(* error.                                                                     *)
Split47(bitmap, units) ==
  LET fit == Min({Cardinality(bitmap), Len(units) \div BlockUnits})
      short == fit < Cardinality(bitmap)
  IN  [outcome |-> "split",
       sections |-> [i \in 1..fit |->
         [Y |-> Ascending(bitmap)[i],
          Blocks |-> SubSeq(units, (i - 1) * BlockUnits + 1, i * BlockUnits)]],
       rest |-> IF short THEN <<>> ELSE SubSeq(units, fit * BlockUnits + 1, Len(units)),
       short |-> short]

(* readLight47 from the cursor `at`.                                            *)
ReadLight(units, at, sections) ==
  [i \in 1..sections |-> SubSeq(units, at + (i - 1) * LightUnits + 1, at + i * LightUnits)]

(* The exact length is what lets the takes behind it never run out.               *)
Decode47(l, units) ==
  IF Len(units) # Bytes(l) THEN Refused
  ELSE LET walked == Split47(l.bitmap, units)
           n == Len(walked.sections)
           sky == n * LightUnits
           biomes == sky + (IF l.skyLight THEN n * LightUnits ELSE 0)
       IN  [outcome |-> "read",
            Sections |-> walked.sections,
            BlockLight |-> ReadLight(walked.rest, 0, n),
            SkyLight |-> IF l.skyLight THEN ReadLight(walked.rest, sky, n) ELSE <<>>,
            Biomes |-> IF l.groundUp THEN SubSeq(walked.rest, biomes + 1, biomes + BiomeUnits)
                       ELSE <<>>]

Decode == column = Unread /\ column' = Decode47(assumed, data) /\ UNCHANGED <<layout, data, assumed, split>>

Split ==
  /\ split = Unread /\ split' = Split47(assumed.bitmap, data)
  /\ UNCHANGED <<layout, data, assumed, column>>

Next == Decode \/ Split

Spec == Init /\ [][Next]_vars
-----------------------------------------------------------------------------
Given == Written(layout)

OwnLight(what) ==
  [i \in 1..Cardinality(layout.bitmap) |-> Part(what, Ascending(layout.bitmap)[i], LightUnits)]

(* "A column read with the wrong sky-light or ground-up setting does not fail on   *)
(* its block data ... the exact-fit check at the end is what catches it"           *)
(* (protocol47.go:123-127): a column that is read has its own blocks, light and     *)
(* biomes in every part, whatever layout a whole one is read with, and however one   *)
(* whose layout is known arrived.                                             *)
NothingMisread ==
  column.outcome = "read" /\ (data = Given \/ assumed = layout) =>
    /\ data = Given
    /\ \A i \in DOMAIN column.Sections :
         column.Sections[i].Blocks = Part("blocks", column.Sections[i].Y, BlockUnits)
    /\ [i \in DOMAIN column.Sections |-> column.Sections[i].Y] = Ascending(layout.bitmap)
    /\ column.BlockLight = OwnLight("block light")
    /\ column.SkyLight = IF layout.skyLight THEN OwnLight("sky light") ELSE <<>>
    /\ column.Biomes = IF layout.groundUp THEN Part("biomes", 0, BiomeUnits) ELSE <<>>

(* A column that arrived whole is read when its layout is known.                  *)
WholeIsRead ==
  column.outcome = "refused" => data # Given \/ assumed # layout

(* Bytes "is the only way to find where one column ends inside the bulk packet"     *)
(* (protocol47.go:58-59): cut there, a column and the one behind it come apart.      *)
BulkComesApart ==
  IsStrictPrefix(Given, data) => SubSeq(data, 1, Bytes(layout)) = Given

(* Blocks need no dimension, and "a column that ends inside a section is short,     *)
(* which is the server's business rather than a reason to lose what did arrive"     *)
(* (protocol47.go:89-97): whatever the assumption, every section whose blocks       *)
(* arrived is there, the rest is returned unread, and only a missing block is an    *)
(* error.                                                                     *)
BlocksNeedNoDimension ==
  split # Unread =>
    LET blocks == Parts("blocks", layout.bitmap, BlockUnits)
        whole == {y \in layout.bitmap : \A i \in 1..BlockUnits :
                    <<"blocks", y, i>> \in ToSet(data)}
    IN  /\ split.sections = [i \in 1..Cardinality(whole) |->
             [Y |-> Ascending(whole)[i], Blocks |-> Part("blocks", Ascending(whole)[i], BlockUnits)]]
        /\ split.short <=> Len(data) < Len(blocks)
        /\ split.short \/ blocks \o split.rest = data
=============================================================================
