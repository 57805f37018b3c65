------------------------------- MODULE Column775 -------------------------------
(***************************************************************************)
(* A chunk column of protocol 775 (wire/java/chunk/protocol775.go): sections that   *)
(* follow one another until the data runs out, each two counts and two paletted     *)
(* containers whose lengths derive from a bit width.  A column is a sequence of     *)
(* units of a few bits; a count and a VarInt are of one unit here.                 *)
(***************************************************************************)
EXTENDS Integers, Sequences, FiniteSets, FiniteSetsExt, SequencesExt

CONSTANTS
  UnitBits, LongUnits,          (* 8 bits and 8 bytes                          *)
  BlocksPerSection, BiomesPerSection,
  MaxBlockPaletteBits, MaxBiomePaletteBits, maxPackedBits,
  sectionsPerColumnLimit,
  Bottom,                       (* index of the lowest section                  *)
  BlockContainers, BiomeContainers,
                                (* [width, palette, values] that a server writes  *)
  MaxSections,                  (* bound: sections written                     *)
  Changes                       (* bound: units that another may be changed to    *)

Column775Assumption ==
  /\ {UnitBits, LongUnits, BlocksPerSection, BiomesPerSection} \subseteq Nat \ {0}
  /\ {MaxBlockPaletteBits, MaxBiomePaletteBits, MaxSections} \subseteq Nat
  /\ maxPackedBits \in 0..(UnitBits * LongUnits) /\ sectionsPerColumnLimit \in Nat
  /\ Bottom \in Int /\ Changes \subseteq 0..(2 ^ UnitBits - 1)

VARIABLES
  written,   (* the sections of the column, [blocks, biomes]                     *)
  data,      (* the units that arrived                                         *)
  split      (* [outcome, sections] of Split775, a section [Y, Blocks, Biomes]       *)

vars == <<written, data, split>>

Unread == [outcome |-> "unread", sections |-> <<>>]
Refused == [outcome |-> "refused", sections |-> <<>>]
-----------------------------------------------------------------------------
(* What a server writes.  A long holds as many whole entries as it has bits for,    *)
(* the first in its lowest bits, and its units go highest first.                  *)
Stored(container, maxBits, i) ==
  IF container.width > maxBits THEN container.values[i]
  ELSE (CHOOSE k \in DOMAIN container.palette : container.palette[k] = container.values[i]) - 1

Word(container, maxBits, first, perLong) ==
  MapThenSumSet(LAMBDA i : Stored(container, maxBits, i) * 2 ^ (container.width * (i - first)),
                {i \in DOMAIN container.values : i \in first..(first + perLong - 1)})

Units(word) ==
  [u \in 1..LongUnits |-> (word \div 2 ^ (UnitBits * (LongUnits - u))) % 2 ^ UnitBits]

Longs(container, maxBits) ==
  IF container.width = 0 THEN <<>>
  ELSE LET perLong == (UnitBits * LongUnits) \div container.width
           firsts == {i \in DOMAIN container.values : i % perLong = 1 % perLong}
       IN  FlattenSeq([k \in 1..Cardinality(firsts) |->
             Units(Word(container, maxBits, SetToSortSeq(firsts, <)[k], perLong))])

Encoded(container, maxBits) ==
  <<container.width>>
    \o (IF container.width = 0 THEN container.palette
        ELSE IF container.width <= maxBits
          THEN <<Len(container.palette)>> \o container.palette ELSE <<>>)
    \o Longs(container, maxBits)

(* The counts are of the server's making and nothing reads them.                  *)
EncodedSection(section) ==
  <<0, 0>> \o Encoded(section.blocks, MaxBlockPaletteBits)
           \o Encoded(section.biomes, MaxBiomePaletteBits)

Column(sections) == FlattenSeq([i \in DOMAIN sections |-> EncodedSection(sections[i])])

(* A column arrives as it was written, without its end, or with a unit changed.     *)
Init ==
  /\ written \in UNION {[1..n -> [blocks : BlockContainers, biomes : BiomeContainers]] :
                          n \in 0..MaxSections}
  /\ LET column == Column(written) IN
       data \in {SubSeq(column, 1, n) : n \in 0..Len(column)}
           \cup {[column EXCEPT ![i] = unit] : i \in DOMAIN column, unit \in Changes}
  /\ split = Unread
-----------------------------------------------------------------------------
(* A cursor is the number of units read, Past when one was read past the end or      *)
(* what it read cannot be.                                                     *)
Past == -1

Within(units, at) == IF at <= Len(units) THEN at ELSE Past

(* Faulty: the entries that do not fill a long are left out.                      *)
LongsForWhole(entries, perLong) == entries \div perLong

LongsFor(entries, perLong) == (entries + perLong - 1) \div perLong

(* readPalette from the cursor: one value, a counted palette, or nothing.           *)
PaletteEnd(units, at, width, maxPaletteBits) ==
  CASE width = 0 -> Within(units, at + 1)
    [] width \in 1..maxPaletteBits ->
         IF at >= Len(units) \/ units[at + 1] > 2 ^ width THEN Past
         ELSE Within(units, at + 1 + units[at + 1])
    [] OTHER -> at

(* container: the cursor behind one.                                          *)
ContainerEnd(units, at, entries, maxPaletteBits) ==
  IF at = Past \/ at >= Len(units) \/ units[at + 1] > maxPackedBits THEN Past
  ELSE LET width == units[at + 1]
           palette == PaletteEnd(units, at + 1, width, maxPaletteBits)
       IN  IF palette = Past \/ width = 0 THEN palette
           ELSE Within(units, palette + LongUnits *
                                LongsFor(entries, (UnitBits * LongUnits) \div width))

BlocksEnd(units, at) == ContainerEnd(units, at + 2, BlocksPerSection, MaxBlockPaletteBits)

BiomesEnd(units, at) == ContainerEnd(units, at, BiomesPerSection, MaxBiomePaletteBits)

(* The cursor behind each section, as far as there are any.                       *)
Ends(units) ==
  LET ends[i \in 0..sectionsPerColumnLimit] ==
        IF i = 0 THEN 0
        ELSE IF ends[i - 1] \in {Past, Len(units)} THEN ends[i - 1]
        ELSE BiomesEnd(units, BlocksEnd(units, ends[i - 1]))
  IN  ends

Sections(units, ends, n) ==
  [outcome |-> "split",
   sections |-> [i \in 1..n |->
     LET blocks == BlocksEnd(units, ends[i - 1]) IN
     [Y |-> Bottom + i - 1,
      Blocks |-> SubSeq(units, ends[i - 1] + 3, blocks),
      Biomes |-> SubSeq(units, blocks + 1, ends[i])]]]

(* The loop of Split775: until the data runs out, at a section's end.              *)
Split775(units) ==
  LET ends == Ends(units)
      n == {i \in 0..sectionsPerColumnLimit : ends[i] = Len(units)}
  IN  IF n = {} THEN Refused ELSE Sections(units, ends, Min(n))

(* decodeContainer: an entry for every block or biome, or why not.                 *)
OutOfData == <<"out of data">>
OutOfPalette == <<"out of palette">>

Word64(raw, at) ==
  MapThenSumSet(LAMBDA u : raw[at + u] * 2 ^ (UnitBits * (LongUnits - u)), 1..LongUnits)

DecodeContainer(raw, entries, maxPaletteBits) ==
  IF ContainerEnd(raw, 0, entries, maxPaletteBits) = Past THEN OutOfData
  ELSE IF raw[1] = 0 THEN [i \in 1..entries |-> raw[2]]
  ELSE LET width == raw[1]
           start == PaletteEnd(raw, 1, width, maxPaletteBits)
           perLong == (UnitBits * LongUnits) \div width
           values == [i \in 1..entries |->
                       (Word64(raw, start + LongUnits * ((i - 1) \div perLong))
                          \div 2 ^ (width * ((i - 1) % perLong))) % 2 ^ width]
       IN  IF width > maxPaletteBits THEN values
           ELSE IF \E i \in 1..entries : values[i] >= raw[2] THEN OutOfPalette
           ELSE [i \in 1..entries |-> raw[3 + values[i]]]

DecodeSection775(raw) == DecodeContainer(raw, BlocksPerSection, MaxBlockPaletteBits)
DecodeBiomes775(raw) == DecodeContainer(raw, BiomesPerSection, MaxBiomePaletteBits)

Next == split = Unread /\ split' = Split775(data) /\ UNCHANGED <<written, data>>

Spec == Init /\ [][Next]_vars
-----------------------------------------------------------------------------
(* What is read of a column that arrived as it was written is what was written,      *)
(* each section at its own height: the longs are as many as the width tells, with    *)
(* "the remainder" in a whole one (protocol775.go:31-32), although "getting it      *)
(* wrong silently misaligns every section after it" (protocol775.go:19-20).         *)
ReadsAsWritten ==
  split.outcome # "unread" /\ data = Column(written) =>
    /\ Len(split.sections) = Len(written)
    /\ \A i \in DOMAIN written :
         /\ split.sections[i].Y = Bottom + i - 1
         /\ DecodeSection775(split.sections[i].Blocks) = written[i].blocks.values
         /\ DecodeBiomes775(split.sections[i].Biomes) = written[i].biomes.values

(* A column without its end is refused, but for one that lacks whole sections, of    *)
(* which nothing in the data can tell.                                          *)
CutIsRefused ==
  split.outcome = "split" /\ IsPrefix(data, Column(written)) =>
    \E n \in 0..Len(written) :
      data = Column(SubSeq(written, 1, n)) /\ Len(split.sections) = n

(* "container walks one paletted container and returns its whole encoding ... so a   *)
(* decode can read it again" (protocol775.go:224-226): whatever was damaged, what a   *)
(* split hands out covers the data, and its decoding uses every unit of it and        *)
(* fails of nothing but an entry that is not in its palette.                       *)
SplitSuitsDecode ==
  split.outcome = "split" =>
    /\ Len(data) = MapThenSumSet(LAMBDA i : 2 + Len(split.sections[i].Blocks) + Len(split.sections[i].Biomes),
                                 DOMAIN split.sections)
    /\ \A i \in DOMAIN split.sections :
         /\ DecodeSection775(split.sections[i].Blocks) # OutOfData
         /\ DecodeBiomes775(split.sections[i].Biomes) # OutOfData
         /\ ContainerEnd(split.sections[i].Blocks, 0, BlocksPerSection, MaxBlockPaletteBits)
              = Len(split.sections[i].Blocks)
         /\ ContainerEnd(split.sections[i].Biomes, 0, BiomesPerSection, MaxBiomePaletteBits)
              = Len(split.sections[i].Biomes)
=============================================================================
