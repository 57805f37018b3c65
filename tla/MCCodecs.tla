------------------------------ MODULE MCCodecs ------------------------------
(***************************************************************************)
(* Every layer between the bytes of a transport and the values of a packet: the     *)
(* framer behind the hook, the compression envelope, the stream cipher, the columns   *)
(* of either protocol and the named binary tags.  A behaviour is of one of them; the  *)
(* variables of the others are idle.                                            *)
(***************************************************************************)
EXTENDS Integers, Sequences

VARIABLES
  part,
  seen, unread, ended, prefix, body, frames, phase,                 (* Framing   *)
  limits, control, written, envelope, outcome,                      (* Envelope  *)
  Encrypt, vector, encrypter, decrypter, plain, crossed, read,      (* Cfb8      *)
  layout, data47, assumed, column, split47,                         (* Column47  *)
  sections, data775, split775,                                      (* Column775 *)
  form, value, tags, verdict                                        (* Nbt       *)

framing    == <<seen, unread, ended, prefix, body, frames, phase>>
enveloping == <<limits, control, written, envelope, outcome>>
ciphering  == <<Encrypt, vector, encrypter, decrypter, plain, crossed, read>>
columns    == <<layout, data47, assumed, column, split47, sections, data775, split775>>
tagging    == <<form, value, tags, verdict>>

(* Bytes of three bits and a continuation bit, integers of eight bits.               *)
Frames == INSTANCE Framing WITH
  GroupBits <- 3, Groups <- 3, Width <- 8, FrameBytes <- 10, Hook <- TRUE,
  BodyBytes <- {9}, MaxFrames <- 2

Envelopes == INSTANCE Envelope WITH
  FrameLimits <- {5, 9, 12}, DecompressedLimits <- {4, 8, 20}, Thresholds <- {0, 1, 8},
  Controls <- {"strict", "compatible"}, MaxBytes <- 9

(* Bytes of one bit: every block cipher there is on a register of two.               *)
Ciphers == INSTANCE Cfb8 WITH
  Bytes <- {0, 1}, BlockSize <- 2, Vectors <- {<<0, 0>>, <<0, 1>>}, MaxBytes <- 5,
  Xor <- [pair \in {0, 1} \X {0, 1} |-> (pair[1] + pair[2]) % 2]

Columns47 == INSTANCE Column47 WITH
  Height <- 3, BlockUnits <- 4, LightUnits <- 2, BiomeUnits <- 1,
  data <- data47, split <- split47
-----------------------------------------------------------------------------
(* Units of three bits, two to a long, and four blocks and two biomes to a section;   *)
(* palettes up to two bits and one.  Every kind of container is written: one value, a  *)
(* palette, a palette with an entry nothing uses, and the registry's own IDs in longs   *)
(* that their width fills or does not.                                           *)
Contained(width, palette, values) == [width |-> width, palette |-> palette, values |-> values]

Blocks ==
  {Contained(0, <<5>>, <<5, 5, 5, 5>>),
   Contained(1, <<7, 1>>, <<7, 1, 1, 7>>),
   Contained(2, <<6, 0, 3>>, <<3, 6, 6, 3>>),
   Contained(2, <<4, 1, 2, 7>>, <<7, 2, 1, 4>>),
   Contained(3, <<>>, <<5, 0, 7, 2>>),
   Contained(4, <<>>, <<9, 15, 0, 4>>)}

Biomes ==
  {Contained(0, <<3>>, <<3, 3>>),
   Contained(1, <<2, 6>>, <<6, 2>>),
   Contained(2, <<>>, <<1, 3>>),
   Contained(3, <<>>, <<6, 4>>)}

Columns775 == INSTANCE Column775 WITH
  UnitBits <- 3, LongUnits <- 2, BlocksPerSection <- 4, BiomesPerSection <- 2,
  MaxBlockPaletteBits <- 2, MaxBiomePaletteBits <- 1, maxPackedBits <- 4,
  sectionsPerColumnLimit <- 2, Bottom <- -1, BlockContainers <- Blocks,
  BiomeContainers <- Biomes, MaxSections <- 2, Changes <- {0, 1, 2, 3, 4, 7},
  written <- sections, data <- data775, split <- split775
-----------------------------------------------------------------------------
(* Numbers, lists, and every compound of two entries, with lists and compounds within   *)
(* them, at up to four levels.                                                  *)
TagEnd == 0
TagInt == 1
TagList == 2
TagCompound == 3

NumberOf(n) == [tag |-> TagInt, int |-> n]

ListOf(tag, items) == [tag |-> TagList, of |-> tag, items |-> items]

CompoundOf(entries) == [tag |-> TagCompound, entries |-> entries]

Entry(name, v) == [name |-> name, value |-> v]

ListTags == {ListOf(TagEnd, <<>>), ListOf(TagInt, <<NumberOf(3), NumberOf(0)>>),
          ListOf(TagInt, <<NumberOf(0), NumberOf(1), NumberOf(2)>>),
          ListOf(TagList, <<ListOf(TagInt, <<NumberOf(1)>>), ListOf(TagEnd, <<>>)>>)}

SmallTags == {CompoundOf(<<>>)} \cup
  {CompoundOf(<<Entry(a, v)>>) : a \in {0, 1}, v \in {NumberOf(0), NumberOf(2)} \cup ListTags}

MiddleTags == {NumberOf(1)} \cup ListTags \cup SmallTags
  \cup {ListOf(TagCompound, <<c, CompoundOf(<<>>)>>) : c \in SmallTags}

LargerTags == {CompoundOf(<<Entry(a, v), Entry(b, w)>>) : a, b \in {0, 1}, v, w \in MiddleTags}

ThreeTags == {CompoundOf(<<Entry(0, NumberOf(1)), Entry(1, NumberOf(2)), Entry(2, NumberOf(3))>>)}

NestedTags == {CompoundOf(<<Entry(a, v)>>) : a \in {0, 1}, v \in LargerTags}

AllTags == {CompoundOf(<<>>)} \cup MiddleTags \cup LargerTags \cup ThreeTags \cup NestedTags

Tags == INSTANCE Nbt WITH
  RecursionDepth <- 4, CollectionItems <- 2, Values <- AllTags, Names <- {0, 1},
  MaxUnits <- 7, data <- tags, outcome <- verdict
-----------------------------------------------------------------------------
ASSUME Frames!FramingAssumption /\ Envelopes!EnvelopeAssumption /\ Ciphers!Cfb8Assumption
ASSUME Columns47!Column47Assumption /\ Columns775!Column775Assumption /\ Tags!NbtAssumption

Idle == "idle"

EnvelopeIdle ==
  limits = Idle /\ control = Idle /\ written = Idle /\ envelope = Idle /\ outcome = Idle

CipherIdle ==
  /\ Encrypt = Idle /\ vector = Idle /\ encrypter = Idle /\ decrypter = Idle
  /\ plain = Idle /\ crossed = Idle /\ read = Idle

Column47Idle ==
  layout = Idle /\ data47 = Idle /\ assumed = Idle /\ column = Idle /\ split47 = Idle

Column775Idle == sections = Idle /\ data775 = Idle /\ split775 = Idle

TagsIdle == form = Idle /\ value = Idle /\ tags = Idle /\ verdict = Idle

Part(name, itsInit, isIdle) == IF part = name THEN itsInit ELSE isIdle

CodecsInit ==
  /\ part \in {"frames", "envelope", "cipher", "column 47", "column 775", "tags"}
  /\ Frames!Init
  /\ Part("envelope", Envelopes!Init, EnvelopeIdle)
  /\ Part("cipher", Ciphers!Init, CipherIdle)
  /\ Part("column 47", Columns47!Init, Column47Idle)
  /\ Part("column 775", Columns775!Init, Column775Idle)
  /\ Part("tags", Tags!Init, TagsIdle)

CodecsNext ==
  /\ UNCHANGED part
  /\ \/ part = "frames" /\ Frames!Next /\ UNCHANGED <<enveloping, ciphering, columns, tagging>>
     \/ part = "envelope" /\ Envelopes!Next /\ UNCHANGED <<framing, ciphering, columns, tagging>>
     \/ part = "cipher" /\ Ciphers!Next /\ UNCHANGED <<framing, enveloping, columns, tagging>>
     \/ /\ part = "column 47" /\ Columns47!Next
        /\ UNCHANGED <<framing, enveloping, ciphering, sections, data775, split775, tagging>>
     \/ /\ part = "column 775" /\ Columns775!Next
        /\ UNCHANGED <<framing, enveloping, ciphering, layout, data47, assumed, column,
                       split47, tagging>>
     \/ part = "tags" /\ Tags!Next /\ UNCHANGED <<framing, enveloping, ciphering, columns>>

CodecsSpec ==
  CodecsInit /\ [][CodecsNext]_<<part, framing, enveloping, ciphering, columns, tagging>>
-----------------------------------------------------------------------------
(* What one side wrote the other reads: a body out of its envelope (compression.go     *)
(* 75-94, 248-310), bytes through the cipher however they are cut up (cfb8.go 52), the  *)
(* blocks, light and biomes of a column or whichever of them arrived (protocol47.go      *)
(* 58-59, 89-97, 123-127, protocol775.go 19-20), and a number at any path of a tag        *)
(* (nbt_lookup.go 34).                                                         *)
ReadsAsWritten ==
  /\ part = "envelope" => Envelopes!RoundTrip
  /\ part = "cipher" =>
       Ciphers!TypeOK /\ Ciphers!IsCfb8 /\ Ciphers!ReadsWhatWasWritten /\ Ciphers!InStep
  /\ part = "column 47" =>
       /\ Columns47!NothingMisread /\ Columns47!WholeIsRead
       /\ Columns47!BulkComesApart /\ Columns47!BlocksNeedNoDimension
  /\ part = "column 775" => Columns775!ReadsAsWritten
  /\ part = "tags" => Tags!LooksUpWhatIsThere

(* Nothing is read that nobody wrote, and nothing legal is refused: a byte stream has     *)
(* one reading as frames (framer.go 33-60, 110-140), no body is above its limit            *)
(* (compression.go 142), a column cut anywhere but between sections is refused and a       *)
(* damaged one is split only as it decodes (protocol775.go 224-226), and the tags that      *)
(* are accepted are the legal ones, which a walk without checks never leaves                *)
(* (nbt_lookup.go 21-22).                                                        *)
ReadsNothingElse ==
  /\ part = "frames" =>
       Frames!TypeOK /\ Frames!FramesAreCanonical /\ Frames!FailsOnNoFrame
  /\ part = "envelope" => Envelopes!BodyBounded
  /\ part = "column 775" => Columns775!CutIsRefused /\ Columns775!SplitSuitsDecode
  /\ part = "tags" => Tags!LegalIsValid /\ Tags!WalksOnlyValues
=============================================================================
