---------------------------------- MODULE Nbt ----------------------------------
(***************************************************************************)
(* Named binary tags (wire/java/nbt.go, nbt_network.go, nbt_lookup.go): bytes that   *)
(* are validated once, kept as they came, and walked a second time, by other code,    *)
(* to look a value up.  A unit is a tag, a name, a count or a number; of the tags     *)
(* that hold no others one stands for all.                                      *)
(***************************************************************************)
EXTENDS Integers, Sequences, FiniteSets, SequencesExt

CONSTANTS
  RecursionDepth, CollectionItems,   (* the limits                             *)
  Values,       (* that a peer may send                                       *)
  Names,        (* of their entries                                          *)
  MaxUnits      (* bound: units of data that no peer meant                     *)

TagEnd == 0
TagInt == 1
TagList == 2
TagCompound == 3

NbtAssumption ==
  RecursionDepth \in Nat \ {0} /\ CollectionItems \in Nat \ {0} /\ MaxUnits \in Nat
    /\ Names \subseteq 0..TagCompound

VARIABLES
  form,      (* "named" of protocol 47, "network" of 775                         *)
  value,     (* the value that was sent, or NoValue                              *)
  data,
  outcome    (* "new", "valid" or "refused"                                    *)

vars == <<form, value, data, outcome>>

NoValue == [tag |-> TagEnd]

(* The encoding of a value without the tag before it.                             *)
RECURSIVE Payload(_)
Payload(v) ==
  CASE v.tag = TagInt -> <<v.int>>
    [] v.tag = TagList ->
         <<v.of, Len(v.items)>> \o FlattenSeq([i \in DOMAIN v.items |-> Payload(v.items[i])])
    [] v.tag = TagCompound ->
         FlattenSeq([i \in DOMAIN v.entries |->
           <<v.entries[i].value.tag, v.entries[i].name>> \o Payload(v.entries[i].value)])
         \o <<TagEnd>>

RootName == 0

Encoded(v, f) ==
  <<v.tag>> \o (IF f = "named" THEN <<RootName>> ELSE <<>>) \o Payload(v)

Init ==
  /\ form \in {"named", "network"} /\ outcome = "new"
  /\ \/ value \in Values /\ data = Encoded(value, form)
     \/ /\ value = NoValue
        /\ data \in {<<tag>> \o d : tag \in 0..TagCompound,
                       d \in UNION {[1..n -> 0..TagCompound] : n \in 0..MaxUnits}}
-----------------------------------------------------------------------------
Malformed == -1

Within(units, at) == IF at <= Len(units) THEN at ELSE Malformed

(* readPayload, readList and readCompound: the cursor behind a payload.             *)
RECURSIVE ReadPayload(_, _, _, _), ReadItems(_, _, _, _, _), ReadEntries(_, _, _, _)

ReadList(units, at, depth) ==
  IF at + 2 > Len(units) THEN Malformed
  ELSE LET of == units[at + 1]
           count == units[at + 2]
       IN  IF count > CollectionItems \/ (of = TagEnd /\ count # 0) THEN Malformed
           ELSE ReadItems(units, at + 2, of, count, depth)

ReadItems(units, at, of, count, depth) ==
  IF at = Malformed \/ count = 0 THEN at
  ELSE ReadItems(units, ReadPayload(units, at, of, depth + 1), of, count - 1, depth)

NewKey(name, keys) == name \notin keys

ReadEntries(units, at, depth, keys) ==
  IF at = Malformed \/ at >= Len(units) THEN Malformed
  ELSE IF units[at + 1] = TagEnd THEN at + 1
  ELSE IF \/ Cardinality(keys) >= CollectionItems \/ at + 2 > Len(units)
          \/ ~NewKey(units[at + 2], keys) THEN Malformed
  ELSE ReadEntries(units, ReadPayload(units, at + 2, units[at + 1], depth + 1), depth,
                   keys \cup {units[at + 2]})

ReadPayload(units, at, tag, depth) ==
  CASE depth > RecursionDepth -> Malformed
    [] depth <= RecursionDepth /\ tag = TagInt -> Within(units, at + 1)
    [] depth <= RecursionDepth /\ tag = TagList -> ReadList(units, at, depth)
    [] depth <= RecursionDepth /\ tag = TagCompound -> ReadEntries(units, at, depth, {})
    [] OTHER -> Malformed

(* validateNBT and validateNetworkNBT, and that nothing is behind the value.         *)
Start(f) == IF f = "named" THEN 2 ELSE 1

Valid(units, f) ==
  /\ IF f = "named" THEN units[1] = TagCompound ELSE units[1] # TagEnd
  /\ Start(f) <= Len(units)
  /\ ReadPayload(units, Start(f), units[1], 1) = Len(units)

Validate ==
  /\ outcome = "new" /\ outcome' = IF Valid(data, form) THEN "valid" ELSE "refused"
  /\ UNCHANGED <<form, value, data>>

Next == Validate

Spec == Init /\ [][Next]_vars
-----------------------------------------------------------------------------
(* nbtWalker, which knows no limits.                                            *)
RECURSIVE SkipPayload(_, _, _), SkipItems(_, _, _, _), SkipEntries(_, _)

SkipItems(units, at, of, count) ==
  IF at = Malformed \/ count = 0 THEN at
  ELSE SkipItems(units, SkipPayload(units, at, of), of, count - 1)

SkipList(units, at) ==
  IF at + 2 > Len(units) THEN Malformed ELSE SkipItems(units, at + 2, units[at + 1], units[at + 2])

SkipEntries(units, at) ==
  IF at = Malformed \/ at >= Len(units) THEN Malformed
  ELSE IF units[at + 1] = TagEnd THEN at + 1
  ELSE IF at + 2 > Len(units) THEN Malformed
  ELSE SkipEntries(units, SkipPayload(units, at + 2, units[at + 1]))

SkipPayload(units, at, tag) ==
  CASE tag = TagInt -> Within(units, at + 1)
    [] tag = TagList -> SkipList(units, at)
    [] tag = TagCompound -> SkipEntries(units, at)
    [] OTHER -> Malformed

Absent == [found |-> "absent", at |-> 0, tag |-> TagEnd]
Damaged == [found |-> "damaged", at |-> 0, tag |-> TagEnd]

(* enter: the payload of the named entry, from the cursor behind a compound's tag.   *)
RECURSIVE Enter(_, _, _)
Enter(units, at, key) ==
  IF at = Malformed \/ at >= Len(units) THEN Damaged
  ELSE IF units[at + 1] = TagEnd THEN Absent
  ELSE IF at + 2 > Len(units) THEN Damaged
  ELSE IF units[at + 2] = key
    THEN [found |-> "found", at |-> at + 2, tag |-> units[at + 1]]
  ELSE Enter(units, SkipPayload(units, at + 2, units[at + 1]), key)

RECURSIVE Descend(_, _, _)
Descend(units, at, path) ==
  LET entry == Enter(units, at, Head(path)) IN
  IF Len(path) = 1 \/ entry.found # "found" THEN entry
  ELSE IF entry.tag # TagCompound THEN Absent
  ELSE Descend(units, entry.at, Tail(path))

(* Int: the number at a path, or none.                                          *)
Lookup(units, f, path) ==
  IF units[1] # TagCompound THEN Absent ELSE Descend(units, Start(f), path)

Int32(units, f, path) ==
  LET entry == Lookup(units, f, path) IN
  IF entry.found = "found" /\ entry.tag = TagInt THEN {units[entry.at + 1]} ELSE {}
-----------------------------------------------------------------------------
Paths == UNION {[1..n -> Names] : n \in 1..3}

(* What a value says of itself.                                                *)
RECURSIVE At(_, _)
At(v, path) ==
  IF path = <<>> THEN IF v.tag = TagInt THEN {v.int} ELSE {}
  ELSE IF v.tag # TagCompound THEN {}
  ELSE UNION {At(v.entries[i].value, Tail(path)) :
                i \in {j \in DOMAIN v.entries : v.entries[j].name = Head(path)}}

RECURSIVE Legal(_, _)
Legal(v, depth) ==
  /\ depth <= RecursionDepth
  /\ v.tag = TagList =>
       Len(v.items) <= CollectionItems /\ \A i \in DOMAIN v.items : Legal(v.items[i], depth + 1)
  /\ v.tag = TagCompound =>
       /\ Len(v.entries) <= CollectionItems
       /\ \A i, j \in DOMAIN v.entries : v.entries[i].name = v.entries[j].name => i = j
       /\ \A i \in DOMAIN v.entries : Legal(v.entries[i].value, depth + 1)

(* A value is accepted exactly when it keeps the limits of depth and of items        *)
(* (limits.go:116, :137) and has no key twice; in the named form it is a compound.   *)
LegalIsValid ==
  value # NoValue /\ outcome # "new" =>
    (outcome = "valid" <=> Legal(value, 1) /\ (form = "named" => value.tag = TagCompound))

(* "A caller must distinguish from a real zero" (nbt_lookup.go:34): what Int finds     *)
(* of an accepted value, at any path, is what the value has there, and it finds        *)
(* nothing where there is no number.                                            *)
LooksUpWhatIsThere ==
  value # NoValue /\ outcome = "valid" =>
    \A path \in Paths : Int32(data, form, path) = At(value, path)

(* "The value was validated when it was constructed, so a walk over it cannot find a   *)
(* malformed tag" (nbt_lookup.go:21-22): the walker never leaves data that was         *)
(* accepted, whoever made it up.                                                *)
WalksOnlyValues ==
  outcome = "valid" => \A path \in Paths : Lookup(data, form, path).found # "damaged"
=============================================================================
