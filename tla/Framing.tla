------------------------------ MODULE Framing -------------------------------
(***************************************************************************)
(* From transport bytes to frames: the pre-frame hook of a legacy ping           *)
(* (preframe.go, wire/java/legacy_ping.go), the VarInt length prefix            *)
(* (wire/java/varint.go) and the framer (wire/java/framer.go), reading what any   *)
(* peer sends, byte by byte, until the transport ends.                         *)
(*                                                                         *)
(* A byte is GroupBits bits of a number and a continuation bit, a VarInt at most  *)
(* Groups bytes of an integer of Width bits: 7, 5 and 32 in the code.           *)
(***************************************************************************)
EXTENDS Naturals, Integers, Sequences, SequencesExt

CONSTANTS
  GroupBits, Groups, Width,
  FrameBytes,     (* limits.FrameBytes()                                       *)
  Hook,           (* the stream was given the legacy ping hook                 *)
  BodyBytes,      (* the bytes that payloads are made of                       *)
  MaxFrames       (* bound: the frames a behaviour reads                       *)

(* limits.go: no frame limit is above 2^26, so a length that is accepted has its   *)
(* last group empty.                                                          *)
FramingAssumption ==
  /\ FrameBytes \in Nat \ {0} /\ FrameBytes < 2^(GroupBits * (Groups - 1))
  /\ GroupBits * (Groups - 1) < Width /\ Width <= GroupBits * Groups
  /\ Hook \in BOOLEAN /\ BodyBytes \subseteq 0 .. 2^(GroupBits + 1) - 1

Continues == 2^GroupBits
Bytes == 0 .. 2 * Continues - 1
Unsigned(value) == value % 2^Width
Signed(bits) == IF bits < 2^(Width - 1) THEN bits ELSE bits - 2^Width

VarIntSize(value) ==
  CHOOSE n \in 1 .. Groups :
    /\ Unsigned(value) < 2^(GroupBits * n)
    /\ \A k \in 1 .. n - 1 : Unsigned(value) >= 2^(GroupBits * k)

PutVarInt(value) ==
  [i \in 1 .. VarIntSize(value) |->
     ((Unsigned(value) \div 2^(GroupBits * (i - 1))) % Continues)
       + (IF i < VarIntSize(value) THEN Continues ELSE 0)]

(* What the bytes of a prefix add up to; bits beyond the width are lost.          *)
VarInt(prefix) ==
  Signed(FoldLeftDomain(LAMBDA sum, i : sum + ((prefix[i] % Continues) * 2^(GroupBits * (i - 1))),
                        0, prefix) % 2^Width)

BuildFrame(payload) == PutVarInt(Len(payload)) \o payload

(* The request FE 01: all bits of a group but the lowest, and more to come; one.    *)
LegacyPing == <<2 * Continues - 2, 1>>
-----------------------------------------------------------------------------
VARIABLES
  seen,      (* every byte the transport has delivered                          *)
  unread,    (* those the buffered reader still holds                          *)
  ended,     (* the transport has ended                                       *)
  prefix, body,  (* the frame being read                                       *)
  frames,    (* the payloads read so far                                      *)
  phase      (* "peek", "length" or "payload"; at the end "claimed" by the hook,  *)
             (* "closed" for an error that is io.EOF, or "failed"              *)

vars == <<seen, unread, ended, prefix, body, frames, phase>>

Init ==
  /\ seen = <<>> /\ unread = <<>> /\ ended = FALSE
  /\ prefix = <<>> /\ body = <<>> /\ frames = <<>>
  /\ phase = IF Hook THEN "peek" ELSE "length"

TransportEnds ==
  /\ ~ended /\ ended' = TRUE
  /\ UNCHANGED <<seen, unread, prefix, body, frames, phase>>

(* Peek(2) buffers what it looks at.                                            *)
Peek(b) ==
  /\ phase = "peek" /\ Len(unread) < 2 /\ ~ended
  /\ seen' = Append(seen, b) /\ unread' = Append(unread, b)
  /\ UNCHANGED <<ended, prefix, body, frames, phase>>

Claims ==
  /\ phase = "peek" /\ unread = LegacyPing
  /\ phase' = "claimed" /\ unread' = <<>>
  /\ UNCHANGED <<seen, ended, prefix, body, frames>>

(* Other bytes, or too few of them: the framer begins where the hook did.         *)
Declines ==
  /\ phase = "peek" /\ (ended \/ Len(unread) = 2) /\ unread # LegacyPing
  /\ phase' = "length"
  /\ UNCHANGED <<seen, unread, ended, prefix, body, frames>>
-----------------------------------------------------------------------------
(* A byte of the reader: one that is buffered, or else a new one of the transport. *)
Delivers(b) ==
  \/ unread # <<>> /\ b = Head(unread) /\ unread' = Tail(unread) /\ UNCHANGED seen
  \/ unread = <<>> /\ ~ended /\ seen' = Append(seen, b) /\ UNCHANGED unread

NoMore == unread = <<>> /\ ended

Fails ==
  /\ phase' = "failed"
  /\ UNCHANGED <<body, frames>>

(* Faulty: lengths padded with empty groups are taken.                           *)
AcceptsPadded(bytes) == VarInt(bytes) \in 1 .. FrameBytes

(* A length is taken when it is positive, within the limit and not padded.         *)
Accepts(bytes) == VarInt(bytes) \in 1 .. FrameBytes /\ VarIntSize(VarInt(bytes)) = Len(bytes)

ReadLengthByte(b) ==
  /\ phase = "length" /\ Len(frames) < MaxFrames
  /\ Delivers(b)
  /\ prefix' = Append(prefix, b)
  /\ \/ b >= Continues /\ Len(prefix') < Groups /\ UNCHANGED <<phase, body, frames>>
     \/ b >= Continues /\ Len(prefix') = Groups /\ Fails
     \/ b < Continues /\ ~Accepts(prefix') /\ Fails
     \/ b < Continues /\ Accepts(prefix') /\ phase' = "payload" /\ UNCHANGED <<body, frames>>
  /\ UNCHANGED ended

(* An end before the first byte is io.EOF, a later one io.ErrUnexpectedEOF.        *)
LengthCut ==
  /\ phase = "length" /\ NoMore
  /\ phase' = IF prefix = <<>> THEN "closed" ELSE "failed"
  /\ UNCHANGED <<seen, unread, ended, prefix, body, frames>>

ReadPayloadByte(b) ==
  /\ phase = "payload"
  /\ Delivers(b)
  /\ IF Len(body) + 1 < VarInt(prefix)
     THEN body' = Append(body, b) /\ UNCHANGED <<prefix, frames, phase>>
     ELSE /\ frames' = Append(frames, Append(body, b))
          /\ prefix' = <<>> /\ body' = <<>> /\ phase' = "length"
  /\ UNCHANGED ended

(* io.ReadFull: io.EOF when not one byte of the payload came, and                *)
(* io.ErrUnexpectedEOF after that.                                            *)
PayloadCut ==
  /\ phase = "payload" /\ NoMore
  /\ phase' = IF body = <<>> THEN "closed" ELSE "failed"
  /\ UNCHANGED <<seen, unread, ended, prefix, body, frames>>

(* Peeked bytes may be any that follow in the stream.                            *)
Next ==
  \/ TransportEnds \/ Claims \/ Declines \/ LengthCut \/ PayloadCut
  \/ \E b \in Bytes : Peek(b) \/ ReadLengthByte(b)
  \/ \E b \in BodyBytes \union ToSet(unread) : ReadPayloadByte(b)

Spec == Init /\ [][Next]_vars
-----------------------------------------------------------------------------
TypeOK ==
  /\ ended \in BOOLEAN
  /\ phase \in {"peek", "length", "payload", "claimed", "closed", "failed"}
  /\ Len(frames) <= MaxFrames
  /\ \A i \in DOMAIN frames : Len(frames[i]) \in 1 .. FrameBytes
  /\ Len(prefix) <= Groups /\ Len(body) < FrameBytes /\ Len(unread) <= 2
  /\ phase = "payload" => VarInt(prefix) \in Len(body) + 1 .. FrameBytes

(* Nothing is lost, invented or read in two ways: what the peer sent is exactly what *)
(* BuildFrame makes of the frames that were read, and then what is still being read;  *)
(* so relaying a frame or recording its bytes changes nothing (framer.go 33-60,      *)
(* 106-109, preframe.go 12-14).                                               *)
Built == FlattenSeq([i \in DOMAIN frames |-> BuildFrame(frames[i])])

FramesAreCanonical == phase # "claimed" => seen = Built \o prefix \o body \o unread

(* Whatever BuildFrame makes is read: a stream whose transport goes on fails only on  *)
(* bytes with which no frame begins (framer.go 63-82, 110-140).                 *)
FailsOnNoFrame ==
  phase = "failed" /\ ~ended =>
    \A n \in 1 .. FrameBytes : ~IsPrefix(PutVarInt(n), SubSeq(seen, Len(Built) + 1, Len(seen)))

=============================================================================
