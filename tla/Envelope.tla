------------------------------ MODULE Envelope ------------------------------
(***************************************************************************)
(* The compression envelope of a frame (wire/java/compression.go) by the sizes    *)
(* of what it holds: a body is a number of bytes, a zlib stream the number that    *)
(* it inflates to.  One session writes bodies; another, with the same control and  *)
(* limits, reads them, or whatever another implementation wrapped.              *)
(***************************************************************************)
EXTENDS Integers

CONSTANTS
  FrameLimits, DecompressedLimits,  (* the limits a pair of sessions may have      *)
  Thresholds,
  Controls,       (* "disabled", or enabled with the policy "strict" or            *)
                  (* "compatible"                                              *)
  MaxBytes        (* bound: of a body and of a foreign envelope                  *)

EnvelopeAssumption ==
  /\ FrameLimits \subseteq Nat \ {0} /\ DecompressedLimits \subseteq Nat \ {0}
  /\ Thresholds \subseteq Nat /\ Controls \subseteq {"disabled", "strict", "compatible"}
  /\ MaxBytes \in Nat \ {0}

VARIABLES
  limits,    (* [frame, decompressed] of both sessions                           *)
  control,   (* [policy, threshold] of both sessions                            *)
  written,   (* the body that was written, or 0                                *)
  envelope,  (* the frame payload on its way, or Nothing                         *)
  outcome    (* the body that was read, Refused, or Unread                       *)

vars == <<limits, control, written, envelope, outcome>>

Nothing == [header |-> -1, declared |-> 0, content |-> 0, inflates |-> 0, trailing |-> 0]
Refused == -1
Unread == -2

(* The data length takes one byte or, from eight on, two.                        *)
VarIntSize(n) == IF n \in 0 .. 7 THEN 1 ELSE 2

Bytes(e) == e.header + e.content

Init ==
  /\ limits \in [frame : FrameLimits, decompressed : DecompressedLimits]
  /\ control \in [policy : Controls, threshold : Thresholds]
  /\ written = 0 /\ envelope = Nothing /\ outcome = Unread
-----------------------------------------------------------------------------
(* The policy decides on the threshold alone.                                   *)
ValidateThreshold(compressed, body) ==
  control.policy = "strict" => (compressed <=> body >= control.threshold)

Uncompressed(body) == [header |-> 1, declared |-> 0, content |-> body, inflates |-> Refused, trailing |-> 0]

Compressed(body, stream) ==
  [header |-> VarIntSize(body), declared |-> body, content |-> stream,
   inflates |-> body, trailing |-> 0]

Plain(body) == [header |-> 0, declared |-> 0, content |-> body, inflates |-> Refused, trailing |-> 0]

Wrap(body, stream) ==
  CASE control.policy = "disabled" -> Plain(body)
    [] control.policy # "disabled" /\ body < control.threshold -> Uncompressed(body)
    [] OTHER -> Compressed(body, stream)

(* EncodeCompression, of a body that JoinPacketBody made: it is not empty.          *)
Encode(body, stream) ==
  /\ control.policy # "disabled" => body <= limits.decompressed
  /\ Bytes(Wrap(body, stream)) <= limits.frame
  /\ written' = body /\ envelope' = Wrap(body, stream)

Write ==
  /\ envelope = Nothing
  /\ \E body, stream \in 1 .. MaxBytes : Encode(body, stream)
  /\ UNCHANGED <<limits, control, outcome>>

(* A payload that another implementation wrapped, within the frame limit.           *)
Arrive ==
  /\ envelope = Nothing
  /\ envelope' \in
       [header : {VarIntSize(0), VarIntSize(MaxBytes)}, declared : -1 .. MaxBytes,
        content : 0 .. MaxBytes, inflates : {Refused} \union 0 .. MaxBytes, trailing : {0, 1}]
  /\ Bytes(envelope') <= limits.frame
  /\ UNCHANGED <<limits, control, written, outcome>>

Inflates(e) == e.inflates = e.declared /\ e.trailing = 0

(* DecodeCompression and inflateExact.                                           *)
Decoded(e) ==
  CASE control.policy = "disabled" -> Bytes(e)
    [] control.policy # "disabled" /\ e.declared = 0 ->
         IF e.content <= limits.decompressed /\ ValidateThreshold(FALSE, e.content)
         THEN e.content ELSE Refused
    [] OTHER ->
         IF /\ e.declared \in 1 .. limits.decompressed
            /\ Inflates(e) /\ ValidateThreshold(TRUE, e.declared)
         THEN e.declared ELSE Refused

Read ==
  /\ envelope # Nothing /\ outcome = Unread
  /\ outcome' = Decoded(envelope)
  /\ UNCHANGED <<limits, control, written, envelope>>

Next == Write \/ Arrive \/ Read

Spec == Init /\ [][Next]_vars
-----------------------------------------------------------------------------
(* What one session wraps the other recovers, under either policy: the writer's       *)
(* choice at the threshold and at the limits is one that the reader accepts           *)
(* (compression.go 75-94, 116-192, 248-310).                                    *)
RoundTrip == written # 0 /\ outcome # Unread => outcome = written

(* "The decompressed limit bounds the recovered packet body on every path"           *)
(* (compression.go 142).                                                       *)
BodyBounded == outcome <= limits.decompressed
=============================================================================
