--------------------------------- MODULE Cfb8 ---------------------------------
(***************************************************************************)
(* The stream cipher of an encrypted connection (wire/java/cfb8.go): one side     *)
(* encrypts what it writes a chunk at a time, the other decrypts what it reads in  *)
(* chunks of its own, each in place.  The block cipher, under a key, is a function  *)
(* from registers to the byte that is used of its output: any such function.       *)
(***************************************************************************)
EXTENDS Naturals, Sequences

CONSTANTS
  Bytes,
  Xor,        (* a function of two bytes                                      *)
  BlockSize,
  Vectors,    (* initialisation vectors both sides may share                    *)
  MaxBytes    (* bound: bytes written                                        *)

Registers == [1..BlockSize -> Bytes]

Cfb8Assumption ==
  /\ BlockSize \in Nat \ {0} /\ MaxBytes \in Nat /\ Vectors \subseteq Registers
  /\ Xor \in [Bytes \X Bytes -> Bytes]
  /\ \A a, k \in Bytes : Xor[Xor[a, k], k] = a

VARIABLES
  Encrypt,     (* the block cipher under the shared key                         *)
  vector,
  encrypter, decrypter,   (* the registers                                    *)
  plain,       (* everything written                                         *)
  crossed,     (* everything on the transport                                  *)
  read         (* everything decrypted                                       *)

vars == <<Encrypt, vector, encrypter, decrypter, plain, crossed, read>>

Init ==
  /\ Encrypt \in [Registers -> Bytes] /\ vector \in Vectors
  /\ encrypter = vector /\ decrypter = vector
  /\ plain = <<>> /\ crossed = <<>> /\ read = <<>>
-----------------------------------------------------------------------------
Shifted(register, byte) ==
  [i \in 1..BlockSize |-> IF i = BlockSize THEN byte ELSE register[i + 1]]

(* The register takes the ciphertext byte, on either side.                       *)
Feedback(decrypting, input, output) == IF decrypting THEN input ELSE output

(* The loop of XORKeyStream after i bytes of the buffer.                         *)
XORKeyStream(register, src, decrypting) ==
  LET loop[i \in 0..Len(src)] ==
        IF i = 0 THEN [register |-> register, buffer |-> src]
        ELSE LET before == loop[i - 1]
                 input == before.buffer[i]
                 output == Xor[input, Encrypt[before.register]]
             IN [register |-> Shifted(before.register, Feedback(decrypting, input, output)),
                 buffer |-> [before.buffer EXCEPT ![i] = output]]
  IN  loop[Len(src)]

Write(chunk) ==
  LET done == XORKeyStream(encrypter, chunk, FALSE) IN
  /\ encrypter' = done.register /\ crossed' = crossed \o done.buffer
  /\ plain' = plain \o chunk
  /\ UNCHANGED <<Encrypt, vector, decrypter, read>>

Read(upTo) ==
  LET done == XORKeyStream(decrypter, SubSeq(crossed, Len(read) + 1, upTo), TRUE) IN
  /\ decrypter' = done.register /\ read' = read \o done.buffer
  /\ UNCHANGED <<Encrypt, vector, encrypter, plain, crossed>>

Next ==
  \/ \E n \in 1..(MaxBytes - Len(plain)) : \E chunk \in [1..n -> Bytes] : Write(chunk)
  \/ \E upTo \in (Len(read) + 1)..Len(crossed) : Read(upTo)

Spec == Init /\ [][Next]_vars
-----------------------------------------------------------------------------
TypeOK ==
  /\ encrypter \in Registers /\ decrypter \in Registers
  /\ plain \in Seq(Bytes) /\ crossed \in Seq(Bytes) /\ read \in Seq(Bytes)
  /\ Len(crossed) = Len(plain) /\ Len(read) <= Len(crossed)

(* Cipher feedback of eight bits (cfb8.go:5-13), whatever the chunks: every byte    *)
(* on the transport is the plain one under the block cipher of the vector and the   *)
(* ciphertext before it, of which the last BlockSize bytes count.               *)
IsCfb8 ==
  \A i \in DOMAIN crossed :
    LET before == vector \o SubSeq(crossed, 1, i - 1)
        register == [j \in 1..BlockSize |-> before[Len(before) - BlockSize + j]]
    IN  crossed[i] = Xor[plain[i], Encrypt[register]]

(* What one side writes the other reads, however either cuts it up and although     *)
(* "dst and src may be the same slice" (cfb8.go:52).                            *)
ReadsWhatWasWritten == read = SubSeq(plain, 1, Len(read))

(* The register of each side is a function of the ciphertext it has seen, so that   *)
(* they agree whenever nothing is on its way.                                   *)
InStep == Len(read) = Len(crossed) => encrypter = decrypter
=============================================================================
