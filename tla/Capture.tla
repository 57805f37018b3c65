------------------------------- MODULE Capture -------------------------------
(***************************************************************************)
(* A capture of one connection, written through a file sink                   *)
(* (capture/file_sink.go, writer.go) and read back (reader.go) from what had  *)
(* reached the file when the writing process ended, at whatever byte.         *)
(*                                                                         *)
(* The file is a sequence of units, each a few bytes: two for the header and   *)
(* five for a record (two of its length, two of its body, one of its check     *)
(* sum).  A cut may fall between any two of them.  Every unit of a record       *)
(* carries the body it belongs to; only the reader's rules decide what of it   *)
(* can be used.  A string is a member of a small set.                          *)
(***************************************************************************)
EXTENDS Integers, Sequences, SequencesExt

CONSTANTS
  Observations,   (* what Observe may be called with                        *)
  FrameBytes,     (* Header.FrameBytes, the limit on the bytes of a record   *)
  WireBytes,      (* the longest wire image of a frame the stream accepts     *)
  BodyBytes,      (* the longest packet body the stream accepts               *)
  FlushBytes,     (* FileSink.flushBytes, which is the buffer's size too      *)
  FlushInterval,  (* FileSink.flushInterval                                  *)
  DiskFails,      (* whether a write to the file may fail                     *)
  Damages,        (* whether a unit of the file may be damaged before it is read *)
  MaxCalls,       (* bound: calls of Observe                                  *)
  MaxClock        (* bound: ticks of the clock                                *)

ASSUME CaptureAssumption ==
  /\ FlushBytes \in Nat \ {0, 1} /\ FlushInterval \in Nat \ {0}
  /\ FrameBytes \in Nat \ {0} /\ DiskFails \in BOOLEAN /\ Damages \in BOOLEAN
  /\ \A o \in Observations :
       o.kind \in {"raw frame", "packet", "secret", "rejected"} /\ o.size \in Nat

VARIABLES
  writer,     (* Writer: its string table and its totals                    *)
  sink,       (* FileSink: its buffer and its flush policy                   *)
  file,       (* the units that reached the file                            *)
  clock,
  calls,      (* calls of Observe, which is the sequence of the next record   *)
  accepted,   (* history: the records written, each with when                *)
  refused,    (* history: the observations turned away                       *)
  reader      (* Reader: what it reads from, what it knows and what it gave   *)

vars == <<writer, sink, file, clock, calls, accepted, refused, reader>>
-----------------------------------------------------------------------------
Header == <<[part |-> "prefix"], [part |-> "json"]>>

(* writeRecord: length, body, check sum.                                     *)
Framed(body) ==
  [i \in 1..5 |->
     [part |-> <<"length", "length", "body", "body", "sum">>[i], body |-> body]]

RecordUnits == 5

(* The strings of a record, in the order buildRecord emits them.             *)
StringsOf(o) ==
  <<o.before, o.after>>
    \o CASE o.kind = "raw frame" -> <<>>
         [] o.kind = "rejected"  -> <<o.name, o.reason>>
         [] OTHER                -> <<o.name>>

(* appendString: the first use of a string carries it and takes the next       *)
(* index, later uses carry the index.                                         *)
AppendString(at, text) ==
  IF \E i \in DOMAIN at.table : at.table[i] = text
    THEN [at EXCEPT !.codes = Append(@, [index |-> CHOOSE i \in DOMAIN at.table :
                                                     at.table[i] = text,
                                         text |-> ""])]
    ELSE [table |-> Append(at.table, text),
          codes |-> Append(at.codes, [index |-> 0, text |-> text])]

Encode(texts, table) ==
  FoldLeft(AppendString, [table |-> table, codes |-> <<>>], texts)

(* Reader.string: a reference beyond the table read so far is an error.       *)
LookUp(at, code) ==
  IF code.index = 0
    THEN [at EXCEPT !.table = Append(@, code.text), !.texts = Append(@, code.text)]
  ELSE IF code.index \in DOMAIN at.table
    THEN [at EXCEPT !.texts = Append(@, at.table[code.index])]
  ELSE [at EXCEPT !.defined = FALSE]

Decode(codes, table) ==
  FoldLeft(LookUp, [table |-> table, texts |-> <<>>, defined |-> TRUE], codes)

(* A record as the reader returns it, and the ones the digest is taken over.  *)
Record(o, sequence) ==
  [kind |-> o.kind, sequence |-> sequence, texts |-> StringsOf(o), size |-> o.size]

Replayable(record) == record.kind \in {"raw frame", "packet"}

Digest(records) == SelectSeq(records, Replayable)
-----------------------------------------------------------------------------
(* What bufio.Writer passes to the file when it is given units: whole buffers, *)
(* each when a further unit does not fit.                                     *)
Spill(held) ==
  IF Len(held) > FlushBytes THEN ((Len(held) - 1) \div FlushBytes) * FlushBytes ELSE 0

Start(s, n) == SubSeq(s, 1, n)
Rest(s, n)  == SubSeq(s, n + 1, Len(s))

(* A write of `units` to the file fails after the first n.  bufio keeps the    *)
(* error, and no later write reaches the file.                                *)
WriteFails(units) ==
  /\ DiskFails
  /\ \E n \in 0..(Len(units) - 1) : file' = file \o Start(units, n)

Broken(s) == [s EXCEPT !.broken = TRUE, !.buffer = <<>>]

(* NewFileSink: the header is in the buffer.                                  *)
Init ==
  /\ writer = [table |-> <<>>, records |-> 0, last |-> 0, digest |-> <<>>]
  /\ sink = [buffer |-> Header, broken |-> FALSE, sinceLast |-> 0, lastFlush |-> 0,
             closed |-> FALSE]
  /\ file = <<>> /\ clock = 0 /\ calls = 0 /\ accepted = <<>> /\ refused = {}
  /\ reader = [source |-> <<>>, at |-> 0, table |-> <<>>, ending |-> "unopened",
               read |-> <<>>, trailer |-> [records |-> 0, last |-> 0, digest |-> <<>>]]

(* The process that writes is still there.                                   *)
Alive == reader.ending = "unopened"

Refuses(o) == (o.kind = "secret" /\ ~o.redacted) \/ o.size > FrameBytes

Called(o) ==
  /\ Alive /\ ~sink.closed /\ calls < MaxCalls
  /\ calls' = calls + 1

(* Faulty: the string table and the totals are brought up to date before the   *)
(* checks.                                                                    *)
ObserveRefusedBuilt(o) ==
  /\ Called(o) /\ Refuses(o)
  /\ refused' = refused \union {o}
  /\ writer' = [writer EXCEPT !.table = Encode(StringsOf(o), @).table]
  /\ UNCHANGED <<sink, file, clock, accepted, reader>>

(* Observe of a record the writer does not store.                             *)
ObserveRefused(o) ==
  /\ Called(o) /\ Refuses(o)
  /\ refused' = refused \union {o}
  /\ UNCHANGED <<writer, sink, file, clock, accepted, reader>>

Built(o) == Encode(StringsOf(o), writer.table)
Body(o) == [kind |-> o.kind, sequence |-> calls + 1, codes |-> Built(o).codes,
            size |-> o.size]
Held(o) == sink.buffer \o Framed(Body(o))

(* The write stops before the end of the record: the table has its strings,    *)
(* nothing else has changed.                                                  *)
ObserveFails(o) ==
  /\ Called(o) /\ ~Refuses(o)
  /\ writer' = [writer EXCEPT !.table = Built(o).table]
  /\ \/ sink.broken /\ UNCHANGED file
     \/ ~sink.broken /\ WriteFails(Start(Held(o), Spill(Held(o))))
  /\ sink' = Broken(sink)
  /\ UNCHANGED <<clock, accepted, refused, reader>>

(* The record is in the buffer or the file, and counted.                     *)
Counted(o) ==
  /\ writer' = [table   |-> Built(o).table,
                records |-> writer.records + 1,
                last    |-> calls + 1,
                digest  |-> Digest(Append(writer.digest, Record(o, calls + 1)))]
  /\ accepted' = Append(accepted, [record |-> Record(o, calls + 1), at |-> clock])

SinceLast(o) ==
  sink.sinceLast + Len(Rest(Held(o), Spill(Held(o)))) - Len(sink.buffer) + o.size

FlushDue(o) ==
  SinceLast(o) >= FlushBytes \/ clock - sink.lastFlush >= FlushInterval

(* Observe of a record that stays in the buffer, or as much of it as fits.    *)
ObserveKeeps(o) ==
  /\ Called(o) /\ ~Refuses(o) /\ ~sink.broken /\ Counted(o) /\ ~FlushDue(o)
  /\ file' = file \o Start(Held(o), Spill(Held(o)))
  /\ sink' = [sink EXCEPT !.buffer = Rest(Held(o), Spill(Held(o))),
                          !.sinceLast = SinceLast(o)]
  /\ UNCHANGED <<clock, refused, reader>>

(* Observe of a record that makes a flush due.  When the flush fails, Observe   *)
(* reports an error for a record it has counted.                              *)
ObserveFlushes(o) ==
  /\ Called(o) /\ ~Refuses(o) /\ ~sink.broken /\ Counted(o) /\ FlushDue(o)
  /\ \/ /\ file' = file \o Held(o)
        /\ sink' = [sink EXCEPT !.buffer = <<>>, !.sinceLast = 0, !.lastFlush = clock]
     \/ /\ DiskFails
        /\ \E n \in Spill(Held(o))..(Len(Held(o)) - 1) :
             file' = file \o Start(Held(o), n)
        /\ sink' = Broken([sink EXCEPT !.sinceLast = SinceLast(o)])
  /\ UNCHANGED <<clock, refused, reader>>

Tick ==
  /\ Alive /\ clock < MaxClock
  /\ clock' = clock + 1
  /\ UNCHANGED <<writer, sink, file, calls, accepted, refused, reader>>

Trailer ==
  [kind |-> "trailer", records |-> writer.records, last |-> writer.last,
   digest |-> writer.digest]

(* FileSink.Close: the trailer, then a flush; both are no-ops on a broken       *)
(* buffer.                                                                    *)
Close ==
  /\ Alive /\ ~sink.closed
  /\ LET held == sink.buffer \o Framed(Trailer) IN
     \/ sink.broken /\ UNCHANGED file
     \/ ~sink.broken /\ file' = file \o held
     \/ ~sink.broken /\ WriteFails(held)
  /\ sink' = [sink EXCEPT !.closed = TRUE, !.buffer = <<>>]
  /\ UNCHANGED <<writer, clock, calls, accepted, refused, reader>>
-----------------------------------------------------------------------------
(* A unit whose bytes have changed: it no longer agrees with the rest of its     *)
(* record.                                                                    *)
Damaged(unit) == [unit EXCEPT !.body = [kind |-> "damaged"]]

(* NewReader on what is left of the file: the process that wrote it has ended,  *)
(* any part of its last write may be missing, and a unit of a record may have   *)
(* been damaged since.                                                        *)
Open ==
  /\ Alive
  /\ \E n \in 0..Len(file) :
       \E damaged \in {0} \union (IF Damages THEN (Len(Header) + 1)..n ELSE {}) :
         reader' = [reader EXCEPT
           !.source = [i \in 1..n |-> IF i = damaged THEN Damaged(file[i]) ELSE file[i]],
           !.at     = Len(Header),
           !.ending = IF n < Len(Header) THEN "truncated" ELSE "none"]
  /\ UNCHANGED <<writer, sink, file, clock, calls, accepted, refused>>

Left == Rest(reader.source, reader.at)

(* Faulty: an end of file inside a record is taken for the end of the capture.  *)
NextEndsEarly ==
  /\ reader.ending = "none" /\ Len(Left) < RecordUnits
  /\ reader' = [reader EXCEPT !.ending = "end"]
  /\ UNCHANGED <<writer, sink, file, clock, calls, accepted, refused>>

(* A length that reads as another one: too long for the limit or for the file, or   *)
(* one that frames other bytes.                                                *)
LengthDamaged == Len(Left) >= 2 /\ \E i \in 1..2 : Left[i].body.kind = "damaged"

(* Next at the end of what there is: at a boundary a clean end, inside a record *)
(* an error.                                                                  *)
NextEnds ==
  /\ reader.ending = "none" /\ Len(Left) < RecordUnits
  /\ \E ending \in IF Left = <<>> THEN {"end"}
                   ELSE {"truncated"} \union (IF LengthDamaged THEN {"corrupt"} ELSE {}) :
       reader' = [reader EXCEPT !.ending = ending]
  /\ UNCHANGED <<writer, sink, file, clock, calls, accepted, refused>>

(* The units of the next record agree with each other.                        *)
Intact == \A i \in 1..RecordUnits : Left[i].body = Left[RecordUnits].body

(* Next on a record whose check sum does not match.                            *)
NextFails ==
  /\ reader.ending = "none" /\ Len(Left) >= RecordUnits /\ ~Intact
  /\ \E ending \in {"corrupt"} \union (IF LengthDamaged THEN {"truncated"} ELSE {}) :
       reader' = [reader EXCEPT !.ending = ending]
  /\ UNCHANGED <<writer, sink, file, clock, calls, accepted, refused>>

(* Next on the trailer.                                                       *)
NextCompletes ==
  /\ reader.ending = "none" /\ Len(Left) >= RecordUnits /\ Intact
  /\ LET body == Left[1].body IN
     /\ body.kind = "trailer"
     /\ reader' = [reader EXCEPT
          !.ending  = "complete",
          !.trailer = [records |-> body.records, last |-> body.last,
                       digest |-> body.digest]]
  /\ UNCHANGED <<writer, sink, file, clock, calls, accepted, refused>>

(* Next on any other record.                                                  *)
NextReads ==
  /\ reader.ending = "none" /\ Len(Left) >= RecordUnits /\ Intact
  /\ LET body    == Left[1].body
         decoded == Decode(body.codes, reader.table)
     IN  /\ body.kind # "trailer"
         /\ reader' =
              IF ~decoded.defined THEN [reader EXCEPT !.ending = "corrupt"]
              ELSE [reader EXCEPT
                      !.at    = @ + RecordUnits,
                      !.table = decoded.table,
                      !.read  = Append(@, [kind  |-> body.kind, sequence |-> body.sequence,
                                           texts |-> decoded.texts, size |-> body.size])]
  /\ UNCHANGED <<writer, sink, file, clock, calls, accepted, refused>>

Observe ==
  \E o \in Observations :
    \/ ObserveRefused(o) \/ ObserveFails(o) \/ ObserveKeeps(o) \/ ObserveFlushes(o)

Next ==
  \/ Observe \/ Tick \/ Close
  \/ Open \/ NextEnds \/ NextFails \/ NextCompletes \/ NextReads

Spec == Init /\ [][Next]_vars
-----------------------------------------------------------------------------
Accepted == [i \in DOMAIN accepted |-> accepted[i].record]

(* The buffer never holds more than it has room for, and the file sink's        *)
(* totals are those of the writer beneath it (writer.go:229, file_sink.go:45). *)
TypeOK ==
  /\ Len(sink.buffer) <= FlushBytes
  /\ sink.broken => sink.buffer = <<>>
  /\ clock \in 0..MaxClock /\ calls \in 0..MaxCalls
  /\ writer.records = Len(accepted) /\ writer.last <= calls
  /\ sink.sinceLast >= 0 /\ sink.lastFlush <= clock
  /\ reader.ending \in {"unopened", "none", "end", "truncated", "complete", "corrupt"}

(* Every record before the cut reads back as it was written, in order and none   *)
(* twice, a reader never invents one, and it says "complete" only when nothing  *)
(* accepted is missing - whatever was refused or failed on the way, and          *)
(* wherever the process died (format.go:18-21, writer.go:19-21).                *)
J == INSTANCE Journal WITH
       Records <- UNION {{Record(o, n) : o \in Observations} : n \in 1..MaxCalls},
       written <- Accepted,
       read    <- reader.read,
       ending  <- CASE reader.ending \in {"unopened", "none"} -> "open"
                    [] reader.ending = "complete"             -> "complete"
                    [] OTHER                                  -> "incomplete"

KeepsJournal == J!Spec

(* "A reader reports a clean end at a record boundary, ErrTruncated inside a     *)
(* record" (format.go:19-20): exactly the records that lie wholly before the cut *)
(* and before any damage are returned, and the ending says whether anything was  *)
(* cut through or damaged.                                                     *)
EveryRecordBeforeTheCut ==
  reader.ending \in {"end", "truncated", "corrupt"} =>
    LET units   == Len(reader.source) - Len(Header)
        damaged == {i \in DOMAIN reader.source :
                      reader.source[i] # file[i]}
        good    == units \div RecordUnits
    IN
    IF units < 0
      THEN reader.ending = "truncated" /\ reader.read = <<>>
    ELSE IF \E i \in damaged : i <= Len(Header) + good * RecordUnits
      THEN /\ reader.ending # "end"
           /\ \A i \in damaged :
                Len(reader.read) = (i - Len(Header) - 1) \div RecordUnits
      ELSE /\ Len(reader.read) = good
           /\ (reader.ending = "end") = (units % RecordUnits = 0)
           /\ damaged = {} => reader.ending # "corrupt"

(* The totals a complete capture carries are those of what is read out of it     *)
(* (format.go:121-131, writer.go:150-164), so that a digest that disagrees says  *)
(* that bytes changed and never that a record was refused.                      *)
TrailerTellsTheTruth ==
  reader.ending = "complete" =>
    /\ reader.trailer.records = Len(reader.read)
    /\ reader.trailer.digest = Digest(reader.read)
    /\ reader.trailer.last =
         IF reader.read = <<>> THEN 0 ELSE Last(reader.read).sequence

(* The record accepted k-th is wholly in the file.                            *)
InFile(k) == Len(file) >= Len(Header) + k * RecordUnits

(* "how long buffered bytes may wait before the next record flushes them"        *)
(* (file_sink.go:67-68): once a record has been accepted and the sink is well,   *)
(* every record accepted an interval ago or earlier is in the file.             *)
ArrivalFlushes ==
  [][accepted' # accepted /\ ~sink'.broken
       => \A k \in DOMAIN accepted :
            accepted[k].at + FlushInterval <= clock => InFile(k)']_vars

=============================================================================
