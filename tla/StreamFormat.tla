---------------------------- MODULE StreamFormat ----------------------------
(***************************************************************************)
(* The stream validator                                                     *)
(* (button_lcd_test/wireless_stream/include/stream_format.h): a clip is a   *)
(* header and a sequence of records, each a head (kind, sample, size, CRC)  *)
(* and its payload.  The validator is called after every packet with the    *)
(* number of bytes there are by now and goes on where it stopped.           *)
(*                                                                          *)
(* A stream is what the validator meets on its way: the header's fields and *)
(* the records found by following their sizes.  A payload is only whether   *)
(* it fits its kind and its CRC.                                            *)
(***************************************************************************)
EXTENDS Integers, Sequences, FiniteSets

CONSTANTS
    HeaderSize,         \* header_size
    RecordSize,         \* record_size: a record's head
    SmallestRecord,     \* the smallest payload, 8 bytes
    Rate, Fps,          \* samples and pictures per second
    AacSamples          \* samples of one AAC record, 1024

ASSUME StreamConstants ==
    {HeaderSize, RecordSize, SmallestRecord, Rate, Fps, AacSamples} \subseteq Nat \ {0}

Record(kind, sample, size, intact) ==
    [kind |-> kind, sample |-> sample, size |-> size, intact |-> intact]

frame_sample(frame) == (frame * Rate + Fps \div 2) \div Fps
aac_sample(audios) == IF audios = 0 THEN 0 ELSE (audios - 1) * AacSamples
aac_records(samples) == (samples + 2 * AacSamples - 1) \div AacSamples

\* info.marked: magic, picture format and record limit are those of the program.
parse_header(stream) ==
    LET info == stream.info
    IN /\ stream.size >= HeaderSize /\ info.marked /\ info.frames > 0
       /\ info.samples = frame_sample(info.frames)
       /\ info.records = info.frames + aac_records(info.samples)
       /\ info.records <= (stream.size - HeaderSize) \div (RecordSize + SmallestRecord)

Validator == [published : Nat, videos : Nat, audios : Nat, last_sample : Nat,
              last_available : Nat, accepted : BOOLEAN]

Fresh == [published |-> 0, videos |-> 0, audios |-> 0, last_sample |-> 0,
          last_available |-> 0, accepted |-> TRUE]

Refused(v) == [v EXCEPT !.accepted = FALSE]
Parsed(v) == v.videos + v.audios

\* Checked as soon as the head is there, before the payload is.
HeadFits(v, r, stream) ==
    /\ r.size \in SmallestRecord..stream.info.maximum_record
    /\ r.size <= stream.size - v.published - RecordSize
    /\ r.sample >= v.last_sample

RecordFits(v, r, stream) ==
    /\ r.intact
    /\ \/ r.kind = "video" /\ v.videos < stream.info.frames
          /\ r.sample = frame_sample(v.videos)
       \/ r.kind = "audio" /\ v.audios < stream.info.records - stream.info.frames
          /\ r.sample = aac_sample(v.audios)

Counted(v, r) ==
    [v EXCEPT !.videos = IF r.kind = "video" THEN @ + 1 ELSE @,
              !.audios = IF r.kind = "audio" THEN @ + 1 ELSE @,
              !.last_sample = r.sample, !.published = @ + RecordSize + r.size]

ReadHeader(v, available, stream) ==
    IF v.published > 0 \/ available < HeaderSize THEN v
    ELSE IF parse_header(stream) THEN [v EXCEPT !.published = HeaderSize] ELSE Refused(v)

\* Mutant: a record of which only the head is there is refused.
ReadRecordWhole(v, available, stream) ==
    LET r == stream.records[Parsed(v) + 1]
    IN IF ~v.accepted \/ v.published = 0 \/ available - v.published < RecordSize THEN v
       ELSE IF Parsed(v) >= stream.info.records \/ ~HeadFits(v, r, stream) THEN Refused(v)
       ELSE IF available - v.published - RecordSize < r.size THEN Refused(v)
       ELSE IF RecordFits(v, r, stream) THEN Counted(v, r) ELSE Refused(v)

\* One turn of the loop; nothing once it was left.
ReadRecord(v, available, stream) ==
    LET r == stream.records[Parsed(v) + 1]
    IN IF ~v.accepted \/ v.published = 0 \/ available - v.published < RecordSize THEN v
       ELSE IF Parsed(v) >= stream.info.records \/ ~HeadFits(v, r, stream) THEN Refused(v)
       ELSE IF available - v.published - RecordSize < r.size THEN v
       ELSE IF RecordFits(v, r, stream) THEN Counted(v, r) ELSE Refused(v)

\* Turn after turn until one changes nothing.
ReadRecords(v, available, stream) ==
    LET loop[now \in Validator] ==
            LET next == ReadRecord(now, available, stream)
            IN IF next = now THEN now ELSE loop[next]
    IN loop[v]

\* Mutant: the records are not counted.
FinishedUncounted(v, stream) == v.published = stream.size

Finished(v, stream) ==
    /\ v.published = stream.size
    /\ v.videos = stream.info.frames /\ Parsed(v) = stream.info.records

advance(v, available, stream) ==
    IF available > stream.size \/ available < v.last_available THEN Refused(v)
    ELSE LET arrived == [v EXCEPT !.last_available = available]
             read == ReadRecords(ReadHeader(arrived, available, stream), available, stream)
         IN IF available = stream.size /\ ~Finished(read, stream) THEN Refused(read) ELSE read

Least(S) == CHOOSE n \in S : \A k \in S : n <= k

buffered_samples(v, stream) ==
    IF v.published = 0 THEN 0
    ELSE Least({stream.info.samples, frame_sample(v.videos), aac_sample(v.audios)})

-----------------------------------------------------------------------------
(* What a clip is meant to be, said of the whole of it.                     *)

OfKind(stream, kind, n) == Cardinality({i \in 1..n : stream.records[i].kind = kind})

\* Where record n ends.
EndOf(stream, n) ==
    LET end[i \in 0..Len(stream.records)] ==
            IF i = 0 THEN HeaderSize ELSE end[i - 1] + RecordSize + stream.records[i].size
    IN end[n]

\* The fields of a stream.  Its records are all there are: following the sizes ends
\* where no further head fits.
StreamType(stream) ==
    /\ stream \in [info : [marked : BOOLEAN, frames : Nat, samples : Nat, records : Nat,
                          maximum_record : Nat],
                  records : Seq([kind : STRING, sample : Nat, size : Nat, intact : BOOLEAN]),
                  size : Nat]
    /\ EndOf(stream, Len(stream.records)) + RecordSize > stream.size

\* Every record in its place, on time and sound, and nothing after the last.
WellFormed(stream) ==
    LET count == stream.info.records
    IN /\ parse_header(stream) /\ count <= Len(stream.records)
       /\ \A i \in 1..count :
             LET r == stream.records[i]
             IN /\ r.intact /\ r.size \in SmallestRecord..stream.info.maximum_record
                /\ r.sample = CASE r.kind = "video" -> frame_sample(OfKind(stream, "video", i - 1))
                                [] r.kind = "audio" -> aac_sample(OfKind(stream, "audio", i - 1))
                                [] OTHER -> -1
       /\ \A i, j \in 1..count : i < j => stream.records[i].sample <= stream.records[j].sample
       /\ OfKind(stream, "video", count) = stream.info.frames
       /\ EndOf(stream, count) = stream.size
=============================================================================
