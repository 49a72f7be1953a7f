--------------------------- MODULE MCStreamFormat ---------------------------
\* The validator against its definition on whole streams of up to two pictures:
\* every order of the records of a good one, and each with one field changed.
\* TLC evaluates the assumptions when it runs the transfer of MCRadioTransfer.
EXTENDS MCRadioTransfer

\* Two pictures, 1.5 samples each, and the sound to their end.
Clip(records) ==
    [info |-> [marked |-> TRUE, frames |-> 2, samples |-> 3, records |-> 5, maximum_record |-> 2],
     records |-> records, size |-> HeaderSize + 5 * (RecordSize + 1)]

GoodClips ==
    {Clip(start \o end) :
        start \in {<<Sound(0), Sound(0), Picture(0)>>, <<Sound(0), Picture(0), Sound(0)>>,
                   <<Picture(0), Sound(0), Sound(0)>>},
        end \in {<<Sound(2), Picture(2)>>, <<Picture(2), Sound(2)>>}}

Longer(stream, i) == [stream EXCEPT !.records[i].size = 2, !.size = @ + 1]

OneChange(stream) ==
    UNION {{[stream EXCEPT !.records[i].kind = kind] : kind \in {"video", "audio", "other"}}
           \cup {[stream EXCEPT !.records[i].sample = sample] : sample \in 0..3}
           \cup {[stream EXCEPT !.records[i].size = size] : size \in 0..3}
           \cup {Longer(stream, i), [stream EXCEPT !.records[i].intact = FALSE]} : i \in 1..5}
    \cup {[stream EXCEPT !.size = size] : size \in 1..stream.size + RecordSize - 1}
    \cup {[stream EXCEPT !.info.records = records] : records \in 4..6}
    \cup {[stream EXCEPT !.info.frames = frames] : frames \in 0..3}
    \cup {[stream EXCEPT !.info.marked = FALSE]}

Streams == UNION {OneChange(clip) : clip \in GoodClips}

At(available, stream) == advance(Fresh, available, stream)

\* One look at the whole file accepts exactly the well-formed streams
\* (validator::advance against stream_test.cpp's corrupted files).
ASSUME WholeVerdict ==
    \A stream \in Streams : At(stream.size, stream).accepted <=> WellFormed(stream)

\* Wherever the file is cut, also inside a head, the validator comes to the state
\* one look would give it, and what it refused once it would refuse for ever
\* (validator::advance going on from published).
ASSUME CutsDoNotMatter ==
    \A stream \in Streams :
        LET once == [n \in 1..stream.size |-> At(n, stream)]
        IN \A cut \in 1..stream.size : \A end \in cut..stream.size :
              IF once[cut].accepted
              THEN LET resumed == advance(once[cut], end, stream)
                   IN /\ resumed.accepted <=> once[end].accepted
                      /\ resumed.accepted => resumed = once[end]
              ELSE ~once[end].accepted

\* What is said to be buffered is there: every record not yet published is for
\* later, and a whole clip is buffered to its end (validator::buffered_samples,
\* which tells the player when it may go on).
ASSUME HorizonIsThere ==
    \A stream \in Streams : WellFormed(stream) =>
        /\ \A n \in 1..stream.size :
             LET v == At(n, stream)
             IN \A i \in Parsed(v) + 1..stream.info.records :
                   stream.records[i].sample >= buffered_samples(v, stream)
        /\ buffered_samples(At(stream.size, stream), stream) = stream.info.samples
=============================================================================
