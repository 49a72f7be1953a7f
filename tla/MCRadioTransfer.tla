--------------------------- MODULE MCRadioTransfer ---------------------------
\* Clips of one picture: a well-formed one, one with the first byte of a further
\* record behind it, and one whose picture is missing although every byte is there.
EXTENDS RadioTransfer

CONSTANTS good, torn, short

Sound(sample) == Record("audio", sample, 1, TRUE)
Picture(sample) == Record("video", sample, 1, TRUE)

Whole ==
    [info |-> [marked |-> TRUE, frames |-> 1, samples |-> 2, records |-> 3, maximum_record |-> 3],
     records |-> <<Sound(0), Sound(0), Picture(0)>>,
     size |-> HeaderSize + 3 * (RecordSize + 1)]

MCStream ==
    [clip \in Clips |->
        CASE clip = good -> Whole
          [] clip = torn -> [Whole EXCEPT !.size = @ + 1]
          [] clip = short -> [Whole EXCEPT !.records = <<Record("audio", 0, 3, TRUE),
                                                       Record("audio", 0, 2, TRUE)>>]]
=============================================================================
