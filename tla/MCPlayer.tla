------------------------------ MODULE MCPlayer ------------------------------
\* A clip of Frames pictures in encode_stream.py's order: by sample, sound first;
\* the first AAC record decodes to nothing.  One block per AAC record.
EXTENDS Player

Sound(sample) == [kind |-> "audio", sample |-> sample]
Picture(sample) == [kind |-> "video", sample |-> sample]

\* Two blocks per picture, like the 1333 and 1024 samples of the real clip.
TwoPictures == <<Sound(0), Sound(0), Picture(0), Sound(1), Sound(2), Picture(2), Sound(3)>>
=============================================================================
