---------------------------- MODULE MCAvTransfer ----------------------------
\* Clips of Length bytes, two of the same length and one too short to send.
EXTENDS AvTransfer, TLC

CONSTANTS clip, other, short, Length

MCStocked == ("sender" :> {short}) @@ ("receiver" :> {other})
MCSize == [c \in Clips |-> IF c = short THEN MinSize - 1 ELSE Length]
=============================================================================
