------------------------------- MODULE Adpcm -------------------------------
(***************************************************************************)
(* The voice link's IMA ADPCM (mictospeaker_test/include/audio_adpcm.h) and *)
(* its packets (audio_packet.h).  The microphone codes one block of samples *)
(* after the other, each going on where the last one stopped; any of them   *)
(* may be lost, so a packet carries the state its codes begin with.         *)
(***************************************************************************)
EXTENDS Integers, Sequences

CONSTANTS
    PcmBlocks,      \* blocks the microphone may capture, each of samplesPerPacket samples
    MaxPackets      \* bound: how many are coded

INT16_MIN == -32768
INT16_MAX == 32767
SampleRange == INT16_MIN..INT16_MAX

ASSUME AdpcmConstants == PcmBlocks \subseteq Seq(SampleRange) /\ MaxPackets \in Nat

VARIABLES
    state,          \* the encoder's AdpcmState
    wire,           \* the packets on their way, in the order they were coded
    spoken          \* history: the samples each of them was coded from

adpcmVars == <<state, wire, spoken>>

adpcmSteps == <<
    7, 8, 9, 10, 11, 12, 13, 14, 16, 17, 19, 21, 23, 25, 28, 31, 34, 37, 41, 45, 50, 55, 60,
    66, 73, 80, 88, 97, 107, 118, 130, 143, 157, 173, 190, 209, 230, 253, 279, 307, 337, 371,
    408, 449, 494, 544, 598, 658, 724, 796, 876, 963, 1060, 1166, 1282, 1411, 1552, 1707,
    1878, 2066, 2272, 2499, 2749, 3024, 3327, 3660, 4026, 4428, 4871, 5358, 5894, 6484, 7132,
    7845, 8630, 9493, 10442, 11487, 12635, 13899, 15289, 16818, 18500, 20350, 22385, 24623,
    27086, 29794, 32767 >>

adpcmIndexDelta == <<-1, -1, -1, -1, 2, 4, 6, 8>>

Step(st) == adpcmSteps[st.index + 1]

Within(low, value, high) ==
    IF value < low THEN low ELSE IF value > high THEN high ELSE value

\* Bit n of a code, as 0 or 1.
Bit(code, weight) == (code \div weight) % 2

\* The state after a code; its predictor is the sample.
DecodeNibble(code, st) ==
    LET step == Step(st)
        difference == step \div 8 + Bit(code, 4) * step + Bit(code, 2) * (step \div 2)
                      + Bit(code, 1) * (step \div 4)
        next == IF Bit(code, 8) = 1 THEN st.predictor - difference
                ELSE st.predictor + difference
    IN  [predictor |-> Within(INT16_MIN, next, INT16_MAX),
         index |-> Within(0, st.index + adpcmIndexDelta[1 + (code % 8)], 88)]

\* The code that comes nearest to the sample without passing it.
EncodeNibble(sample, st) ==
    LET step == Step(st)
        far == IF sample < st.predictor THEN st.predictor - sample ELSE sample - st.predictor
        four == IF far >= step THEN 4 ELSE 0
        rest == IF four = 4 THEN far - step ELSE far
        two == IF rest >= step \div 2 THEN 2 ELSE 0
        last == IF two = 2 THEN rest - step \div 2 ELSE rest
        one == IF last >= (step \div 2) \div 2 THEN 1 ELSE 0
    IN  (IF sample < st.predictor THEN 8 ELSE 0) + four + two + one

\* The state after each of the codes, the first one before any of them.
Decoded(first, codes) ==
    LET after[n \in 0..Len(codes)] ==
            IF n = 0 THEN first ELSE DecodeNibble(codes[n], after[n - 1])
    IN  after

\* The codes of a block, with the states the encoder goes through.
Encoded(first, pcm) ==
    LET after[n \in 0..Len(pcm)] ==
            IF n = 0 THEN [st |-> first, code |-> 0]
            ELSE LET code == EncodeNibble(pcm[n], after[n - 1].st)
                 IN  [st |-> DecodeNibble(code, after[n - 1].st), code |-> code]
    IN  after

AdpcmInit == state = [predictor |-> 0, index |-> 0] /\ wire = <<>> /\ spoken = <<>>

\* Mutant: the packet carries the state its codes end with.
EncodeLate(pcm) ==
    LET coded == Encoded(state, pcm)
        st == coded[Len(pcm)].st
    IN  /\ Len(wire) < MaxPackets
        /\ wire' = Append(wire, [st |-> st, codes |-> [n \in 1..Len(pcm) |-> coded[n].code]])
        /\ spoken' = Append(spoken, pcm)
        /\ state' = st

Encode(pcm) ==
    LET coded == Encoded(state, pcm)
    IN  /\ Len(wire) < MaxPackets
        /\ wire' = Append(wire, [st |-> state, codes |-> [n \in 1..Len(pcm) |-> coded[n].code]])
        /\ spoken' = Append(spoken, pcm)
        /\ state' = coded[Len(pcm)].st

\* The speaker decodes a packet that arrives, and keeps nothing of it but the samples.
Decode(packet) == Decoded(packet.st, packet.codes)

AdpcmNext == \E pcm \in PcmBlocks : Encode(pcm)

AdpcmSpec == AdpcmInit /\ [][AdpcmNext]_adpcmVars

-----------------------------------------------------------------------------
(* Properties.                                                              *)

StateOK(st) == st.predictor \in SampleRange /\ st.index \in 0..88

\* The type invariant; a packet of it passes parseWire.
AdpcmTypeOK ==
    /\ StateOK(state) /\ Len(wire) <= MaxPackets /\ Len(spoken) = Len(wire)
    /\ \A n \in 1..Len(wire) : /\ StateOK(wire[n].st) /\ spoken[n] \in PcmBlocks
                               /\ \A k \in 1..Len(wire[n].codes) : wire[n].codes[k] \in 0..15

Apart(a, b) == IF a < b THEN b - a ELSE a - b

\* "Decoder state in EVERY packet makes it safe to skip lost/dropped blocks without
\* desynchronizing" (audio_packet.h:23-24): whichever packets arrive, each sample comes
\* out within an eighth of the step of the moment (and its rounding) of what was spoken,
\* wherever the step can follow the voice.
EveryPacketAlone ==
    \A n \in 1..Len(wire) :
        LET states == Decode(wire[n])
        IN  \A k \in 1..Len(spoken[n]) :
                LET step == Step(states[k - 1])
                IN  Apart(spoken[n][k], states[k - 1].predictor) < 2 * step - step \div 8 =>
                        Apart(spoken[n][k], states[k].predictor) <= step \div 8 + 2
=============================================================================
