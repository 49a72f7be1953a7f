------------------------------- MODULE MCParts -------------------------------
\* Clip sizes around the multiples of a payload, and more than a window holds;
\* windows from one packet up; every offset an acknowledgement could name.
EXTENDS Parts

MCTotals == {1, 2, 3, 4, 8, 9, 10, 11}
MCPackets == {1, 2, 3, 5}
MCOffsets == 0..12

\* As loud as can be, silence, and samples near it that are a step's rounding apart.
MCPcmBlocks == {<<32767, -32768>>, <<-32768, 32767>>, <<0, 0>>, <<700, 32767>>, <<6, -3>>}
=============================================================================
