---------------------------- MODULE WireProtocol ----------------------------
(***************************************************************************)
(* The pure part of the wireless_stream radio protocol                      *)
(* (button_lcd_test/wireless_stream/include/wire_protocol.h): the go-back-N *)
(* send window, as operators on a window record.  Offsets are byte offsets  *)
(* into the clip.  Every number the code keeps in a uint32_t stays below    *)
(* the clip size plus one window (4 MiB + 64 * 224 bytes), so no operation  *)
(* here can wrap as long as acknowledged <= next, which WindowOK states.    *)
(***************************************************************************)
EXTENDS Integers

CONSTANT PayloadSize    \* bytes of clip a full data packet carries

ASSUME PayloadAssumption == PayloadSize \in Nat \ {0}

\* What load_source leaves in the window: everything zero but the clip's size
\* and the configured number of packets.
NewWindow(total, packets) ==
    [total |-> total, acknowledged |-> 0, next |-> 0, high_water |-> 0,
     packets |-> packets]

Smaller(a, b) == IF a < b THEN a ELSE b
Larger(a, b) == IF a > b THEN a ELSE b

\* Mutant: high_water is not raised.
SentUnrecorded(w, length) == [w EXCEPT !.next = w.next + length]

\* How many bytes the next packet may carry: none once the clip is covered or
\* the window is full, else one payload or the partial tail.
Count(w) ==
    IF w.next >= w.total \/ w.next - w.acknowledged >= w.packets * PayloadSize
    THEN 0
    ELSE Smaller(w.total - w.next, PayloadSize)

Sent(w, length) ==
    [w EXCEPT !.next = w.next + length,
              !.high_water = Larger(w.high_water, w.next + length)]

\* A cumulative acknowledgement is believed only if it advances, stays within
\* what was ever submitted, and falls on a packet boundary or the clip's end.
AckAccepted(w, offset) ==
    /\ w.acknowledged < offset
    /\ offset <= w.high_water
    /\ offset = w.total \/ offset % PayloadSize = 0

Acked(w, offset) ==
    [w EXCEPT !.acknowledged = offset, !.next = Larger(w.next, offset)]

Retried(w) == [w EXCEPT !.next = w.acknowledged]

-----------------------------------------------------------------------------

Boundary(w, offset) == offset = w.total \/ offset % PayloadSize = 0

WindowType(w) ==
    w \in [total: Nat, acknowledged: Nat, next: Nat, high_water: Nat, packets: Nat]

WindowOrdered(w) ==
    /\ w.acknowledged <= w.next
    /\ w.next <= w.high_water
    /\ w.high_water <= w.total

\* Never more than a window of bytes is outstanding, counted from the highest
\* byte ever submitted: go-back-N may rewind next, but that gives no credit.
WindowBounded(w) == w.high_water - w.acknowledged <= w.packets * PayloadSize

WindowAligned(w) ==
    Boundary(w, w.acknowledged) /\ Boundary(w, w.next) /\ Boundary(w, w.high_water)

WindowOK(w) ==
    WindowType(w) /\ WindowOrdered(w) /\ WindowBounded(w) /\ WindowAligned(w)
=============================================================================
