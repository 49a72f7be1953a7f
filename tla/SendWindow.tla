----------------------------- MODULE SendWindow -----------------------------
(***************************************************************************)
(* wire_protocol::send_window driven by its callers in every legal order:   *)
(* the transport sends the packet count() allows, rewinds after a silence,  *)
(* and hands over any cumulative offset that arrives, in any order, however *)
(* late, duplicated or wrong.                                               *)
(***************************************************************************)
EXTENDS WireProtocol

CONSTANTS Totals,       \* clip sizes
          Packets,      \* configured window sizes
          Offsets       \* offsets an acknowledgement may carry

ASSUME WindowConstants ==
    Totals \subseteq Nat /\ Packets \subseteq Nat \ {0} /\ Offsets \subseteq Nat

VARIABLE window

WindowInit == \E total \in Totals, packets \in Packets : window = NewWindow(total, packets)

\* sender_tick: a packet of count() bytes is sent.
Send == Count(window) > 0 /\ window' = Sent(window, Count(window))

\* process_reply: an acknowledgement arrives; a rejected one changes nothing.
Receive(offset) == AckAccepted(window, offset) /\ window' = Acked(window, offset)

\* sender_tick: go back, only while something is outstanding.
GoBack == window.high_water > window.acknowledged /\ window' = Retried(window)

WindowNext == Send \/ GoBack \/ \E offset \in Offsets : Receive(offset)

WindowSpec == WindowInit /\ [][WindowNext]_window

-----------------------------------------------------------------------------

\* The type invariant of the window.
WindowTypeOK == WindowType(window)

\* window_test.cpp asserts next - acknowledged <= packets * payload_size after
\* each send; this is the stronger bound the receiver's queue relies on: it
\* counts from the highest byte ever submitted, so rewinding gives no credit,
\* and every cursor stays ordered, so the unsigned difference in count() never
\* wraps.
NeverBeyondWindow == WindowOrdered(window) /\ WindowBounded(window)

\* Every cursor sits on a packet boundary or the clip's end, whatever the order
\* of sends, rewinds and partial-tail acknowledgements: the receiver silently
\* ignores a data packet that starts anywhere else (process_request).
CursorsAligned == WindowAligned(window)

\* A delayed or duplicated acknowledgement never rewinds acknowledged, and a
\* rewind never uncovers a byte that was acknowledged: the sender does not
\* repeat data the receiver is known to have.
NoRewindOfAcknowledged ==
    [][window'.acknowledged >= window.acknowledged
       /\ window'.next >= window.acknowledged]_window

\* Until the clip is covered the window is never stuck: it may send, or it has
\* something outstanding, so a timeout lets it go back.
NeverStuck ==
    window.acknowledged < window.total
        => Count(window) > 0 \/ window.high_water > window.acknowledged
=============================================================================
