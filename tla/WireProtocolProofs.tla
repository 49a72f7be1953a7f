------------------------- MODULE WireProtocolProofs -------------------------
(***************************************************************************)
(* What the operations of the send window preserve, for every clip size,    *)
(* window size and payload size.  The bound on outstanding bytes is         *)
(* inductive only together with the alignment of the cursors: a cursor      *)
(* inside a packet could push the last packet past the window.              *)
(***************************************************************************)
EXTENDS WireProtocol, TLAPS

Multiple(a) == \E k \in Nat : a = k * PayloadSize

LEMMA TimesMonotone ==
    ASSUME NEW a \in Int, NEW b \in Int, NEW p \in Nat, a <= b
    PROVE  a * p <= b * p
  OBVIOUS

LEMMA MultipleTimes ==
    ASSUME NEW k \in Nat, NEW p \in Nat \ {0}
    PROVE  (k * p) % p = 0
  OBVIOUS

\* The code's test for a packet boundary.
LEMMA MultipleMod ==
    ASSUME NEW a \in Nat
    PROVE  a % PayloadSize = 0 <=> Multiple(a)
  <1>1. ASSUME a % PayloadSize = 0 PROVE Multiple(a)
    <2>1. a = PayloadSize * (a \div PayloadSize) + (a % PayloadSize)
      BY PayloadAssumption
    <2>2. a \div PayloadSize \in Nat
      BY PayloadAssumption
    <2>3. a = (a \div PayloadSize) * PayloadSize
      BY <1>1, <2>1, <2>2, PayloadAssumption
    <2> QED BY <2>2, <2>3 DEF Multiple
  <1>2. ASSUME Multiple(a) PROVE a % PayloadSize = 0
    <2>1. PICK k \in Nat : a = k * PayloadSize
      BY <1>2 DEF Multiple
    <2> QED BY <2>1, MultipleTimes, PayloadAssumption
  <1> QED BY <1>1, <1>2

LEMMA MultipleNext ==
    ASSUME NEW a \in Nat, Multiple(a)
    PROVE  Multiple(a + PayloadSize)
  <1>1. PICK k \in Nat : a = k * PayloadSize
    BY DEF Multiple
  <1>2. k + 1 \in Nat /\ a + PayloadSize = (k + 1) * PayloadSize
    BY <1>1, PayloadAssumption
  <1> QED BY <1>2 DEF Multiple

\* Between packet boundaries, room for one byte is room for a packet.
LEMMA RoomForPacket ==
    ASSUME NEW a \in Nat, NEW b \in Nat, NEW q \in Nat, Multiple(a), Multiple(b),
           a - b < q * PayloadSize
    PROVE  a + PayloadSize - b <= q * PayloadSize
  <1>1. PICK i \in Nat : a = i * PayloadSize
    BY DEF Multiple
  <1>2. PICK j \in Nat : b = j * PayloadSize
    BY DEF Multiple
  <1>3. i - j < q
    <2>1. SUFFICES ASSUME q <= i - j PROVE FALSE
      OBVIOUS
    <2>2. q * PayloadSize <= (i - j) * PayloadSize
      BY <2>1, TimesMonotone, PayloadAssumption
    <2>3. (i - j) * PayloadSize = a - b
      BY <1>1, <1>2, PayloadAssumption
    <2>4. q * PayloadSize \in Int
      BY PayloadAssumption
    <2> QED BY <2>2, <2>3, <2>4
  <1>4. (i - j + 1) * PayloadSize <= q * PayloadSize
    BY <1>3, TimesMonotone, PayloadAssumption
  <1>5. (i - j + 1) * PayloadSize = a + PayloadSize - b
    BY <1>1, <1>2, PayloadAssumption
  <1> QED BY <1>4, <1>5

LEMMA BoundaryMultiple ==
    ASSUME NEW w, NEW a \in Nat
    PROVE  Boundary(w, a) <=> a = w.total \/ Multiple(a)
  BY MultipleMod DEF Boundary

-----------------------------------------------------------------------------

LEMMA NewWindowOK ==
    ASSUME NEW total \in Nat, NEW packets \in Nat
    PROVE  WindowOK(NewWindow(total, packets))
  <1> DEFINE w == NewWindow(total, packets)
  <1>1. WindowType(w) /\ WindowOrdered(w)
    BY DEF WindowType, WindowOrdered, NewWindow
  <1>2. WindowBounded(w)
    <2>1. packets * PayloadSize >= 0
      BY PayloadAssumption
    <2> QED BY <2>1, PayloadAssumption DEF WindowBounded, NewWindow
  <1>3. Multiple(0)
    <2>1. 0 = 0 * PayloadSize
      BY PayloadAssumption
    <2> QED BY <2>1 DEF Multiple
  <1>4. WindowAligned(w)
    BY <1>3, BoundaryMultiple DEF WindowAligned, NewWindow
  <1> QED BY <1>1, <1>2, <1>4 DEF WindowOK

\* What Count allows: one payload, or the tail of the clip.
LEMMA CountBounds ==
    ASSUME NEW w, WindowOK(w), Count(w) > 0
    PROVE  /\ Count(w) \in Nat /\ Count(w) <= PayloadSize
           /\ w.next < w.total /\ w.next + Count(w) <= w.total
           /\ w.next + Count(w) = w.total \/ Count(w) = PayloadSize
           /\ w.next - w.acknowledged < w.packets * PayloadSize
  <1>1. /\ w.next \in Nat /\ w.total \in Nat /\ w.packets \in Nat
        /\ w.acknowledged \in Nat /\ PayloadSize \in Nat
    BY PayloadAssumption DEF WindowOK, WindowType
  <1>2. w.packets * PayloadSize \in Nat
    BY <1>1
  <1> QED BY <1>1, <1>2 DEF Count, Smaller

LEMMA SentOK ==
    ASSUME NEW w, WindowOK(w), Count(w) > 0
    PROVE  /\ WindowOK(Sent(w, Count(w)))
           /\ Sent(w, Count(w)).total = w.total
           /\ Sent(w, Count(w)).packets = w.packets
           /\ Sent(w, Count(w)).acknowledged = w.acknowledged
           /\ Sent(w, Count(w)).next = w.next + Count(w)
           /\ Sent(w, Count(w)).high_water = Larger(w.high_water, w.next + Count(w))
  <1> DEFINE v == Sent(w, Count(w))
  <1>1. /\ w.next \in Nat /\ w.total \in Nat /\ w.packets \in Nat
        /\ w.acknowledged \in Nat /\ w.high_water \in Nat
        /\ w.packets * PayloadSize \in Nat /\ PayloadSize \in Nat
    BY PayloadAssumption DEF WindowOK, WindowType
  <1>2. /\ Count(w) \in Nat /\ Count(w) <= PayloadSize
        /\ w.next < w.total /\ w.next + Count(w) <= w.total
        /\ w.next + Count(w) = w.total \/ Count(w) = PayloadSize
        /\ w.next - w.acknowledged < w.packets * PayloadSize
    BY CountBounds
  <1>3. /\ v.total = w.total /\ v.packets = w.packets
        /\ v.acknowledged = w.acknowledged /\ v.next = w.next + Count(w)
        /\ v.high_water = Larger(w.high_water, w.next + Count(w))
    BY DEF Sent, WindowOK, WindowType
  <1>4. w.acknowledged <= w.next /\ w.next <= w.high_water /\ w.high_water <= w.total
    BY DEF WindowOK, WindowOrdered
  <1>5. Larger(w.high_water, w.next + Count(w)) \in {w.high_water, w.next + Count(w)}
        /\ Larger(w.high_water, w.next + Count(w)) >= w.next + Count(w)
        /\ Larger(w.high_water, w.next + Count(w)) \in Nat
    BY <1>1, <1>2 DEF Larger
  <1>6. WindowType(v)
    <2>1. ASSUME NEW n \in Nat, NEW h \in Nat
          PROVE  WindowType([w EXCEPT !.next = n, !.high_water = h])
      BY DEF WindowType, WindowOK
    <2>2. w.next + Count(w) \in Nat
      BY <1>1, <1>2
    <2> QED BY <1>5, <2>1, <2>2 DEF Sent
  <1>7. WindowOrdered(v)
    BY <1>1, <1>2, <1>3, <1>4, <1>5 DEF WindowOrdered
  <1>8. Multiple(w.next) /\ Multiple(w.acknowledged)
    BY <1>1, <1>2, <1>4, BoundaryMultiple DEF WindowOK, WindowAligned
  <1>9. w.next + PayloadSize - w.acknowledged <= w.packets * PayloadSize
    BY <1>1, <1>2, <1>8, RoomForPacket
  <1>10. WindowBounded(v)
    <2>1. w.high_water - w.acknowledged <= w.packets * PayloadSize
      BY DEF WindowOK, WindowBounded
    <2> QED BY <1>1, <1>2, <1>3, <1>5, <1>9, <2>1 DEF WindowBounded
  <1>11. WindowAligned(v)
    <2>1. Boundary(v, w.next + Count(w))
      <3>1. CASE w.next + Count(w) = w.total
        BY <3>1, <1>3 DEF Boundary
      <3>2. CASE Count(w) = PayloadSize
        BY <3>2, <1>1, <1>8, MultipleNext, BoundaryMultiple
      <3> QED BY <1>2, <3>1, <3>2
    <2>2. Boundary(v, w.high_water) /\ Boundary(v, w.acknowledged)
      BY <1>3 DEF WindowOK, WindowAligned, Boundary
    <2> QED BY <1>3, <1>5, <2>1, <2>2 DEF WindowAligned
  <1> QED BY <1>3, <1>6, <1>7, <1>10, <1>11 DEF WindowOK

LEMMA AckedOK ==
    ASSUME NEW w, WindowOK(w), NEW offset \in Nat, AckAccepted(w, offset)
    PROVE  /\ WindowOK(Acked(w, offset))
           /\ Acked(w, offset).total = w.total
           /\ Acked(w, offset).packets = w.packets
           /\ Acked(w, offset).acknowledged = offset
           /\ Acked(w, offset).next = Larger(w.next, offset)
           /\ Acked(w, offset).high_water = w.high_water
           /\ w.acknowledged < offset
           /\ offset <= w.high_water /\ offset <= w.total
  <1> DEFINE v == Acked(w, offset)
  <1>1. /\ w.next \in Nat /\ w.total \in Nat /\ w.packets \in Nat
        /\ w.acknowledged \in Nat /\ w.high_water \in Nat
        /\ w.packets * PayloadSize \in Nat
    BY PayloadAssumption DEF WindowOK, WindowType
  <1>2. /\ v.total = w.total /\ v.packets = w.packets
        /\ v.acknowledged = offset /\ v.next = Larger(w.next, offset)
        /\ v.high_water = w.high_water
    BY DEF Acked, WindowOK, WindowType
  <1>3. w.acknowledged < offset /\ offset <= w.high_water /\ Boundary(w, offset)
    BY DEF AckAccepted, Boundary
  <1>4. w.acknowledged <= w.next /\ w.next <= w.high_water /\ w.high_water <= w.total
    BY DEF WindowOK, WindowOrdered
  <1>5. Larger(w.next, offset) \in {w.next, offset} /\ Larger(w.next, offset) \in Nat
        /\ Larger(w.next, offset) >= offset /\ Larger(w.next, offset) <= w.high_water
    BY <1>1, <1>3, <1>4 DEF Larger
  <1>6. WindowType(v)
    BY <1>1, <1>5 DEF WindowType, WindowOK, Acked
  <1>7. WindowOrdered(v)
    BY <1>1, <1>2, <1>4, <1>5 DEF WindowOrdered
  <1>8. WindowBounded(v)
    <2>1. w.high_water - w.acknowledged <= w.packets * PayloadSize
      BY DEF WindowOK, WindowBounded
    <2> QED BY <1>1, <1>2, <1>3, <2>1 DEF WindowBounded
  <1>9. WindowAligned(v)
    <2>1. Boundary(v, w.next) /\ Boundary(v, w.high_water) /\ Boundary(v, offset)
      BY <1>2, <1>3 DEF WindowOK, WindowAligned, Boundary
    <2> QED BY <1>2, <1>5, <2>1 DEF WindowAligned
  <1> QED BY <1>1, <1>2, <1>3, <1>4, <1>6, <1>7, <1>8, <1>9 DEF WindowOK

LEMMA RetriedOK ==
    ASSUME NEW w, WindowOK(w)
    PROVE  /\ WindowOK(Retried(w))
           /\ Retried(w).total = w.total
           /\ Retried(w).packets = w.packets
           /\ Retried(w).acknowledged = w.acknowledged
           /\ Retried(w).next = w.acknowledged
           /\ Retried(w).high_water = w.high_water
  <1>1. Retried(w) = [total |-> w.total, acknowledged |-> w.acknowledged,
                      next |-> w.acknowledged, high_water |-> w.high_water,
                      packets |-> w.packets]
    BY DEF Retried, WindowOK, WindowType
  <1>2. WindowType(Retried(w)) /\ WindowOrdered(Retried(w)) /\ WindowBounded(Retried(w))
    BY <1>1 DEF WindowOK, WindowType, WindowOrdered, WindowBounded
  <1>3. WindowAligned(Retried(w))
    BY <1>1 DEF WindowOK, WindowAligned, Boundary
  <1> QED BY <1>1, <1>2, <1>3 DEF WindowOK
=============================================================================
