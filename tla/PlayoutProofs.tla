--------------------------- MODULE PlayoutProofs ---------------------------
(***************************************************************************)
(* The sound never repeats a block and never goes back while blocks are     *)
(* taken at least every two seconds and no command comes, for every queue,  *)
(* range of sequence numbers and number of disturbances.                    *)
(***************************************************************************)
EXTENDS Playout, TLAPS

\* The last block accepted is the pending one, or the last one heard.  While the
\* loop takes from the queue nothing is pending, and while something was heard there
\* is a source, which only the two seconds can end.
InOrder ==
    /\ havePending => pendingAudio = active
    /\ ~havePending /\ heard # NoPacket => heard = active
    /\ loop_pc = "take" => ~havePending
    /\ heard # NoPacket => haveSource
    /\ havePending => haveSource
IInv == InOrder /\ NeverBackwards

LEMMA InitInOrder == Init => IInv
  BY DEF Init, IInv, InOrder, NeverBackwards

\* Whatever leaves the loop's variables alone.
LEMMA OthersKeepOrder ==
    IInv /\ (Microphone \/ Radio \/ Callback \/ Restart \/ Lose \/ OnForeign) => IInv'
  <1> USE DEF IInv, InOrder, NeverBackwards, loopVars, timelineVars, streamVars, outVars, Distance
  <1> SUFFICES ASSUME IInv, Microphone \/ Radio \/ Callback \/ Restart \/ Lose \/ OnForeign
               PROVE  UNCHANGED loopVars
    OBVIOUS
  <1>1. CASE Microphone
    BY <1>1 DEF Microphone, Capture, SendBlock, SkipBlock, OnSent
  <1>2. CASE Radio
    BY <1>2 DEF Radio, OnReceived
  <1>3. CASE Callback
    BY <1>3 DEF Callback, Evict, OfferAgain
  <1>4. CASE Restart \/ Lose \/ OnForeign
    BY <1>4 DEF Restart, Lose, OnForeign
  <1> QED BY <1>1, <1>2, <1>3, <1>4

\* The one step that adds to a stream compares with what was heard last.
LEMMA TakeNextKeepsOrder == IInv /\ TakeNext => IInv'
  <1> SUFFICES ASSUME IInv, TakeNext PROVE IInv'
    OBVIOUS
  <1> DEFINE packet == Head(receivedQueue)
  <1>1. /\ packet.mac = active.mac /\ packet.session = active.session
        /\ IsNewer(packet.sequence, active.sequence)
    BY DEF TakeNext, Continues, Foreign, NewStream, Expired
  <1>2. heard' = heard /\ (heard # NoPacket => heard = active)
    BY DEF TakeNext, MayTake, Accept, Continues, NewStream, Expired, IInv, InOrder
  <1>3. havePending' /\ pendingAudio' = packet /\ active' = packet /\ loop_pc' # "take"
        /\ haveSource'
    BY DEF TakeNext, Accept
  <1> HIDE DEF packet
  <1> QED BY <1>1, <1>2, <1>3 DEF IInv, InOrder, NeverBackwards, IsNewer

\* A block is taken as a new stream after two seconds, which the history forgets, or
\* from another session of the board heard last.
LEMMA TakeNewStreamKeepsOrder == IInv /\ TakeNewStream => IInv'
  <1> SUFFICES ASSUME IInv, TakeNewStream PROVE IInv'
    OBVIOUS
  <1> DEFINE packet == Head(receivedQueue)
  <1>1. heard' # NoPacket => heard' = heard /\ heard = active /\ haveSource /\ ~(age > Expiry)
    BY DEF TakeNewStream, MayTake, Accept, IInv, InOrder
  <1>2. heard' # NoPacket => packet.mac = heard'.mac /\ packet.session # heard'.session
    BY <1>1 DEF TakeNewStream, Foreign, NewStream, Expired
  <1>3. havePending' /\ pendingAudio' = packet /\ active' = packet /\ loop_pc' # "take"
        /\ haveSource'
    BY DEF TakeNewStream, Accept
  <1> HIDE DEF packet
  <1> QED BY <1>2, <1>3 DEF IInv, InOrder, NeverBackwards

LEMMA LoopKeepsOrder == IInv /\ Loop => IInv'
  <1> SUFFICES ASSUME IInv, Loop PROVE IInv'
    OBVIOUS
  <1> USE DEF IInv, InOrder, NeverBackwards, timelineVars, streamVars, outVars, Distance
  <1>1. CASE LocalOutput
    BY <1>1 DEF LocalOutput
  <1>2. CASE StartLive
    BY <1>2 DEF StartLive
  <1>3. CASE TakeRejected
    BY <1>3 DEF TakeRejected, TakeHead
  <1>4. CASE TakeNewStream
    BY <1>4, TakeNewStreamKeepsOrder
  <1>5. CASE TakeNext
    BY <1>5, TakeNextKeepsOrder
  <1>6. CASE Conceal
    BY <1>6 DEF Conceal
  <1>7. CASE Underrun
    BY <1>7 DEF Underrun
  <1>8. CASE PlayBlock
    BY <1>8 DEF PlayBlock
  <1>9. CASE PlayFade
    BY <1>9 DEF PlayFade
  <1>10. ASSUME NEW captured \in 0..2, PeriodEnds(captured) PROVE IInv'
    BY <1>10 DEF PeriodEnds
  <1> QED
    BY <1>1, <1>2, <1>3, <1>4, <1>5, <1>6, <1>7, <1>8, <1>9, <1>10 DEF Loop

LEMMA NextInOrder == IInv /\ [Next]_vars => IInv'
  <1> SUFFICES ASSUME IInv, [Next]_vars PROVE IInv'
    OBVIOUS
  <1>1. CASE Microphone \/ Radio \/ Callback \/ Restart \/ Lose \/ OnForeign
    BY <1>1, OthersKeepOrder
  <1>2. CASE Loop
    BY <1>2, LoopKeepsOrder
  <1>3. ASSUME NEW mode \in Modes, Command(mode) PROVE IInv'
    BY <1>3 DEF Command, IInv, InOrder, NeverBackwards
  <1>4. CASE SpeakerFails
    BY <1>4 DEF SpeakerFails, timelineVars, streamVars, outVars, IInv, InOrder, NeverBackwards,
                Distance
  <1>5. CASE UNCHANGED vars
    BY <1>5 DEF vars, loopVars, timelineVars, streamVars, outVars, IInv, InOrder,
                NeverBackwards, Distance
  <1> QED
    BY <1>1, <1>2, <1>3, <1>4, <1>5 DEF Next, Outside

\* Each block played is newer than the one before it in the same session, unless a
\* command came or no block was taken for two seconds between them: no duplicate,
\* dropped packet, underrun or wrapped number makes the speaker repeat or go back
\* (isNewer, the expiry and the bookkeeping of active* in processAudio).
THEOREM SoundNeverBackwards == Spec => []NeverBackwards
  <1>1. IInv => NeverBackwards
    BY DEF IInv
  <1> QED
    BY InitInOrder, NextInOrder, <1>1, PTL DEF Spec

-----------------------------------------------------------------------------
(* The types.                                                               *)

\* With the types: what is queued is a packet, also the one the callback still holds; a
\* restart of the microphone is a disturbance, and only a pending block has a gap.
Typed ==
    /\ TypeOK
    /\ receivedQueue \in Seq(Packets)
    /\ cb_pc # "idle" => cb_packet \in Packets
    /\ session <= disturbed + 1
    /\ loop_pc = "conceal" => havePending
    /\ outputMode \in {"live", "tone", "silence", "muted"}

LEMMA InitTyped == Init => Typed
  <1> SUFFICES ASSUME Init PROVE Typed
    OBVIOUS
  <1>1. receivedQueue \in Seq(Packets) /\ Len(receivedQueue) = 0
    BY DEF Init
  <1>2. {playing, havePending, haveTimeline, haveSource} \subseteq BOOLEAN
    BY DEF Init
  <1>3. {held, air, cb_packet, pendingAudio, active, heard} \subseteq Packets \cup {NoPacket}
    BY DEF Init
  <1>4. TypeOK
    BY <1>1, <1>2, <1>3, PlayoutConstants DEF Init, TypeOK
  <1> QED BY <1>1, <1>4, PlayoutConstants DEF Init, Typed

LEMMA PacketIn ==
    ASSUME NEW mac \in Macs, NEW s \in 1..Disturbances + 1, NEW n \in 0..Range - 1
    PROVE  Packet(mac, s, n) \in Packets
  BY DEF Packets

\* A queue that was taken from, or added to below its capacity.
LEMMA QueueTail ==
    ASSUME NEW S, NEW q \in Seq(S), q # <<>>
    PROVE  Head(q) \in S /\ Tail(q) \in Seq(S) /\ Len(Tail(q)) = Len(q) - 1
  OBVIOUS

LEMMA QueueAppend ==
    ASSUME NEW S, NEW q \in Seq(S), NEW x \in S
    PROVE  Append(q, x) \in Seq(S) /\ Len(Append(q, x)) = Len(q) + 1
  OBVIOUS

LEMMA MicrophoneTyped == Typed /\ Microphone => Typed'
  <1> SUFFICES ASSUME Typed, Microphone PROVE Typed'
    OBVIOUS
  <1> USE PlayoutConstants
          DEF Typed, TypeOK, loopVars, timelineVars, streamVars, outVars, cbVars, AtCost,
              Disturb, Undisturbed
  <1>1. ASSUME NEW failed \in BOOLEAN, Capture(failed) PROVE Typed'
    <2>1. Packet("microphone", session, sequence) \in Packets
      BY PacketIn DEF Macs
    <2>2. (sequence + 1) % Range \in 0..Range - 1 /\ mic - 1 \in 0..MicDepth
      BY <1>1 DEF Capture
    <2> QED BY <1>1, <2>1, <2>2 DEF Capture
  <1>2. ASSUME NEW refused \in BOOLEAN, SendBlock(refused) PROVE Typed'
    BY <1>2 DEF SendBlock
  <1>3. CASE SkipBlock
    BY <1>3 DEF SkipBlock
  <1>4. CASE OnSent
    BY <1>4 DEF OnSent
  <1> QED BY <1>1, <1>2, <1>3, <1>4 DEF Microphone

\* The callback's first try.
LEMMA OfferTyped ==
    ASSUME Typed, NEW packet \in Packets, Offer(packet),
           UNCHANGED txVars, UNCHANGED loopVars, AtCost(TRUE) \/ AtCost(FALSE),
           air' \in Packets \cup {NoPacket}
    PROVE  Typed'
  <1> USE PlayoutConstants
          DEF Typed, TypeOK, txVars, loopVars, timelineVars, streamVars, outVars, cbVars,
              AtCost, Disturb, Undisturbed
  <1>1. CASE Len(receivedQueue) < Capacity
    <2>1. receivedQueue' \in Seq(Packets) /\ Len(receivedQueue') <= Capacity
      BY <1>1, QueueAppend DEF Offer
    <2> QED BY <1>1, <2>1 DEF Offer
  <1>2. CASE ~(Len(receivedQueue) < Capacity)
    BY <1>2 DEF Offer
  <1> QED BY <1>1, <1>2

LEMMA CallbackTyped ==
    Typed /\ (Radio \/ Callback \/ Restart \/ Lose \/ OnForeign) => Typed'
  <1> SUFFICES ASSUME Typed, Radio \/ Callback \/ Restart \/ Lose \/ OnForeign PROVE Typed'
    OBVIOUS
  <1> USE PlayoutConstants
          DEF Typed, TypeOK, txVars, loopVars, timelineVars, streamVars, outVars, cbVars,
              AtCost, Disturb, Undisturbed
  <1>1. CASE Radio
    BY <1>1, OfferTyped DEF Radio, OnReceived
  <1>2. CASE OnForeign
    <2>1. Packet("other", 1, 0) \in Packets
      BY PacketIn DEF Macs
    <2> QED BY <1>2, <2>1, OfferTyped DEF OnForeign
  <1>3. CASE Evict
    <2>1. receivedQueue' \in Seq(Packets) /\ Len(receivedQueue') <= Capacity
      BY <1>3, QueueTail DEF Evict
    <2> QED BY <1>3, <2>1 DEF Evict
  <1>4. CASE OfferAgain
    <2>1. receivedQueue' \in Seq(Packets) /\ Len(receivedQueue') <= Capacity
      BY <1>4, QueueAppend DEF OfferAgain
    <2> QED BY <1>4, <2>1 DEF OfferAgain
  <1>5. CASE Restart
    BY <1>5 DEF Restart
  <1>6. CASE Lose
    BY <1>6 DEF Lose
  <1> QED BY <1>1, <1>2, <1>3, <1>4, <1>5, <1>6 DEF Callback

LEMMA TakeTyped == Typed /\ (TakeRejected \/ TakeNewStream \/ TakeNext) => Typed'
  <1> SUFFICES ASSUME Typed, TakeRejected \/ TakeNewStream \/ TakeNext PROVE Typed'
    OBVIOUS
  <1> USE PlayoutConstants
          DEF Typed, TypeOK, txVars, streamVars, cbVars, Undisturbed
  <1> DEFINE packet == Head(receivedQueue)
  <1>1. MayTake /\ TakeHead
    BY DEF TakeRejected, TakeNewStream, TakeNext
  <1>2. packet \in Packets /\ receivedQueue' \in Seq(Packets) /\ Len(receivedQueue') <= Capacity
    BY <1>1, QueueTail DEF MayTake, TakeHead
  <1>3. attempt' \in 0..Capacity
    BY <1>1 DEF MayTake, TakeHead
  <1>4. CASE TakeRejected
    BY <1>1, <1>2, <1>3, <1>4 DEF TakeRejected, MayTake, TakeHead, LoopOnly
  <1>5. CASE TakeNewStream
    BY <1>1, <1>2, <1>3, <1>5 DEF TakeNewStream, MayTake, TakeHead, LoopOnly, Accept
  <1>6. CASE TakeNext
    <2>1. missing' \in 0..Range - 1
      BY <1>6, <1>1, <1>2 DEF TakeNext, IsNewer, Distance
    <2>2. {playing', havePending', haveTimeline', haveSource'} \subseteq BOOLEAN
      BY <1>1, <1>6 DEF TakeNext, TakeHead, Accept
    <2>3. {pendingAudio', active', heard'} \subseteq Packets \cup {NoPacket}
      BY <1>1, <1>2, <1>6 DEF TakeNext, TakeHead, Accept
    <2>4. gapBlocks' \in 0..Capacity /\ havePending' /\ age' \in 0..Expiry + 1
      BY <1>1, <1>6 DEF TakeNext, TakeHead, Accept
    <2>5. loop_pc' \in {"conceal", "output"} /\ loop_pc = "take"
      BY <1>1, <1>6 DEF TakeNext, MayTake
    <2> QED BY <1>1, <1>2, <1>3, <2>1, <2>2, <2>3, <2>4, <2>5 DEF TakeHead, LoopOnly
  <1> QED BY <1>4, <1>5, <1>6

LEMMA LoopTyped == Typed /\ Loop => Typed'
  <1> SUFFICES ASSUME Typed, Loop PROVE Typed'
    OBVIOUS
  <1>1. CASE TakeRejected \/ TakeNewStream \/ TakeNext
    BY <1>1, TakeTyped
  <1> USE PlayoutConstants
          DEF Typed, TypeOK, txVars, timelineVars, streamVars, outVars, cbVars, AtCost,
              Disturb, Undisturbed, LoopOnly
  <1>2. <<>> \in Seq(Packets) /\ Len(<<>>) = 0
    OBVIOUS
  <1>3. CASE LocalOutput
    BY <1>2, <1>3 DEF LocalOutput
  <1>4. CASE StartLive
    BY <1>4 DEF StartLive
  <1>5. CASE Conceal
    BY <1>5 DEF Conceal, ConcealmentBlocks
  <1>6. CASE Underrun
    BY <1>6 DEF Underrun
  <1>7. CASE PlayBlock
    <2>1. {playing', havePending', haveTimeline', haveSource'} \subseteq BOOLEAN
      BY <1>7 DEF PlayBlock
    <2>2. {pendingAudio', heard'} \subseteq Packets \cup {NoPacket}
      BY <1>7 DEF PlayBlock
    <2> QED BY <1>7, <2>1, <2>2 DEF PlayBlock
  <1>8. CASE PlayFade
    BY <1>8 DEF PlayFade
  <1>9. ASSUME NEW captured \in 0..2, PeriodEnds(captured) PROVE Typed'
    BY <1>9 DEF PeriodEnds
  <1> QED BY <1>1, <1>3, <1>4, <1>5, <1>6, <1>7, <1>8, <1>9 DEF Loop

LEMMA NextTyped == Typed /\ [Next]_vars => Typed'
  <1> SUFFICES ASSUME Typed, [Next]_vars PROVE Typed'
    OBVIOUS
  <1>1. CASE Microphone
    BY <1>1, MicrophoneTyped
  <1>2. CASE Radio \/ Callback \/ Restart \/ Lose \/ OnForeign
    BY <1>2, CallbackTyped
  <1>3. CASE Loop
    BY <1>3, LoopTyped
  <1> USE PlayoutConstants
          DEF Typed, TypeOK, txVars, loopVars, timelineVars, streamVars, outVars, cbVars,
              Disturb, LoopOnly
  <1>4. ASSUME NEW mode \in Modes, Command(mode) PROVE Typed'
    <2>1. <<>> \in Seq(Packets) /\ Len(<<>>) = 0
      OBVIOUS
    <2>2. {playing', havePending', haveTimeline', haveSource'} \subseteq BOOLEAN
      BY <1>4 DEF Command
    <2> QED BY <1>4, <2>1, <2>2 DEF Command
  <1>5. CASE SpeakerFails
    BY <1>5 DEF SpeakerFails
  <1>6. CASE UNCHANGED vars
    BY <1>6 DEF vars
  <1> QED BY <1>1, <1>2, <1>3, <1>4, <1>5, <1>6 DEF Next, Outside

\* The types of both boards' variables; a gap is only ever kept with the block that
\* ends it, and the queue never outgrows its capacity, however the callback and the
\* loop interleave on it.
THEOREM PlayoutTypeOK == Spec => []TypeOK
  <1>1. Typed => TypeOK
    BY DEF Typed
  <1> QED BY InitTyped, NextTyped, <1>1, PTL DEF Spec
=============================================================================
