-------------------------- MODULE AvTransferProofs --------------------------
(***************************************************************************)
(* Every safety property of the transfer from SD card to SD card, for all   *)
(* clips, chunk sizes, queue and air depths, faults and numbers of resets.  *)
(*                                                                          *)
(* The argument: what a packet of a session names or carries is the clip    *)
(* that session offers, however late or often it arrives; a finish is       *)
(* answered only when its session is verified; the sender's card keeps its  *)
(* clip while it is sent, and a staging file is only written while the      *)
(* receiver's card has none.                                                *)
(***************************************************************************)
EXTENDS AvTransfer, TLAPS, SequenceTheorems

\* The part of AvConstants the proofs use.
LEMMA Constants ==
    /\ PayloadSize \in Nat \ {0} /\ UsbChunk \in Nat \ {0} /\ MaxAttempts \in Nat \ {0}
    /\ MaxSessions \in Nat /\ MaxResets \in Nat /\ Uploads \subseteq Clips
    /\ \A clip \in Clips : Size[clip] \in Nat \ {0}
    /\ \A b \in Boards : Stocked[b] \subseteq Clips
  BY AvConstants

-----------------------------------------------------------------------------
(* Files and packets.                                                       *)

LEMMA WholeIsFile ==
    ASSUME NEW clip \in Clips
    PROVE  Whole(clip) \in FileBytes
  <1>1. Size[clip] \in Nat
    BY Constants
  <1>2. \A i \in 1..Size[clip] : <<clip, i - 1>> \in (Clips \X Nat) \cup {Stray}
    BY <1>1
  <1> QED BY <1>1, <1>2, IsASeq DEF Whole, FileBytes

LEMMA WholesAreFiles == Wholes \subseteq FileBytes
  BY WholeIsFile DEF Wholes

LEMMA FileLength ==
    ASSUME NEW file \in FileBytes
    PROVE  Len(file) \in Nat
  BY LenProperties DEF FileBytes

LEMMA SliceIsFile ==
    ASSUME NEW file \in FileBytes, NEW offset \in Nat, NEW length \in Nat,
           offset + length <= Len(file)
    PROVE  Slice(file, offset, length) \in FileBytes
  <1> DEFINE S == (Clips \X Nat) \cup {Stray}
  <1>1. file \in Seq(S)
    BY DEF FileBytes
  <1>2. \A i \in (offset + 1)..(offset + length) : i \in 1..Len(file)
    BY <1>1, LenProperties
  <1>3. \A i \in (offset + 1)..(offset + length) : file[i] \in S
    BY <1>1, <1>2, ElementOfSeq
  <1>4. offset + 1 \in Int /\ offset + length \in Int
    OBVIOUS
  <1> HIDE DEF S
  <1>5. SubSeq(file, offset + 1, offset + length) \in Seq(S)
    BY <1>3, <1>4, SubSeqProperties
  <1> QED BY <1>5 DEF Slice, FileBytes, S

LEMMA PrefixIsFile ==
    ASSUME NEW file \in FileBytes, NEW kept \in Prefixes(file)
    PROVE  kept \in FileBytes
  <1>1. PICK n \in 0..Len(file) : kept = SubSeq(file, 1, n)
    BY DEF Prefixes
  <1>2. n \in Nat /\ n <= Len(file)
    BY <1>1, FileLength
  <1>3. Slice(file, 0, n) \in FileBytes
    BY <1>2, SliceIsFile
  <1> QED BY <1>1, <1>2, <1>3 DEF Slice

LEMMA JoinIsFile ==
    ASSUME NEW file \in FileBytes, NEW more \in FileBytes
    PROVE  file \o more \in FileBytes
  BY ConcatProperties DEF FileBytes

LEMMA StraysAreFile ==
    ASSUME NEW n \in Nat
    PROVE  [i \in 1..n |-> Stray] \in FileBytes
  <1>1. \A i \in 1..n : Stray \in (Clips \X Nat) \cup {Stray}
    OBVIOUS
  <1> QED BY <1>1, IsASeq DEF FileBytes

LEMMA EmptyIsFile == <<>> \in FileBytes
  BY EmptySeq DEF FileBytes

LEMMA PacketType ==
    ASSUME NEW kind \in {"none", "begin", "data", "finish", "error"},
           NEW s \in 0..MaxSessions, NEW offset \in Nat, NEW payload \in FileBytes
    PROVE  /\ Packet(kind, s, offset, payload) \in Packets
           /\ Packet(kind, s, offset, payload).kind = kind
           /\ Packet(kind, s, offset, payload).session = s
           /\ Packet(kind, s, offset, payload).payload = payload
  BY DEF Packet, Packets

LEMMA NoPacketType == NoPacket \in Packets /\ NoPacket.kind = "none"
  <1>1. 0 \in 0..MaxSessions /\ 0 \in Nat
    BY Constants
  <1> QED BY <1>1, PacketType, EmptyIsFile DEF NoPacket

LEMMA AckType ==
    ASSUME NEW p \in Packets
    PROVE  /\ [p EXCEPT !.ack = TRUE] \in Packets
           /\ [p EXCEPT !.ack = TRUE].kind = p.kind
           /\ [p EXCEPT !.ack = TRUE].session = p.session
  BY DEF Packets

LEMMA PacketFields ==
    ASSUME NEW p \in Packets
    PROVE  /\ p.session \in 0..MaxSessions /\ p.offset \in Nat /\ p.payload \in FileBytes
           /\ Len(p.payload) \in Nat
  BY FileLength DEF Packets

-----------------------------------------------------------------------------
(* The invariant.                                                           *)

\* The packets of a session name the clip it offers, or carry a slice of it; a
\* finish is answered only when the session is verified.
Requested ==
    {p \in Packets :
        /\ p.kind \in {"begin", "data", "finish"} => p.session \in 1..Len(offered)
        /\ p.kind \in {"begin", "finish"} => p.payload = offered[p.session]
        /\ p.kind = "data" =>
              \A i \in 1..Len(p.payload) : p.payload[i] = offered[p.session][p.offset + i]}
Answered == {p \in Packets : p.kind = "finish" => p.session \in verified}

PacketsInStep ==
    /\ air["sender"] \in Seq(Requested) /\ queue["receiver"] \in Seq(Requested)
    /\ air["receiver"] \in Seq(Answered) /\ queue["sender"] \in Seq(Answered)
    /\ pending \in Requested /\ last_received \in Answered

\* The card's clip is neither uploaded nor changed while it is sent.
SenderInStep ==
    /\ offered \in Seq(Wholes) /\ Len(offered) <= MaxSessions
    /\ usb # Missing => source = Missing
    /\ tx_active => /\ usb = Missing /\ offered # <<>> /\ pending.session = Len(offered)
                    /\ source = {offered[Len(offered)]}

\* A staging file is only written while the card has no clip.
ReceiverInStep ==
    /\ stored \in [Sessions -> Nat]
    /\ \A s \in 1..Len(offered) : stored[s] <= Len(offered[s])
    /\ \A s \in Sessions \ 1..Len(offered) : stored[s] = 0
    /\ rx_active => /\ rx_session \in 1..Len(offered) /\ rx_crc = offered[rx_session]
                    /\ rx_offset <= stored[rx_session]
                    /\ ~reuse_existing => received = Missing

VerifiedInStep == FilesAreVerified /\ sent \subseteq verified /\ verified \subseteq 1..Len(offered)

LinkTypes ==
    /\ sending \in [Boards -> BOOLEAN]
    /\ air \in [Boards -> Seq(Packets)] /\ queue \in [Boards -> Seq(Packets)]
UploadTypes ==
    /\ usb \subseteq Clips /\ saved \subseteq Clips
    /\ part \subseteq FileBytes /\ \A a, b \in part : a = b
    /\ source \subseteq FileBytes /\ \A a, b \in source : a = b
SenderTypes ==
    /\ pending \in Packets /\ tx_offset \in Nat /\ attempts \in 0..MaxAttempts
    /\ tx_active \in BOOLEAN
CardTypes ==
    /\ received \subseteq FileBytes /\ \A a, b \in received : a = b
    /\ DOMAIN staging \subseteq Sessions /\ output \in BOOLEAN
ReceiverTypes ==
    /\ rx_session \in 0..MaxSessions /\ rx_crc \in FileBytes /\ rx_offset \in Nat
    /\ last_received \in Packets
    /\ {rx_active, rx_completed, reuse_existing, rx_stale, playing} \subseteq BOOLEAN
HistoryTypes == verified \subseteq Sessions /\ sent \subseteq Sessions /\ resets \in 0..MaxResets

IInv == TypeOK /\ PacketsInStep /\ SenderInStep /\ ReceiverInStep /\ VerifiedInStep

LEMMA TypeParts ==
    TypeOK <=> /\ LinkTypes /\ UploadTypes /\ SenderTypes /\ CardTypes /\ ReceiverTypes
               /\ HistoryTypes
  BY DEF TypeOK, LinkTypes, UploadTypes, SenderTypes, CardTypes, ReceiverTypes, HistoryTypes

\* The same of the next state.
LEMMA TypePartsNext ==
    LinkTypes' /\ UploadTypes' /\ SenderTypes' /\ CardTypes' /\ ReceiverTypes' /\ HistoryTypes'
        => TypeOK'
  BY DEF TypeOK, LinkTypes, UploadTypes, SenderTypes, CardTypes, ReceiverTypes, HistoryTypes

-----------------------------------------------------------------------------
(* What the link does to a queue of packets that all are in some set.       *)

LEMMA TwoBoards ==
    /\ "sender" \in Boards /\ "receiver" \in Boards /\ "sender" # "receiver"
    /\ \A b \in Boards : b = "sender" \/ b = "receiver"
    /\ Peer("sender") = "receiver" /\ Peer("receiver") = "sender"
    /\ \A b \in Boards : Peer(b) \in Boards
  BY DEF Boards, Peer

LEMMA TakeKeeps ==
    ASSUME LinkTypes, NEW b \in Boards, Take(b)
    PROVE  /\ Head(queue[b]) \in Packets
           /\ queue' \in [Boards -> Seq(Packets)]
           /\ \A S : queue[b] \in Seq(S) => Head(queue[b]) \in S /\ queue'[b] \in Seq(S)
           /\ \A c \in Boards : c # b => queue'[c] = queue[c]
  <1>1. queue \in [Boards -> Seq(Packets)] /\ queue[b] # <<>>
        /\ queue' = [queue EXCEPT ![b] = Tail(queue[b])]
    BY DEF LinkTypes, Take
  <1>2. queue'[b] = Tail(queue[b]) /\ \A c \in Boards : c # b => queue'[c] = queue[c]
    BY <1>1
  <1>3. \A S : queue[b] \in Seq(S) => Head(queue[b]) \in S /\ Tail(queue[b]) \in Seq(S)
    BY <1>1, HeadTailProperties
  <1>4. queue[b] \in Seq(Packets)
    BY <1>1
  <1>5. Head(queue[b]) \in Packets /\ Tail(queue[b]) \in Seq(Packets)
    BY <1>3, <1>4
  <1>6. queue' \in [Boards -> Seq(Packets)]
    BY <1>1, <1>5
  <1> QED BY <1>2, <1>3, <1>5, <1>6

LEMMA SendKeeps ==
    ASSUME LinkTypes, NEW b \in Boards, NEW packet \in Packets, NEW accepted,
           Send(b, packet, accepted)
    PROVE  /\ sending' \in [Boards -> BOOLEAN] /\ air' \in [Boards -> Seq(Packets)]
           /\ \A S : air[b] \in Seq(S) /\ packet \in S => air'[b] \in Seq(S)
           /\ \A c \in Boards : c # b => air'[c] = air[c]
  <1>1. CASE accepted /\ ~sending[b]
    <2>1. /\ sending' = [sending EXCEPT ![b] = TRUE]
          /\ air' = [air EXCEPT ![b] = Append(air[b], packet)]
      BY <1>1 DEF Send
    <2>2. air \in [Boards -> Seq(Packets)] /\ sending \in [Boards -> BOOLEAN]
      BY DEF LinkTypes
    <2>3. \A S : air[b] \in Seq(S) /\ packet \in S => Append(air[b], packet) \in Seq(S)
      OBVIOUS
    <2>4. Append(air[b], packet) \in Seq(Packets)
      BY <2>2, <2>3
    <2>5. air'[b] = Append(air[b], packet) /\ \A c \in Boards : c # b => air'[c] = air[c]
      BY <2>1, <2>2
    <2>6. air' \in [Boards -> Seq(Packets)] /\ sending' \in [Boards -> BOOLEAN]
      BY <2>1, <2>2, <2>4
    <2> QED BY <2>3, <2>5, <2>6
  <1>2. CASE ~(accepted /\ ~sending[b])
    BY <1>2 DEF Send, LinkTypes
  <1> QED BY <1>1, <1>2

LEMMA EnqueuedKeeps ==
    ASSUME NEW S, NEW q \in Seq(S), NEW packet \in S
    PROVE  Enqueued(q, packet) \in Seq(S)
  BY DEF Enqueued

\* on_receive moves a packet from the peer's air to the board's queue.
LEMMA OnReceiveKeeps ==
    ASSUME LinkTypes, NEW b \in Boards, NEW copies \in Copies, OnReceive(b, copies)
    PROVE  /\ LinkTypes'
           /\ \A S : air[Peer(b)] \in Seq(S) /\ queue[b] \in Seq(S)
                    => air'[Peer(b)] \in Seq(S) /\ queue'[b] \in Seq(S)
           /\ \A c \in Boards : c # b => queue'[c] = queue[c] /\ air'[b] = air[b]
  <1> DEFINE packet == Head(air[Peer(b)])
             once == Enqueued(queue[b], packet)
             after == CASE copies = 0 -> queue[b]
                        [] copies = 1 -> once
                        [] copies = 2 -> Enqueued(once, packet)
  <1>0. Peer(b) \in Boards /\ Peer(b) # b
    BY TwoBoards DEF Boards, Peer
  <1>1. /\ air[Peer(b)] # <<>> /\ queue' = [queue EXCEPT ![b] = after]
        /\ air' = [air EXCEPT ![Peer(b)] = Tail(air[Peer(b)])] /\ sending' = sending
    BY DEF OnReceive
  <1>2. copies = 0 \/ copies = 1 \/ copies = 2
    BY AvConstants
  <1>3. ASSUME NEW S, air[Peer(b)] \in Seq(S), queue[b] \in Seq(S)
        PROVE  Tail(air[Peer(b)]) \in Seq(S) /\ after \in Seq(S)
    <2>1. packet \in S /\ Tail(air[Peer(b)]) \in Seq(S)
      BY <1>1, <1>3, HeadTailProperties
    <2>2. once \in Seq(S)
      BY <2>1, <1>3, EnqueuedKeeps
    <2>3. Enqueued(once, packet) \in Seq(S)
      BY <2>1, <2>2, EnqueuedKeeps
    <2> HIDE DEF packet, once
    <2> QED BY <1>2, <1>3, <2>1, <2>2, <2>3
  <1>4. /\ air \in [Boards -> Seq(Packets)] /\ queue \in [Boards -> Seq(Packets)]
        /\ sending \in [Boards -> BOOLEAN]
    BY DEF LinkTypes
  <1>5. Tail(air[Peer(b)]) \in Seq(Packets) /\ after \in Seq(Packets)
    BY <1>0, <1>3, <1>4
  <1> HIDE DEF after
  <1>6. /\ queue'[b] = after /\ air'[Peer(b)] = Tail(air[Peer(b)])
        /\ \A c \in Boards : c # b => queue'[c] = queue[c] /\ air'[b] = air[b]
    BY <1>0, <1>1, <1>4
  <1>7. LinkTypes'
    BY <1>0, <1>1, <1>4, <1>5 DEF LinkTypes
  <1> QED BY <1>3, <1>6, <1>7

\* The sets of packets change only with what they name.
LEMMA SameSets ==
    /\ UNCHANGED offered => Requested' = Requested
    /\ UNCHANGED verified => Answered' = Answered
  BY DEF Requested, Answered

-----------------------------------------------------------------------------
(* What each part of the program leaves alone.                              *)

\* A step of the link alone.
LEMMA LinkOnly ==
    ASSUME IInv, LinkTypes',
           UNCHANGED <<usbVars, txVars, cardVars, rxVars, historyVars>>,
           air'["sender"] \in Seq(Requested), queue'["receiver"] \in Seq(Requested),
           air'["receiver"] \in Seq(Answered), queue'["sender"] \in Seq(Answered)
    PROVE  IInv'
  <1> USE DEF usbVars, txVars, cardVars, rxVars, historyVars
  <1>1. UploadTypes' /\ SenderTypes' /\ CardTypes' /\ ReceiverTypes' /\ HistoryTypes'
    BY TypeParts DEF IInv, UploadTypes, SenderTypes, CardTypes, ReceiverTypes, HistoryTypes
  <1>2. TypeOK'
    BY <1>1, TypePartsNext
  <1>3. PacketsInStep'
    BY SameSets DEF IInv, PacketsInStep
  <1>4. SenderInStep' /\ ReceiverInStep' /\ VerifiedInStep'
    BY DEF IInv, SenderInStep, ReceiverInStep, VerifiedInStep, FilesAreVerified
  <1> QED BY <1>2, <1>3, <1>4 DEF IInv

LEMMA OnSendKeeps == IInv /\ (\E b \in Boards : OnSend(b)) => IInv'
  <1> SUFFICES ASSUME IInv, NEW b \in Boards, OnSend(b) PROVE IInv'
    OBVIOUS
  <1>1. LinkTypes' /\ air' = air /\ queue' = queue
    BY TypeParts DEF IInv, OnSend, LinkTypes
  <1>2. UNCHANGED <<usbVars, txVars, cardVars, rxVars, historyVars>>
    BY DEF OnSend
  <1> QED BY <1>1, <1>2, LinkOnly DEF IInv, PacketsInStep

LEMMA OnReceiveKeepsIt ==
    IInv /\ (\E b \in Boards : \E copies \in Copies : OnReceive(b, copies)) => IInv'
  <1> SUFFICES ASSUME IInv, NEW b \in Boards, NEW copies \in Copies, OnReceive(b, copies)
               PROVE  IInv'
    OBVIOUS
  <1>1. LinkTypes /\ UNCHANGED <<usbVars, txVars, cardVars, rxVars, historyVars>>
    BY TypeParts DEF IInv, OnReceive
  <1>2. /\ LinkTypes'
        /\ \A S : air[Peer(b)] \in Seq(S) /\ queue[b] \in Seq(S)
                 => air'[Peer(b)] \in Seq(S) /\ queue'[b] \in Seq(S)
        /\ \A c \in Boards : c # b => queue'[c] = queue[c] /\ air'[b] = air[b]
    BY <1>1, OnReceiveKeeps
  <1>3. CASE b = "sender"
    BY <1>1, <1>2, <1>3, TwoBoards, LinkOnly DEF IInv, PacketsInStep
  <1>4. CASE b = "receiver"
    BY <1>1, <1>2, <1>4, TwoBoards, LinkOnly DEF IInv, PacketsInStep
  <1> QED BY <1>3, <1>4, TwoBoards

\* A step of the upload alone.
LEMMA UploadOnly ==
    ASSUME IInv, OnlyUpload, UploadTypes',
           usb' # Missing => source' = Missing,
           tx_active => usb' = Missing /\ source' = source,
           source' \subseteq Wholes, \A clip \in saved' : source' = {Whole(clip)}
    PROVE  IInv'
  <1> USE DEF OnlyUpload, linkVars, txVars, cardVars, rxVars, historyVars
  <1>1. LinkTypes' /\ SenderTypes' /\ CardTypes' /\ ReceiverTypes' /\ HistoryTypes'
    BY TypeParts DEF IInv, LinkTypes, SenderTypes, CardTypes, ReceiverTypes, HistoryTypes
  <1>2. TypeOK'
    BY <1>1, TypePartsNext
  <1>3. PacketsInStep'
    BY SameSets DEF IInv, PacketsInStep
  <1>4. SenderInStep'
    BY DEF IInv, SenderInStep
  <1>5. ReceiverInStep' /\ VerifiedInStep'
    BY DEF IInv, ReceiverInStep, VerifiedInStep, FilesAreVerified
  <1> QED BY <1>2, <1>3, <1>4, <1>5 DEF IInv

LEMMA UploadKeeps == IInv /\ Upload => IInv'
  <1> SUFFICES ASSUME IInv, NEW clip \in Uploads,
                      \/ PutExisting(clip) \/ PutReady(clip) \/ PutBroken(clip)
                      \/ \E written \in part :
                            \/ PutVerified(clip, written)
                            \/ \E intact \in BOOLEAN : PutChunk(clip, written, intact)
               PROVE  IInv'
    BY DEF Upload
  <1>1. /\ UploadTypes /\ source \subseteq Wholes /\ \A c \in saved : source = {Whole(c)}
        /\ usb # Missing => source = Missing
        /\ tx_active => usb = Missing
    BY TypeParts DEF IInv, SenderInStep, VerifiedInStep, FilesAreVerified
  <1>2. clip \in Clips /\ Size[clip] \in Nat \ {0} /\ UsbChunk \in Nat \ {0}
    BY Constants
  <1>3. CASE PutExisting(clip)
    <2>1. OnlyUpload /\ usb' = usb /\ part' = part /\ source' = source
          /\ saved' = IF source = {Whole(clip)} THEN saved \cup {clip} ELSE saved
      BY <1>3 DEF PutExisting
    <2>2. UploadTypes'
      BY <1>1, <1>2, <2>1 DEF UploadTypes
    <2> QED BY <1>1, <2>1, <2>2, UploadOnly
  <1>4. CASE PutReady(clip)
    <2>1. OnlyUpload /\ usb' = {clip} /\ part' = {<<>>} /\ source' = source /\ saved' = saved
          /\ source = Missing /\ ~tx_active
      BY <1>4 DEF PutReady, Idle
    <2>2. UploadTypes'
      BY <1>1, <1>2, <2>1, EmptyIsFile DEF UploadTypes
    <2> QED BY <1>1, <2>1, <2>2, UploadOnly
  <1>5. CASE PutBroken(clip)
    <2>1. OnlyUpload /\ usb' = Missing /\ part' = part /\ source' = source /\ saved' = saved
      BY <1>5 DEF PutBroken
    <2>2. UploadTypes'
      BY <1>1, <2>1 DEF UploadTypes, Missing
    <2> QED BY <1>1, <2>1, <2>2, UploadOnly
  <1>6. ASSUME NEW written \in part, PutVerified(clip, written) PROVE IInv'
    <2>1. OnlyUpload /\ usb' = Missing /\ usb # Missing /\ source = Missing /\ saved = {}
      BY <1>1, <1>6 DEF PutVerified, Missing
    <2>2. CASE written = Whole(clip) /\ source' = {written} /\ part' = Missing
               /\ saved' = saved \cup {clip}
      <3>1. UploadTypes' /\ source' \subseteq Wholes
        BY <1>1, <1>2, <2>1, <2>2, WholeIsFile DEF UploadTypes, Missing, Wholes
      <3> QED BY <1>1, <2>1, <2>2, <3>1, UploadOnly
    <2>3. CASE UNCHANGED <<source, part, saved>>
      <3>1. UploadTypes'
        BY <1>1, <2>1, <2>3 DEF UploadTypes, Missing
      <3> QED BY <1>1, <2>1, <2>3, <3>1, UploadOnly
    <2> QED BY <1>6, <2>2, <2>3 DEF PutVerified
  <1>7. ASSUME NEW written \in part, NEW intact \in BOOLEAN, PutChunk(clip, written, intact)
        PROVE  IInv'
    <2> DEFINE count == Smaller(UsbChunk, Size[clip] - Len(written))
               chunk == IF intact THEN Slice(Whole(clip), Len(written), count)
                        ELSE [i \in 1..count |-> Stray]
    <2>1. OnlyUpload /\ UNCHANGED <<usb, saved, source>> /\ part' = {written \o chunk}
          /\ Len(written) < Size[clip]
      BY <1>7 DEF PutChunk
    <2>2. written \in FileBytes /\ Len(written) \in Nat
      BY <1>1, FileLength DEF UploadTypes
    <2>3. count \in Nat /\ Len(written) + count <= Size[clip]
      BY <1>2, <2>1, <2>2 DEF Smaller
    <2>4. Whole(clip) \in FileBytes /\ Len(Whole(clip)) = Size[clip]
      BY <1>2, WholeIsFile DEF Whole
    <2>5. chunk \in FileBytes
      BY <2>2, <2>3, <2>4, SliceIsFile, StraysAreFile
    <2>6. written \o chunk \in FileBytes
      BY <2>2, <2>5, JoinIsFile
    <2> HIDE DEF chunk
    <2>7. UploadTypes'
      BY <1>1, <2>1, <2>6 DEF UploadTypes
    <2> QED BY <1>1, <2>1, <2>7, UploadOnly
  <1> QED BY <1>3, <1>4, <1>5, <1>6, <1>7

-----------------------------------------------------------------------------
(* The sender's transfer.                                                   *)

\* A step of the sender within a transfer.
LEMMA SenderStep ==
    ASSUME IInv, SenderOnly, UNCHANGED offered, LinkTypes', SenderTypes',
           air'["sender"] \in Seq(Requested), queue'["receiver"] \in Seq(Requested),
           air'["receiver"] \in Seq(Answered), queue'["sender"] \in Seq(Answered),
           pending' \in Requested, sent' \subseteq verified,
           tx_active' => tx_active /\ pending'.session = pending.session
    PROVE  IInv'
  <1> USE DEF SenderOnly, usbVars, cardVars, rxVars
  <1>1. UploadTypes' /\ CardTypes' /\ ReceiverTypes'
    BY TypeParts DEF IInv, UploadTypes, CardTypes, ReceiverTypes
  <1>2. HistoryTypes'
    BY TypeParts DEF IInv, HistoryTypes
  <1>3. TypeOK'
    BY <1>1, <1>2, TypePartsNext
  <1>4. PacketsInStep'
    BY SameSets DEF IInv, PacketsInStep
  <1>5. SenderInStep' /\ ReceiverInStep'
    BY DEF IInv, SenderInStep, ReceiverInStep
  <1>6. VerifiedInStep'
    BY DEF IInv, VerifiedInStep, FilesAreVerified
  <1> QED BY <1>3, <1>4, <1>5, <1>6 DEF IInv

\* The sender takes an answer from its queue and sends nothing.
LEMMA AnswerTaken ==
    ASSUME IInv, Take("sender"), UNCHANGED <<sending, air>>
    PROVE  /\ LinkTypes' /\ Answer \in Answered
           /\ air'["sender"] \in Seq(Requested) /\ queue'["receiver"] \in Seq(Requested)
           /\ air'["receiver"] \in Seq(Answered) /\ queue'["sender"] \in Seq(Answered)
  <1>1. LinkTypes
    BY TypeParts DEF IInv
  <1>2. /\ queue' \in [Boards -> Seq(Packets)]
        /\ \A S : queue["sender"] \in Seq(S)
                    => Head(queue["sender"]) \in S /\ queue'["sender"] \in Seq(S)
        /\ queue'["receiver"] = queue["receiver"]
    BY <1>1, TakeKeeps, TwoBoards
  <1>3. LinkTypes'
    BY <1>1, <1>2 DEF LinkTypes
  <1> QED BY <1>2, <1>3 DEF IInv, PacketsInStep, Answer

\* An acknowledgement of the pending packet is of its kind and session.
LEMMA AcknowledgesPending ==
    ASSUME IInv, Acknowledges(Answer, pending)
    PROVE  Answer.kind = pending.kind /\ Answer.session = pending.session
  <1>1. pending \in Packets
    BY TypeParts DEF IInv, SenderTypes
  <1> QED BY <1>1, AckType DEF Acknowledges

LEMMA FollowingType ==
    ASSUME IInv, tx_active, NEW file, source = {file}, NEW offset \in Nat
    PROVE  /\ Following(file, offset) \in Requested
           /\ Following(file, offset).session = pending.session
  <1>1. /\ file \in FileBytes /\ Len(file) \in Nat /\ PayloadSize \in Nat \ {0}
        /\ pending \in Packets
    BY TypeParts, FileLength, Constants DEF IInv, UploadTypes, SenderTypes
  <1>2. /\ offered \in Seq(Wholes) /\ offered # <<>> /\ pending.session = Len(offered)
        /\ file = offered[Len(offered)]
    BY DEF IInv, SenderInStep
  <1>3. Len(offered) \in 1..Len(offered)
    BY <1>2, EmptySeq
  <1>4. pending.session \in 0..MaxSessions
    BY <1>1, PacketFields
  <1>5. CASE offset < Len(file)
    <2> DEFINE length == Smaller(PayloadSize, Len(file) - offset)
               payload == Slice(file, offset, length)
    <2>1. length \in Nat /\ offset + length <= Len(file)
      BY <1>1, <1>5 DEF Smaller
    <2>2. payload \in FileBytes
      BY <1>1, <2>1, SliceIsFile
    <2>3. Following(file, offset) = Packet("data", pending.session, offset, payload)
      BY <1>5 DEF Following
    <2>4. \A i \in 1..Len(payload) : payload[i] = file[offset + i]
      BY <1>1, <2>1 DEF Slice
    <2> HIDE DEF payload
    <2>5. /\ Following(file, offset) \in Packets
          /\ Following(file, offset).kind = "data" /\ Following(file, offset).offset = offset
          /\ Following(file, offset).session = pending.session
          /\ Following(file, offset).payload = payload
      BY <1>4, <2>2, <2>3, PacketType DEF Packet
    <2> HIDE DEF Following
    <2> QED BY <1>2, <1>3, <2>4, <2>5 DEF Requested
  <1>6. CASE ~(offset < Len(file))
    <2>1. Following(file, offset) = Packet("finish", pending.session, Len(file), file)
      BY <1>6 DEF Following
    <2> QED BY <1>1, <1>2, <1>3, <1>4, <2>1, PacketType DEF Requested
  <1> QED BY <1>5, <1>6

LEMMA ProcessReplyKeeps == IInv /\ ProcessReply => IInv'
  <1> SUFFICES ASSUME IInv, \/ ReplyError \/ ReplyFinished \/ ReplyIgnored
                            \/ \E file \in source : ReplyAdvances(file) \/ ReplyUnreadable(file)
               PROVE  IInv'
    BY DEF ProcessReply
  <1>1. SenderTypes /\ pending \in Requested /\ sent \subseteq verified
    BY TypeParts DEF IInv, PacketsInStep, VerifiedInStep
  <1>2. CASE ReplyError
    <2>1. Take("sender") /\ UNCHANGED <<sending, air, pending, tx_offset, attempts, offered, sent>>
          /\ SenderOnly /\ tx_active' = FALSE
      BY <1>2 DEF ReplyError
    <2>2. SenderTypes'
      BY <1>1, <2>1 DEF SenderTypes
    <2> QED BY <1>1, <2>1, <2>2, AnswerTaken, SenderStep
  <1>3. CASE ReplyFinished
    <2>1. Take("sender") /\ UNCHANGED <<sending, air, pending, tx_offset, attempts, offered>>
          /\ SenderOnly /\ tx_active' = FALSE /\ sent' = sent \cup {pending.session}
          /\ Acknowledges(Answer, pending) /\ pending.kind = "finish"
      BY <1>3 DEF ReplyFinished
    <2>2. SenderTypes'
      BY <1>1, <2>1 DEF SenderTypes
    <2>3. Answer \in Answered /\ Answer.kind = "finish" /\ Answer.session = pending.session
      BY <2>1, AnswerTaken, AcknowledgesPending
    <2>4. sent' \subseteq verified
      BY <1>1, <2>1, <2>3 DEF Answered
    <2> QED BY <1>1, <2>1, <2>2, <2>4, AnswerTaken, SenderStep
  <1>4. CASE ReplyIgnored
    <2>1. Take("sender") /\ UNCHANGED <<sending, air, txVars, offered, sent>> /\ SenderOnly
      BY <1>4 DEF ReplyIgnored
    <2>2. SenderTypes'
      BY <1>1, <2>1 DEF SenderTypes, txVars
    <2> QED BY <1>1, <2>1, <2>2, AnswerTaken, SenderStep DEF txVars
  <1>5. ASSUME NEW file \in source, ReplyAdvances(file) PROVE IInv'
    <2>1. Take("sender") /\ UNCHANGED <<sending, air, tx_active, offered, sent>> /\ SenderOnly
          /\ tx_active /\ source = {file} /\ attempts' = 0
          /\ tx_offset' = AdvancedOffset /\ pending' = Following(file, AdvancedOffset)
      BY <1>5 DEF ReplyAdvances, ForPending
    <2>2. AdvancedOffset \in Nat
      BY <1>1, PacketFields DEF AdvancedOffset, SenderTypes
    <2>3. pending' \in Requested /\ pending'.session = pending.session
      BY <2>1, <2>2, FollowingType
    <2>4. SenderTypes'
      BY <1>1, <2>1, <2>2, <2>3, Constants DEF SenderTypes, Requested
    <2> QED BY <1>1, <2>1, <2>3, <2>4, AnswerTaken, SenderStep
  <1>6. ASSUME NEW file \in source, ReplyUnreadable(file) PROVE IInv'
    <2>1. Take("sender") /\ UNCHANGED <<sending, air, pending, tx_offset, attempts, offered, sent>>
          /\ SenderOnly /\ tx_active' = FALSE
      BY <1>6 DEF ReplyUnreadable
    <2>2. SenderTypes'
      BY <1>1, <2>1 DEF SenderTypes
    <2> QED BY <1>1, <2>1, <2>2, AnswerTaken, SenderStep
  <1> QED BY <1>2, <1>3, <1>4, <1>5, <1>6

LEMMA SenderTickKeeps == IInv /\ SenderTick => IInv'
  <1> SUFFICES ASSUME IInv, TickGivesUp \/ \E accepted \in Accepts : TickSend(accepted)
               PROVE  IInv'
    BY DEF SenderTick
  <1>1. /\ LinkTypes /\ SenderTypes /\ pending \in Requested /\ sent \subseteq verified
        /\ air["sender"] \in Seq(Requested) /\ queue["receiver"] \in Seq(Requested)
        /\ air["receiver"] \in Seq(Answered) /\ queue["sender"] \in Seq(Answered)
    BY TypeParts DEF IInv, PacketsInStep, VerifiedInStep
  <1>2. CASE TickGivesUp
    <2>1. UNCHANGED <<linkVars, pending, tx_offset, attempts, offered, sent>>
          /\ SenderOnly /\ tx_active' = FALSE
      BY <1>2 DEF TickGivesUp
    <2>2. SenderTypes' /\ LinkTypes'
      BY <1>1, <2>1 DEF SenderTypes, LinkTypes, linkVars
    <2> QED BY <1>1, <2>1, <2>2, SenderStep DEF linkVars
  <1>3. ASSUME NEW accepted \in Accepts, TickSend(accepted) PROVE IInv'
    <2>1. /\ Send("sender", pending, accepted) /\ tx_active /\ attempts < MaxAttempts
          /\ attempts' = IF sending["sender"] THEN attempts ELSE attempts + 1
          /\ UNCHANGED <<queue, tx_active, pending, tx_offset, offered, sent>> /\ SenderOnly
      BY <1>3 DEF TickSend
    <2>2. pending \in Packets
      BY <1>1 DEF SenderTypes
    <2>3. /\ sending' \in [Boards -> BOOLEAN] /\ air' \in [Boards -> Seq(Packets)]
          /\ \A S : air["sender"] \in Seq(S) /\ pending \in S => air'["sender"] \in Seq(S)
          /\ air'["receiver"] = air["receiver"]
      BY <1>1, <2>1, <2>2, SendKeeps, TwoBoards
    <2>4. LinkTypes'
      BY <1>1, <2>1, <2>3 DEF LinkTypes
    <2>5. SenderTypes'
      BY <1>1, <2>1, Constants DEF SenderTypes
    <2> QED BY <1>1, <2>1, <2>3, <2>4, <2>5, SenderStep
  <1> QED BY <1>2, <1>3

\* What was asked for before a new offer stays asked for.
LEMMA OfferKeepsRequested ==
    ASSUME IInv, NEW file \in Wholes, offered' = Append(offered, file)
    PROVE  /\ Requested \subseteq Requested'
           /\ Len(offered') = Len(offered) + 1 /\ offered'[Len(offered) + 1] = file
           /\ \A s \in 1..Len(offered) : offered'[s] = offered[s]
           /\ offered' \in Seq(Wholes) /\ Len(offered) \in Nat
  <1>1. offered \in Seq(Wholes)
    BY DEF IInv, SenderInStep
  <1>2. /\ Len(offered) \in Nat /\ Len(offered') = Len(offered) + 1
        /\ offered'[Len(offered) + 1] = file
        /\ \A s \in 1..Len(offered) : offered'[s] = offered[s]
        /\ offered' \in Seq(Wholes)
    BY <1>1
  <1>3. Requested \subseteq Requested'
    BY <1>2 DEF Requested
  <1> QED BY <1>2, <1>3

LEMMA StartSendKeeps == IInv /\ (\E file \in source : StartSend(file)) => IInv'
  <1> SUFFICES ASSUME IInv, NEW file \in source, StartSend(file) PROVE IInv'
    OBVIOUS
  <1>1. /\ usb = Missing /\ source = {file} /\ Len(offered) < MaxSessions
        /\ pending' = Packet("begin", Len(offered) + 1, Len(file), file)
        /\ tx_offset' = 0 /\ attempts' = 0 /\ tx_active' = TRUE
        /\ offered' = Append(offered, file)
        /\ UNCHANGED <<linkVars, usbVars, cardVars, rxVars, stored, verified, sent, resets>>
    BY DEF StartSend, Idle
  <1>2. file \in Wholes /\ file \in FileBytes /\ Len(file) \in Nat
    BY <1>1, WholesAreFiles, FileLength DEF IInv, VerifiedInStep, FilesAreVerified
  <1>3. /\ Requested \subseteq Requested'
        /\ Len(offered') = Len(offered) + 1 /\ offered'[Len(offered) + 1] = file
        /\ \A s \in 1..Len(offered) : offered'[s] = offered[s]
        /\ offered' \in Seq(Wholes) /\ Len(offered) \in Nat
    BY <1>1, <1>2, OfferKeepsRequested
  <1>4. MaxSessions \in Nat /\ MaxAttempts \in Nat \ {0}
    BY Constants
  <1>5. /\ pending' \in Packets /\ pending'.session = Len(offered) + 1
        /\ pending'.payload = file /\ pending'.kind = "begin"
    BY <1>1, <1>2, <1>3, <1>4, PacketType
  <1>6. pending' \in Requested'
    BY <1>3, <1>5 DEF Requested
  <1>7. TypeOK'
    <2>1. LinkTypes' /\ UploadTypes' /\ CardTypes' /\ ReceiverTypes' /\ HistoryTypes'
      BY <1>1, TypeParts DEF IInv, LinkTypes, UploadTypes, CardTypes, ReceiverTypes,
         HistoryTypes, linkVars, usbVars, cardVars, rxVars
    <2>2. SenderTypes'
      BY <1>1, <1>4, <1>5 DEF SenderTypes
    <2> QED BY <2>1, <2>2, TypePartsNext
  <1>8. PacketsInStep'
    <2>1. UNCHANGED <<air, queue, last_received, verified>>
      BY <1>1 DEF linkVars, rxVars
    <2>2. air["sender"] \in Seq(Requested') /\ queue["receiver"] \in Seq(Requested')
      BY <1>3, SeqMonotonic DEF IInv, PacketsInStep
    <2> QED BY <1>6, <2>1, <2>2, SameSets DEF IInv, PacketsInStep
  <1>9. SenderInStep'
    <2>1. offered' # <<>>
      BY <1>3, EmptySeq
    <2> QED BY <1>1, <1>3, <1>4, <1>5, <2>1 DEF IInv, SenderInStep, usbVars, Missing
  <1>10. ReceiverInStep'
    <2>1. stored' \in [Sessions -> Nat] /\ UNCHANGED <<received, stored, rxVars>>
      BY <1>1 DEF IInv, ReceiverInStep, cardVars
    <2>2. ASSUME NEW s \in 1..Len(offered') PROVE stored'[s] <= Len(offered'[s])
      <3>1. CASE s \in 1..Len(offered)
        BY <1>3, <2>1, <3>1 DEF IInv, ReceiverInStep
      <3>2. CASE s = Len(offered) + 1
        <4>1. s \in Sessions \ 1..Len(offered)
          BY <1>1, <1>3, <1>4, <3>2 DEF Sessions
        <4> QED BY <1>2, <1>3, <2>1, <3>2, <4>1 DEF IInv, ReceiverInStep
      <3> QED BY <1>3, <3>1, <3>2
    <2> QED BY <1>3, <2>1, <2>2 DEF IInv, ReceiverInStep, rxVars
  <1>11. VerifiedInStep'
    <2>1. UNCHANGED <<source, saved, received, verified, sent>>
      BY <1>1 DEF usbVars, cardVars
    <2>2. verified \subseteq 1..Len(offered')
      BY <1>3 DEF IInv, VerifiedInStep
    <2>3. \A s \in sent \cup verified : s \in 1..Len(offered) /\ received = {offered[s]}
      BY DEF IInv, VerifiedInStep, FilesAreVerified
    <2>4. \A s \in sent \cup verified : received = {offered'[s]}
      BY <1>3, <2>3
    <2> QED BY <2>1, <2>2, <2>4 DEF IInv, VerifiedInStep, FilesAreVerified
  <1> QED BY <1>7, <1>8, <1>9, <1>10, <1>11 DEF IInv

-----------------------------------------------------------------------------
(* The receiver's transfer.                                                 *)

\* A step of the receiver's radio.
LEMMA ReceiverStep ==
    ASSUME IInv, ReceiverOnly, LinkTypes', CardTypes', ReceiverTypes', ReceiverInStep',
           air'["sender"] \in Seq(Requested), queue'["receiver"] \in Seq(Requested),
           air'["receiver"] \in Seq(Answered'), queue'["sender"] \in Seq(Answered'),
           last_received' \in Answered',
           verified \subseteq verified', verified' \subseteq 1..Len(offered),
           received' \subseteq Wholes, \A s \in verified' : received' = {offered[s]}
    PROVE  IInv'
  <1> USE DEF ReceiverOnly, usbVars, txVars
  <1>1. UploadTypes' /\ SenderTypes'
    BY TypeParts DEF IInv, UploadTypes, SenderTypes
  <1>2. Len(offered) \in Nat /\ Len(offered) <= MaxSessions
    BY LenProperties DEF IInv, SenderInStep
  <1>3. HistoryTypes'
    BY <1>2, Constants, TypeParts DEF IInv, HistoryTypes, Sessions
  <1>4. TypeOK'
    BY <1>1, <1>3, TypePartsNext
  <1>5. PacketsInStep'
    BY SameSets DEF IInv, PacketsInStep
  <1>6. SenderInStep'
    BY DEF IInv, SenderInStep
  <1>7. VerifiedInStep'
    BY DEF IInv, VerifiedInStep, FilesAreVerified
  <1> QED BY <1>4, <1>5, <1>6, <1>7 DEF IInv

LEMMA RequestType ==
    ASSUME IInv, queue["receiver"] # <<>>
    PROVE  Request \in Requested /\ Request \in Packets
  BY HeadTailProperties DEF IInv, PacketsInStep, Request, Requested

LEMMA AcknowledgeKeeps ==
    ASSUME IInv, NEW accepted, Acknowledge(accepted), verified \subseteq verified',
           Request.kind = "finish" => Request.session \in verified'
    PROVE  /\ LinkTypes' /\ last_received' = Request /\ last_received' \in Answered'
           /\ Request \in Requested /\ Request \in Packets
           /\ air'["sender"] \in Seq(Requested) /\ queue'["receiver"] \in Seq(Requested)
           /\ air'["receiver"] \in Seq(Answered') /\ queue'["sender"] \in Seq(Answered')
           /\ rx_stale' = FALSE
  <1> DEFINE answer == [Request EXCEPT !.ack = TRUE]
  <1>1. /\ Take("receiver") /\ last_received' = Request /\ rx_stale' = FALSE
        /\ Send("receiver", answer, accepted) /\ LinkTypes /\ queue["receiver"] # <<>>
    BY TypeParts DEF IInv, Acknowledge, Take
  <1>2. Request \in Requested /\ Request \in Packets
    BY <1>1, RequestType
  <1>3. answer \in Packets /\ answer.kind = Request.kind /\ answer.session = Request.session
    BY <1>2, AckType
  <1> HIDE DEF answer
  <1>4. answer \in Answered' /\ Request \in Answered' /\ Answered \subseteq Answered'
    BY <1>2, <1>3 DEF Answered
  <1>5. /\ queue' \in [Boards -> Seq(Packets)]
        /\ \A S : queue["receiver"] \in Seq(S) => queue'["receiver"] \in Seq(S)
        /\ queue'["sender"] = queue["sender"]
    BY <1>1, TakeKeeps, TwoBoards
  <1>6. /\ sending' \in [Boards -> BOOLEAN] /\ air' \in [Boards -> Seq(Packets)]
        /\ \A S : air["receiver"] \in Seq(S) /\ answer \in S => air'["receiver"] \in Seq(S)
        /\ air'["sender"] = air["sender"]
    BY <1>1, <1>3, SendKeeps, TwoBoards
  <1>7. air["receiver"] \in Seq(Answered') /\ queue["sender"] \in Seq(Answered')
    BY <1>4, SeqMonotonic DEF IInv, PacketsInStep
  <1>8. LinkTypes'
    BY <1>5, <1>6 DEF LinkTypes
  <1> QED BY <1>1, <1>2, <1>4, <1>5, <1>6, <1>7, <1>8 DEF IInv, PacketsInStep

LEMMA RejectKeeps ==
    ASSUME IInv, NEW code \in 2..8, NEW accepted, Reject(code, accepted), UNCHANGED verified
    PROVE  /\ LinkTypes' /\ last_received' \in Answered'
           /\ last_received' = last_received /\ rx_stale' = rx_stale
           /\ output' = FALSE /\ rx_active' = FALSE
           /\ Request \in Requested /\ Request \in Packets
           /\ air'["sender"] \in Seq(Requested) /\ queue'["receiver"] \in Seq(Requested)
           /\ air'["receiver"] \in Seq(Answered') /\ queue'["sender"] \in Seq(Answered')
  <1> DEFINE answer == Packet("error", Request.session, code, <<>>)
  <1>1. /\ Take("receiver") /\ last_received' = last_received /\ rx_stale' = rx_stale
        /\ output' = FALSE /\ rx_active' = FALSE
        /\ Send("receiver", answer, accepted) /\ LinkTypes /\ queue["receiver"] # <<>>
    BY TypeParts DEF IInv, Reject, Take
  <1>2. Request \in Requested /\ Request \in Packets /\ Request.session \in 0..MaxSessions
    BY <1>1, RequestType, PacketFields
  <1>3. /\ code \in Nat /\ <<>> \in FileBytes
        /\ "error" \in {"none", "begin", "data", "finish", "error"}
    BY EmptyIsFile
  <1>4. answer \in Packets /\ answer.kind = "error"
    <2>1. Request.session \in 0..MaxSessions
      BY <1>2
    <2> QED BY <1>3, <2>1, PacketType
  <1> HIDE DEF answer
  <1>5. answer \in Answered
    BY <1>4 DEF Answered
  <1>6. /\ queue' \in [Boards -> Seq(Packets)]
        /\ \A S : queue["receiver"] \in Seq(S) => queue'["receiver"] \in Seq(S)
        /\ queue'["sender"] = queue["sender"]
    BY <1>1, TakeKeeps, TwoBoards
  <1>7. /\ sending' \in [Boards -> BOOLEAN] /\ air' \in [Boards -> Seq(Packets)]
        /\ \A S : air["receiver"] \in Seq(S) /\ answer \in S => air'["receiver"] \in Seq(S)
        /\ air'["sender"] = air["sender"]
    BY <1>1, <1>4, SendKeeps, TwoBoards
  <1>8. LinkTypes'
    BY <1>6, <1>7 DEF LinkTypes
  <1> QED BY <1>1, <1>2, <1>5, <1>6, <1>7, <1>8, SameSets DEF IInv, PacketsInStep

\* What the receiver's handlers rely on.
LEMMA ReceiverFacts ==
    ASSUME IInv
    PROVE  /\ LinkTypes /\ CardTypes /\ ReceiverTypes /\ ReceiverInStep
           /\ offered \in Seq(Wholes) /\ Len(offered) \in Nat /\ Len(offered) <= MaxSessions
           /\ \A s \in 1..Len(offered) :
                 s \in Sessions /\ offered[s] \in Wholes /\ offered[s] \in FileBytes
           /\ verified \subseteq 1..Len(offered) /\ received \subseteq Wholes
           /\ \A s \in verified : received = {offered[s]}
           /\ last_received \in Answered
  <1>1. offered \in Seq(Wholes) /\ Len(offered) <= MaxSessions /\ MaxSessions \in Nat
    BY Constants DEF IInv, SenderInStep
  <1>2. Len(offered) \in Nat /\ \A s \in 1..Len(offered) : offered[s] \in Wholes
    BY <1>1, ElementOfSeq, LenProperties
  <1>3. \A s \in 1..Len(offered) : s \in Sessions /\ offered[s] \in FileBytes
    BY <1>1, <1>2, WholesAreFiles DEF Sessions
  <1> QED BY <1>1, <1>2, <1>3, TypeParts DEF IInv, VerifiedInStep, FilesAreVerified, PacketsInStep

LEMMA AgainKeeps ==
    ASSUME IInv, NEW accepted, Again(accepted)
    PROVE  IInv'
  <1>1. /\ Acknowledge(accepted) /\ ReceiverOnly /\ Request = last_received
        /\ UNCHANGED <<cardVars, rx_active, rx_completed, reuse_existing, rx_session, rx_crc,
                       rx_offset, playing, stored, verified>>
    BY DEF Again
  <1>2. Request.kind = "finish" => Request.session \in verified'
    BY <1>1, ReceiverFacts DEF Answered
  <1>3. CardTypes' /\ ReceiverTypes' /\ ReceiverInStep' /\ offered' = offered
    <2>1. last_received' \in Packets /\ rx_stale' = FALSE
      BY <1>1, <1>2, AcknowledgeKeeps
    <2> QED BY <1>1, <2>1, ReceiverFacts
            DEF CardTypes, ReceiverTypes, ReceiverInStep, ReceiverOnly, cardVars
  <1> QED BY <1>1, <1>2, <1>3, AcknowledgeKeeps, ReceiverFacts, ReceiverStep DEF cardVars

\* What a begin packet leaves of the invariant to show.
LEMMA BeginTypes ==
    ASSUME IInv, Requests("begin"), BeginResets, ReceiverOnly,
           UNCHANGED <<received, stored, verified>>, rx_active' \in BOOLEAN,
           last_received' \in Packets, rx_stale' \in BOOLEAN,
           rx_active' => received = Missing \/ reuse_existing'
    PROVE  /\ ReceiverTypes' /\ ReceiverInStep'
           /\ Request.session \in Sessions
  <1>1. Request \in Requested /\ Request \in Packets /\ Request.kind = "begin"
    BY RequestType DEF Requests
  <1>2. /\ Request.session \in 1..Len(offered) /\ Request.payload = offered[Request.session]
        /\ Request.session \in Sessions /\ Request.session \in 0..MaxSessions
        /\ Request.payload \in FileBytes
    BY <1>1, PacketFields, ReceiverFacts DEF Requested
  <1>3. /\ rx_session' = Request.session /\ rx_crc' = Request.payload /\ rx_offset' = 0
        /\ reuse_existing' \in BOOLEAN /\ playing' = FALSE /\ rx_completed' = FALSE
    BY DEF BeginResets
  <1> HIDE DEF Request
  <1>4. ReceiverTypes'
    BY <1>2, <1>3 DEF ReceiverTypes
  <1>5. ReceiverInStep'
    BY <1>2, <1>3, ReceiverFacts DEF ReceiverInStep, ReceiverOnly
  <1> QED BY <1>2, <1>4, <1>5

LEMMA BeginReusesKeeps ==
    ASSUME IInv, NEW accepted, BeginReuses(accepted)
    PROVE  IInv'
  <1>1. /\ Requests("begin") /\ BeginResets /\ rx_active' = TRUE /\ output' = FALSE
        /\ Acknowledge(accepted) /\ ReceiverOnly /\ received # Missing
        /\ UNCHANGED <<received, staging, stored, verified>>
    BY DEF BeginReuses, Missing
  <1>2. Request.kind = "finish" => Request.session \in verified'
    BY <1>1 DEF Requests
  <1>3. last_received' \in Packets /\ rx_stale' = FALSE
    BY <1>1, <1>2, AcknowledgeKeeps
  <1>4. ReceiverTypes' /\ ReceiverInStep'
    <2>1. reuse_existing'
      BY <1>1 DEF BeginResets
    <2> QED BY <1>1, <1>3, <2>1, BeginTypes
  <1>5. CardTypes' /\ offered' = offered
    BY <1>1, ReceiverFacts DEF CardTypes, ReceiverOnly
  <1> QED BY <1>1, <1>2, <1>4, <1>5, AcknowledgeKeeps, ReceiverFacts, ReceiverStep

LEMMA BeginCreatesKeeps ==
    ASSUME IInv, NEW accepted, BeginCreates(accepted)
    PROVE  IInv'
  <1>1. /\ Requests("begin") /\ BeginResets /\ rx_active' = TRUE /\ output' = TRUE
        /\ Acknowledge(accepted) /\ ReceiverOnly /\ received = Missing
        /\ UNCHANGED <<received, stored, verified>>
        /\ DOMAIN staging' = DOMAIN staging \cup {Request.session}
    BY DEF BeginCreates
  <1>2. Request.kind = "finish" => Request.session \in verified'
    BY <1>1 DEF Requests
  <1>3. last_received' \in Packets /\ rx_stale' = FALSE
    BY <1>1, <1>2, AcknowledgeKeeps
  <1>4. ReceiverTypes' /\ ReceiverInStep' /\ Request.session \in Sessions
    BY <1>1, <1>3, BeginTypes
  <1>5. CardTypes' /\ offered' = offered
    BY <1>1, <1>4, ReceiverFacts DEF CardTypes, ReceiverOnly
  <1> QED BY <1>1, <1>2, <1>4, <1>5, AcknowledgeKeeps, ReceiverFacts, ReceiverStep

LEMMA BeginRejectedKeeps ==
    ASSUME IInv, NEW code \in 2..4, NEW accepted, BeginRejected(code, accepted)
    PROVE  IInv'
  <1>1. /\ Requests("begin") /\ BeginResets /\ Reject(code, accepted) /\ ReceiverOnly
        /\ UNCHANGED <<received, staging, stored, verified>> /\ code \in 2..8
    BY DEF BeginRejected
  <1>2. /\ last_received' = last_received /\ rx_stale' = rx_stale
        /\ output' = FALSE /\ rx_active' = FALSE
    BY <1>1, RejectKeeps
  <1>3. ReceiverTypes' /\ ReceiverInStep'
    <2>1. last_received' \in Packets /\ rx_stale' \in BOOLEAN
      BY <1>2, ReceiverFacts DEF ReceiverTypes
    <2> QED BY <1>1, <1>2, <2>1, BeginTypes
  <1>4. CardTypes' /\ offered' = offered
    BY <1>1, <1>2, ReceiverFacts DEF CardTypes, ReceiverOnly
  <1> QED BY <1>1, <1>3, <1>4, RejectKeeps, ReceiverFacts, ReceiverStep

LEMMA DataAcceptedKeeps ==
    ASSUME IInv, NEW accepted, NEW worn, DataAccepted(accepted, worn)
    PROVE  IInv'
  <1>1. /\ Requests("data") /\ Current /\ InPlace(Request) /\ Acknowledge(accepted)
        /\ ReceiverOnly /\ DOMAIN staging' = DOMAIN staging
        /\ rx_offset' = rx_offset + Len(Request.payload)
        /\ stored' = [stored EXCEPT ![rx_session] =
                        Larger(stored[rx_session], rx_offset + Len(Request.payload))]
        /\ UNCHANGED <<received, output, rx_active, rx_completed, reuse_existing, rx_session,
                       rx_crc, playing, verified>>
    BY DEF DataAccepted
  <1>2. Request.kind = "finish" => Request.session \in verified'
    BY <1>1 DEF Requests
  <1>3. /\ Request \in Packets /\ last_received' \in Packets /\ rx_stale' = FALSE
    BY <1>1, <1>2, AcknowledgeKeeps
  <1>4. Len(Request.payload) \in Nat
    BY <1>3, PacketFields
  <1>5. /\ rx_session \in 1..Len(offered) /\ rx_crc = offered[rx_session]
        /\ ~reuse_existing => received = Missing
        /\ stored \in [Sessions -> Nat] /\ rx_session \in Sessions
        /\ rx_offset \in Nat /\ Len(rx_crc) \in Nat
    BY <1>1, ReceiverFacts, FileLength DEF Current, ReceiverInStep, ReceiverTypes
  <1>6. rx_offset' \in Nat /\ rx_offset' <= Len(offered[rx_session])
    BY <1>1, <1>4, <1>5 DEF InPlace
  <1>7. /\ stored' \in [Sessions -> Nat] /\ rx_offset' <= stored'[rx_session]
        /\ stored'[rx_session] <= Len(offered[rx_session])
        /\ \A s \in Sessions : s # rx_session => stored'[s] = stored[s]
    <2>1. stored[rx_session] \in Nat /\ stored[rx_session] <= Len(offered[rx_session])
      BY <1>5, ReceiverFacts DEF ReceiverInStep
    <2>2. /\ Larger(stored[rx_session], rx_offset') \in Nat
          /\ rx_offset' <= Larger(stored[rx_session], rx_offset')
          /\ Larger(stored[rx_session], rx_offset') <= Len(offered[rx_session])
      BY <1>5, <1>6, <2>1 DEF Larger
    <2>3. stored' = [stored EXCEPT ![rx_session] = Larger(stored[rx_session], rx_offset')]
      BY <1>1
    <2> QED BY <1>5, <2>2, <2>3
  <1>8. ReceiverInStep' /\ offered' = offered
    BY <1>1, <1>5, <1>7, ReceiverFacts DEF ReceiverInStep, ReceiverOnly
  <1>9. ReceiverTypes' /\ CardTypes'
    BY <1>1, <1>3, <1>6, ReceiverFacts DEF ReceiverTypes, CardTypes
  <1> QED BY <1>1, <1>2, <1>8, <1>9, AcknowledgeKeeps, ReceiverFacts, ReceiverStep

LEMMA DataRejectedKeeps ==
    ASSUME IInv, NEW accepted, DataRejected(accepted)
    PROVE  IInv'
  <1>1. /\ Reject(5, accepted) /\ ReceiverOnly /\ DOMAIN staging' = DOMAIN staging
        /\ UNCHANGED <<received, rx_completed, reuse_existing, rx_session, rx_crc, rx_offset,
                       playing, stored, verified>>
    BY DEF DataRejected
  <1>2. 5 \in 2..8
    OBVIOUS
  <1>3. /\ last_received' = last_received /\ rx_stale' = rx_stale
        /\ output' = FALSE /\ rx_active' = FALSE
    BY <1>1, <1>2, RejectKeeps
  <1>4. ReceiverTypes' /\ CardTypes'
    BY <1>1, <1>3, ReceiverFacts DEF ReceiverTypes, CardTypes
  <1>5. ReceiverInStep' /\ offered' = offered
    BY <1>1, <1>3, ReceiverFacts DEF ReceiverInStep, ReceiverOnly
  <1> QED BY <1>1, <1>2, <1>4, <1>5, RejectKeeps, ReceiverFacts, ReceiverStep

\* Only an empty card gets a clip, and exactly the one offered.
LEMMA FinishStores ==
    ASSUME IInv, NEW accepted, FinishAccepted(accepted)
    PROVE  /\ rx_session \in 1..Len(offered) /\ received' = {offered[rx_session]}
           /\ received # Missing => received' = received
           /\ stored[rx_session] = Len(offered[rx_session])
  <1>1. /\ Current /\ Complete /\ Checked = {rx_crc}
        /\ received' = IF reuse_existing THEN received ELSE {staging[rx_session]}
    BY DEF FinishAccepted
  <1>2. /\ rx_session \in 1..Len(offered) /\ rx_crc = offered[rx_session]
        /\ rx_offset <= stored[rx_session]
        /\ ~reuse_existing => received = Missing
        /\ stored[rx_session] <= Len(offered[rx_session])
        /\ stored[rx_session] \in Nat /\ rx_offset \in Nat
    BY <1>1, ReceiverFacts DEF Current, ReceiverInStep, ReceiverTypes
  <1>3. received' = {rx_crc} /\ (received # Missing => received' = received)
    BY <1>1, <1>2 DEF Checked
  <1>4. rx_offset = Len(offered[rx_session]) /\ Len(offered[rx_session]) \in Nat
    BY <1>1, <1>2 DEF Complete
  <1> QED BY <1>2, <1>3, <1>4

LEMMA FinishAcceptedKeeps ==
    ASSUME IInv, NEW accepted, FinishAccepted(accepted)
    PROVE  IInv'
  <1>1. /\ Requests("finish") /\ Current /\ Acknowledge(accepted) /\ ReceiverOnly
        /\ output' = FALSE /\ rx_active' = FALSE /\ rx_completed' = TRUE
        /\ verified' = verified \cup {rx_session}
        /\ UNCHANGED <<reuse_existing, rx_session, rx_crc, rx_offset, playing, stored>>
        /\ staging' = IF reuse_existing THEN staging
                      ELSE [s \in DOMAIN staging \ {rx_session} |-> staging[s]]
    BY DEF FinishAccepted
  <1>2. /\ rx_session \in 1..Len(offered) /\ received' = {offered[rx_session]}
        /\ received # Missing => received' = received
    BY FinishStores
  <1>3. Request.session \in verified' /\ verified \subseteq verified'
    BY <1>1 DEF Current
  <1>4. last_received' \in Packets /\ rx_stale' = FALSE
    BY <1>1, <1>3, AcknowledgeKeeps
  <1>5. DOMAIN staging' \subseteq DOMAIN staging
    BY <1>1
  <1>6. /\ received' \subseteq Wholes /\ received' \subseteq FileBytes
        /\ \A s \in verified' : received' = {offered[s]}
        /\ verified' \subseteq 1..Len(offered)
    BY <1>1, <1>2, ReceiverFacts DEF Missing
  <1>7. CardTypes'
    BY <1>1, <1>2, <1>5, <1>6, ReceiverFacts DEF CardTypes
  <1>8. ReceiverTypes'
    BY <1>1, <1>4, ReceiverFacts DEF ReceiverTypes
  <1>9. ReceiverInStep' /\ offered' = offered
    BY <1>1, ReceiverFacts DEF ReceiverInStep, ReceiverOnly
  <1> QED BY <1>1, <1>3, <1>6, <1>7, <1>8, <1>9, AcknowledgeKeeps, ReceiverStep

LEMMA FinishRejectedKeeps ==
    ASSUME IInv, NEW code \in 6..8, NEW accepted, FinishRejected(code, accepted)
    PROVE  IInv'
  <1>1. /\ Reject(code, accepted) /\ ReceiverOnly /\ code \in 2..8
        /\ UNCHANGED <<received, staging, rx_completed, reuse_existing, rx_session, rx_crc,
                       rx_offset, playing, stored, verified>>
    BY DEF FinishRejected
  <1>2. /\ last_received' = last_received /\ rx_stale' = rx_stale
        /\ output' = FALSE /\ rx_active' = FALSE
    BY <1>1, RejectKeeps
  <1>3. ReceiverTypes' /\ CardTypes'
    BY <1>1, <1>2, ReceiverFacts DEF ReceiverTypes, CardTypes
  <1>4. ReceiverInStep' /\ offered' = offered
    BY <1>1, <1>2, ReceiverFacts DEF ReceiverInStep, ReceiverOnly
  <1> QED BY <1>1, <1>3, <1>4, RejectKeeps, ReceiverFacts, ReceiverStep

LEMMA RequestIgnoredKeeps ==
    ASSUME IInv, RequestIgnored
    PROVE  IInv'
  <1>1. /\ Take("receiver") /\ ReceiverOnly
        /\ UNCHANGED <<sending, air, cardVars, rxVars, stored, verified>>
    BY DEF RequestIgnored
  <1>2. /\ queue' \in [Boards -> Seq(Packets)]
        /\ \A S : queue["receiver"] \in Seq(S) => queue'["receiver"] \in Seq(S)
        /\ queue'["sender"] = queue["sender"]
    BY <1>1, ReceiverFacts, TakeKeeps, TwoBoards
  <1>3. LinkTypes' /\ CardTypes' /\ ReceiverTypes'
    BY <1>1, <1>2, ReceiverFacts DEF LinkTypes, CardTypes, ReceiverTypes, cardVars, rxVars
  <1>4. ReceiverInStep' /\ offered' = offered
    BY <1>1, ReceiverFacts DEF ReceiverInStep, ReceiverOnly, cardVars, rxVars
  <1>5. last_received' = last_received /\ received' = received /\ air' = air
    BY <1>1 DEF cardVars, rxVars
  <1> QED BY <1>1, <1>2, <1>3, <1>4, <1>5, SameSets, ReceiverFacts, ReceiverStep
          DEF IInv, PacketsInStep

LEMMA ProcessRequestKeeps == IInv /\ ProcessRequest => IInv'
  BY AgainKeeps, BeginReusesKeeps, BeginCreatesKeeps, BeginRejectedKeeps, DataAcceptedKeeps,
     DataRejectedKeeps, FinishAcceptedKeeps, FinishRejectedKeeps, RequestIgnoredKeeps
     DEF ProcessRequest

-----------------------------------------------------------------------------
(* The rest of the receiver's loop, and the resets.                         *)

\* What neither stores nor sends anything.
LEMMA LoopStep ==
    ASSUME IInv, LoopOnly,
           {output', rx_active', rx_completed', rx_stale', playing'} \subseteq BOOLEAN,
           rx_active' => rx_active
    PROVE  IInv'
  <1> USE DEF LoopOnly, linkVars, usbVars, txVars, historyVars
  <1>1. LinkTypes' /\ UploadTypes' /\ SenderTypes' /\ HistoryTypes'
    BY TypeParts DEF IInv, LinkTypes, UploadTypes, SenderTypes, HistoryTypes
  <1>2. CardTypes' /\ ReceiverTypes'
    BY ReceiverFacts DEF CardTypes, ReceiverTypes
  <1>3. TypeOK'
    BY <1>1, <1>2, TypePartsNext
  <1>4. PacketsInStep'
    BY SameSets DEF IInv, PacketsInStep
  <1>5. SenderInStep' /\ VerifiedInStep'
    BY DEF IInv, SenderInStep, VerifiedInStep, FilesAreVerified
  <1>6. ReceiverInStep'
    BY ReceiverFacts DEF ReceiverInStep
  <1> QED BY <1>3, <1>4, <1>5, <1>6 DEF IInv

LEMMA LoopKeeps == IInv /\ (ReceiverLoop \/ Silence) => IInv'
  <1> SUFFICES ASSUME IInv, TickTimesOut \/ PlayReceived \/ PlayCommand \/ PlayerFails \/ Silence
               PROVE  IInv'
    BY DEF ReceiverLoop
  <1>1. CardTypes /\ ReceiverTypes
    BY ReceiverFacts
  <1>2. /\ LoopOnly /\ (rx_active' => rx_active)
        /\ {output', rx_active', rx_completed', rx_stale', playing'} \subseteq BOOLEAN
    <2>1. CASE TickTimesOut
      BY <1>1, <2>1 DEF TickTimesOut, CardTypes, ReceiverTypes
    <2>2. CASE PlayReceived
      BY <1>1, <2>2 DEF PlayReceived, CardTypes, ReceiverTypes
    <2>3. CASE PlayCommand
      BY <1>1, <2>3 DEF PlayCommand, CardTypes, ReceiverTypes
    <2>4. CASE PlayerFails
      BY <1>1, <2>4 DEF PlayerFails, CardTypes, ReceiverTypes
    <2>5. CASE Silence
      BY <1>1, <2>5 DEF Silence, CardTypes, ReceiverTypes
    <2> QED BY <2>1, <2>2, <2>3, <2>4, <2>5
  <1> QED BY <1>2, LoopStep

\* A reset empties the board's queue and perhaps its air.
LEMMA LinkReset ==
    ASSUME LinkTypes, NEW b \in Boards, NEW left \in {air[b], <<>>},
           sending' = [sending EXCEPT ![b] = FALSE],
           queue' = [queue EXCEPT ![b] = <<>>], air' = [air EXCEPT ![b] = left]
    PROVE  /\ LinkTypes'
           /\ \A S : air[b] \in Seq(S) => air'[b] \in Seq(S)
           /\ \A S : queue'[b] \in Seq(S)
           /\ \A c \in Boards : c # b => air'[c] = air[c] /\ queue'[c] = queue[c]
  <1>1. \A S : <<>> \in Seq(S)
    BY EmptySeq
  <1>2. left \in Seq(Packets) /\ <<>> \in Seq(Packets)
    BY <1>1 DEF LinkTypes
  <1>3. air'[b] = left /\ queue'[b] = <<>>
        /\ \A c \in Boards : c # b => air'[c] = air[c] /\ queue'[c] = queue[c]
    BY DEF LinkTypes
  <1>4. LinkTypes'
    BY <1>2 DEF LinkTypes
  <1> QED BY <1>1, <1>3, <1>4

LEMMA SenderResetKeeps == IInv /\ SenderReset => IInv'
  <1> SUFFICES ASSUME IInv, SenderReset PROVE IInv'
    OBVIOUS
  <1>1. /\ usb' = Missing /\ tx_active' = FALSE /\ pending' = NoPacket
        /\ tx_offset' = 0 /\ attempts' = 0 /\ resets < MaxResets /\ resets' = resets + 1
        /\ UNCHANGED <<saved, source, cardVars, rxVars, offered, stored, verified, sent>>
        /\ IF usb = Missing THEN part' = part
           ELSE \E written \in part : \E kept \in Prefixes(written) : part' = {kept}
    BY DEF SenderReset
  <1>2. /\ LinkTypes'
        /\ \A S : air["sender"] \in Seq(S) => air'["sender"] \in Seq(S)
        /\ \A S : queue'["sender"] \in Seq(S)
        /\ air'["receiver"] = air["receiver"] /\ queue'["receiver"] = queue["receiver"]
    <2>1. PICK left \in {air["sender"], <<>>} : air' = [air EXCEPT !["sender"] = left]
      BY DEF SenderReset
    <2>2. /\ sending' = [sending EXCEPT !["sender"] = FALSE]
          /\ queue' = [queue EXCEPT !["sender"] = <<>>]
      BY DEF SenderReset
    <2> QED BY <2>1, <2>2, ReceiverFacts, TwoBoards, LinkReset
  <1>3. UploadTypes /\ HistoryTypes
    BY TypeParts DEF IInv
  <1>4. UploadTypes'
    <2>1. part' \subseteq FileBytes /\ \A a, b \in part' : a = b
      <3>1. CASE part' = part
        BY <1>3, <3>1 DEF UploadTypes
      <3>2. ASSUME NEW written \in part, NEW kept \in Prefixes(written), part' = {kept}
            PROVE  part' \subseteq FileBytes /\ \A a, b \in part' : a = b
        <4>1. kept \in FileBytes
          BY <1>3, <3>2, PrefixIsFile DEF UploadTypes
        <4> QED BY <3>2, <4>1
      <3> QED BY <1>1, <3>1, <3>2
    <2> QED BY <1>1, <1>3, <2>1 DEF UploadTypes, Missing
  <1>5. SenderTypes' /\ NoPacket \in Packets /\ NoPacket.kind = "none"
    <2>1. 0 \in 0..MaxAttempts
      BY Constants
    <2> QED BY <1>1, <2>1, NoPacketType DEF SenderTypes
  <1>6. HistoryTypes'
    <2>1. resets + 1 \in 0..MaxResets
      BY <1>1, <1>3, Constants DEF HistoryTypes
    <2> QED BY <1>1, <1>3, <2>1 DEF HistoryTypes
  <1>7. CardTypes' /\ ReceiverTypes' /\ ReceiverInStep'
    BY <1>1, ReceiverFacts DEF CardTypes, ReceiverTypes, ReceiverInStep, cardVars, rxVars
  <1>8. TypeOK'
    BY <1>2, <1>4, <1>5, <1>6, <1>7, TypePartsNext
  <1>9. PacketsInStep'
    <2>1. pending' \in Requested
      BY <1>1, <1>5 DEF Requested
    <2>2. Requested' = Requested /\ Answered' = Answered /\ last_received' = last_received
      BY <1>1, SameSets DEF rxVars
    <2> QED BY <1>2, <2>1, <2>2 DEF IInv, PacketsInStep
  <1>10. SenderInStep' /\ VerifiedInStep'
    BY <1>1 DEF IInv, SenderInStep, VerifiedInStep, FilesAreVerified, cardVars
  <1> QED BY <1>7, <1>8, <1>9, <1>10 DEF IInv

LEMMA ReceiverResetKeeps == IInv /\ ReceiverReset => IInv'
  <1> SUFFICES ASSUME IInv, ReceiverReset PROVE IInv'
    OBVIOUS
  <1>1. /\ resets < MaxResets /\ resets' = resets + 1
        /\ output' = FALSE /\ rx_active' = FALSE /\ rx_completed' = FALSE
        /\ reuse_existing' = FALSE /\ rx_session' = 0 /\ rx_crc' = <<>> /\ rx_offset' = 0
        /\ last_received' = NoPacket /\ rx_stale' = FALSE /\ playing' \in BOOLEAN
        /\ DOMAIN staging' = DOMAIN staging
        /\ UNCHANGED <<usbVars, txVars, received, offered, stored, verified, sent>>
    BY DEF ReceiverReset
  <1>2. /\ LinkTypes'
        /\ \A S : air["receiver"] \in Seq(S) => air'["receiver"] \in Seq(S)
        /\ \A S : queue'["receiver"] \in Seq(S)
        /\ air'["sender"] = air["sender"] /\ queue'["sender"] = queue["sender"]
    <2>1. PICK left \in {air["receiver"], <<>>} : air' = [air EXCEPT !["receiver"] = left]
      BY DEF ReceiverReset
    <2>2. /\ sending' = [sending EXCEPT !["receiver"] = FALSE]
          /\ queue' = [queue EXCEPT !["receiver"] = <<>>]
      BY DEF ReceiverReset
    <2> QED BY <2>1, <2>2, ReceiverFacts, TwoBoards, LinkReset
  <1>3. UploadTypes' /\ SenderTypes' /\ HistoryTypes /\ CardTypes
    BY <1>1, TypeParts DEF IInv, UploadTypes, SenderTypes, usbVars, txVars
  <1>4. NoPacket \in Packets /\ NoPacket.kind = "none"
    BY NoPacketType
  <1>5. CardTypes' /\ ReceiverTypes'
    <2>1. 0 \in 0..MaxSessions /\ 0 \in Nat
      BY Constants
    <2> QED BY <1>1, <1>3, <1>4, <2>1, EmptyIsFile DEF CardTypes, ReceiverTypes
  <1>6. HistoryTypes'
    <2>1. resets + 1 \in 0..MaxResets
      BY <1>1, <1>3, Constants DEF HistoryTypes
    <2> QED BY <1>1, <1>3, <2>1 DEF HistoryTypes
  <1>7. TypeOK'
    BY <1>2, <1>3, <1>5, <1>6, TypePartsNext
  <1>8. PacketsInStep'
    <2>1. last_received' \in Answered
      BY <1>1, <1>4 DEF Answered
    <2>2. Requested' = Requested /\ Answered' = Answered /\ pending' = pending
      BY <1>1, SameSets DEF txVars
    <2> QED BY <1>2, <2>1, <2>2 DEF IInv, PacketsInStep
  <1>9. SenderInStep' /\ ReceiverInStep' /\ VerifiedInStep'
    BY <1>1 DEF IInv, SenderInStep, ReceiverInStep, VerifiedInStep, FilesAreVerified,
       usbVars, txVars
  <1> QED BY <1>7, <1>8, <1>9 DEF IInv

LEMMA NextKeeps == IInv /\ [Next]_vars => IInv'
  <1> SUFFICES ASSUME IInv, [Next]_vars PROVE IInv'
    OBVIOUS
  <1>1. CASE UNCHANGED vars
    <2>1. UNCHANGED <<linkVars, usbVars, txVars, cardVars, rxVars, historyVars>>
      BY <1>1 DEF vars
    <2>2. LinkTypes' /\ air' = air /\ queue' = queue
      BY <2>1, ReceiverFacts DEF LinkTypes, linkVars
    <2> QED BY <2>1, <2>2, LinkOnly DEF IInv, PacketsInStep
  <1>2. CASE Link
    BY <1>2, OnSendKeeps, OnReceiveKeepsIt DEF Link
  <1>3. CASE Reset
    BY <1>3, SenderResetKeeps, ReceiverResetKeeps DEF Reset
  <1>4. CASE \E file \in source : StartSend(file)
    BY <1>4, StartSendKeeps
  <1> QED BY <1>1, <1>2, <1>3, <1>4, UploadKeeps, ProcessReplyKeeps, SenderTickKeeps,
             ProcessRequestKeeps, LoopKeeps DEF Next

-----------------------------------------------------------------------------
(* The theorems.                                                            *)

LEMMA InitHolds == Init => IInv
  <1> SUFFICES ASSUME Init PROVE IInv
    OBVIOUS
  <1> USE DEF Init
  <1>1. 0 \in 0..MaxAttempts /\ 0 \in 0..MaxSessions /\ 0 \in 0..MaxResets
        /\ MaxSessions \in Nat /\ \A S : <<>> \in Seq(S)
    BY Constants, EmptySeq
  <1>2. NoPacket \in Packets /\ NoPacket.kind = "none"
    BY NoPacketType
  <1>3. LinkTypes
    BY <1>1 DEF LinkTypes
  <1>4. /\ source \subseteq Wholes /\ received \subseteq Wholes
        /\ \A a, b \in source : a = b
        /\ \A a, b \in received : a = b
    <2>1. \A b \in Boards : Stocked[b] \subseteq Clips
      BY Constants
    <2>2. ASSUME NEW b \in Boards, NEW file,
                 file \in {Missing} \cup {{Whole(clip)} : clip \in Stocked[b]}
          PROVE  file \subseteq Wholes /\ \A x, y \in file : x = y
      BY <2>1, <2>2 DEF Wholes, Missing
    <2> QED BY <2>2, TwoBoards
  <1>5. UploadTypes /\ CardTypes
    BY <1>4, WholesAreFiles DEF UploadTypes, CardTypes, Missing
  <1>6. SenderTypes /\ ReceiverTypes /\ HistoryTypes
    BY <1>1, <1>2, EmptyIsFile DEF SenderTypes, ReceiverTypes, HistoryTypes
  <1>7. PacketsInStep
    BY <1>1, <1>2, TwoBoards DEF PacketsInStep, Requested, Answered
  <1>8. SenderInStep
    BY <1>1 DEF SenderInStep
  <1>9. ReceiverInStep
    BY DEF ReceiverInStep, Sessions
  <1>10. VerifiedInStep
    BY <1>4 DEF VerifiedInStep, FilesAreVerified
  <1> QED BY <1>3, <1>5, <1>6, <1>7, <1>8, <1>9, <1>10, TypeParts DEF IInv

LEMMA Invariance == Spec => []IInv
  BY InitHolds, NextKeeps, PTL DEF Spec

\* Type correctness of cards, transfers, link and history.
THEOREM TypeCorrect == Spec => []TypeOK
  <1>1. IInv => TypeOK
    BY DEF IInv
  <1> QED BY <1>1, Invariance, PTL

\* For any clips, chunk sizes, faults and number of resets: a card's clip name
\* only ever names a whole verified clip, and what the host or the sender was
\* told stays true (receive_usb, process_request).
THEOREM FilesVerified == Spec => []FilesAreVerified
  <1>1. IInv => FilesAreVerified
    BY DEF IInv, VerifiedInStep
  <1> QED BY <1>1, Invariance, PTL

-----------------------------------------------------------------------------

LEMMA CardsKept ==
    IInv /\ [Next]_vars => /\ source # Missing => source' = source
                           /\ received # Missing => received' = received
  <1> SUFFICES ASSUME IInv, [Next]_vars
               PROVE  /\ source # Missing => source' = source
                      /\ received # Missing => received' = received
    OBVIOUS
  <1>1. CASE UNCHANGED vars
    BY <1>1 DEF vars, usbVars, cardVars
  <1>2. CASE Link
    BY <1>2 DEF Link, OnSend, OnReceive, usbVars, cardVars
  <1>3. CASE Upload
    <2>1. received' = received
      BY <1>3 DEF Upload, PutExisting, PutReady, PutBroken, PutVerified, PutChunk, OnlyUpload,
         cardVars
    <2>2. source = Missing \/ source' = source
      <3> SUFFICES ASSUME usb # Missing, NEW clip \in Uploads, NEW written \in part,
                          PutVerified(clip, written)
                   PROVE  source = Missing
        BY <1>3 DEF Upload, PutExisting, PutReady, PutBroken, PutVerified, PutChunk, Missing
      <3> QED BY DEF IInv, SenderInStep
    <2> QED BY <2>1, <2>2
  <1>4. CASE ProcessReply
    BY <1>4 DEF ProcessReply, ReplyError, ReplyFinished, ReplyIgnored, ReplyAdvances,
       ReplyUnreadable, SenderOnly, usbVars, cardVars
  <1>5. CASE SenderTick
    BY <1>5 DEF SenderTick, TickGivesUp, TickSend, SenderOnly, usbVars, cardVars
  <1>6. CASE ProcessRequest
    <2>1. source' = source
      BY <1>6 DEF ProcessRequest, Again, BeginReuses, BeginCreates, BeginRejected, DataAccepted,
         DataRejected, FinishAccepted, FinishRejected, RequestIgnored, ReceiverOnly, usbVars
    <2>2. received # Missing => received' = received
      BY <1>6, FinishStores
         DEF ProcessRequest, Again, BeginReuses, BeginCreates, BeginRejected, DataAccepted,
         DataRejected, FinishRejected, RequestIgnored, cardVars
    <2> QED BY <2>1, <2>2
  <1>7. CASE ReceiverLoop \/ Silence
    BY <1>7 DEF ReceiverLoop, TickTimesOut, PlayReceived, PlayCommand, PlayerFails, Silence,
       LoopOnly, usbVars
  <1>8. CASE Reset
    BY <1>8 DEF Reset, SenderReset, ReceiverReset, usbVars, cardVars
  <1>9. CASE \E file \in source : StartSend(file)
    BY <1>9 DEF StartSend, usbVars, cardVars
  <1> QED BY <1>1, <1>2, <1>3, <1>4, <1>5, <1>6, <1>7, <1>8, <1>9 DEF Next

\* No upload, transfer, fault or reset ever replaces a clip that is on a card
\* (receive_usb's and process_request's existing-file branches).
THEOREM ClipsStay == Spec => NeverReplaced
  <1>1. IInv /\ [Next]_vars =>
          [/\ source # Missing => source' = source
           /\ received # Missing => received' = received]_vars
    BY CardsKept
  <1> QED BY <1>1, Invariance, PTL DEF Spec, NeverReplaced

-----------------------------------------------------------------------------
(* The promise.                                                             *)

LEMMA PromiseStep == IInv /\ [Next]_vars => [Promise!Next]_Promise!promiseVars
  <1> SUFFICES ASSUME IInv, [Next]_vars PROVE [Promise!Next]_Promise!promiseVars
    OBVIOUS
  <1> DEFINE Same == UNCHANGED <<offered, stored, verified, sent>>
  <1>1. Same => [Promise!Next]_Promise!promiseVars
    BY DEF Promise!promiseVars
  <1>2. CASE UNCHANGED vars
    BY <1>1, <1>2 DEF vars, historyVars
  <1>3. CASE Link \/ Upload \/ SenderTick \/ ReceiverLoop \/ Silence \/ Reset
    <2>1. Same
      BY <1>3 DEF Link, OnSend, OnReceive, Upload, PutExisting, PutReady, PutBroken, PutVerified,
         PutChunk, OnlyUpload, SenderTick, TickGivesUp, TickSend, SenderOnly, ReceiverLoop,
         TickTimesOut, PlayReceived, PlayCommand, PlayerFails, Silence, LoopOnly, Reset,
         SenderReset, ReceiverReset, historyVars
    <2> QED BY <1>1, <2>1
  <1>4. CASE ProcessReply
    <2>1. CASE ReplyFinished
      <3>1. /\ Take("sender") /\ UNCHANGED <<sending, air, offered, stored, verified>>
            /\ tx_active /\ sent' = sent \cup {pending.session}
            /\ Acknowledges(Answer, pending) /\ pending.kind = "finish"
        BY <2>1 DEF ReplyFinished, ForPending, SenderOnly
      <3>2. pending.session \in verified
        BY <3>1, AnswerTaken, AcknowledgesPending DEF Answered
      <3>3. pending.session = Len(offered)
        BY <3>1 DEF IInv, SenderInStep
      <3>4. Promise!Report
        BY <3>1, <3>2, <3>3 DEF Promise!Report
      <3> QED BY <3>4 DEF Promise!Next
    <2>2. CASE ~ReplyFinished
      <3>1. Same
        BY <1>4, <2>2 DEF ProcessReply, ReplyError, ReplyIgnored, ReplyAdvances,
           ReplyUnreadable, SenderOnly
      <3> QED BY <1>1, <3>1
    <2> QED BY <2>1, <2>2
  <1>5. CASE \E file \in source : StartSend(file)
    <2>1. PICK file \in source : StartSend(file)
      BY <1>5
    <2>2. file \in Wholes
      BY DEF IInv, VerifiedInStep, FilesAreVerified
    <2>3. Promise!Offer(file)
      BY <2>1 DEF StartSend, Promise!Offer
    <2> QED BY <2>2, <2>3 DEF Promise!Next
  <1>6. CASE ProcessRequest
    <2>1. CASE \E accepted \in Accepts : FinishAccepted(accepted)
      <3>1. PICK accepted \in Accepts : FinishAccepted(accepted)
        BY <2>1
      <3>2. /\ rx_session \in 1..Len(offered) /\ offered[rx_session] \in Wholes
            /\ stored[rx_session] = Len(offered[rx_session])
        BY <3>1, FinishStores, ReceiverFacts
      <3>3. Promise!Verify(rx_session)
        BY <3>1, <3>2 DEF FinishAccepted, ReceiverOnly, Promise!Verify
      <3> QED BY <3>2, <3>3 DEF Promise!Next
    <2>2. CASE \E accepted \in Accepts, worn \in BOOLEAN : DataAccepted(accepted, worn)
      <3>1. PICK accepted \in Accepts, worn \in BOOLEAN : DataAccepted(accepted, worn)
        BY <2>2
      <3> DEFINE bytes == Larger(stored[rx_session], rx_offset + Len(Request.payload))
      <3>2. /\ stored' = [stored EXCEPT ![rx_session] = bytes]
            /\ UNCHANGED <<offered, verified, sent>> /\ Current /\ InPlace(Request)
        BY <3>1 DEF DataAccepted, ReceiverOnly
      <3>3. /\ rx_session \in 1..Len(offered) /\ rx_crc = offered[rx_session]
            /\ offered[rx_session] \in Wholes /\ rx_session \in Sessions
            /\ stored \in [Sessions -> Nat] /\ rx_offset \in Nat
            /\ stored[rx_session] <= Len(offered[rx_session])
            /\ Len(offered[rx_session]) \in Nat
        BY <3>2, ReceiverFacts, FileLength DEF Current, ReceiverInStep, ReceiverTypes
      <3>4. Len(Request.payload) \in Nat
        <4>1. queue["receiver"] # <<>>
          BY <3>1 DEF DataAccepted, Requests
        <4> QED BY <4>1, RequestType, PacketFields
      <3>5. /\ bytes \in Nat /\ stored[rx_session] <= bytes
            /\ bytes <= Len(offered[rx_session])
        BY <3>2, <3>3, <3>4 DEF InPlace, Larger
      <3> HIDE DEF bytes
      <3>6. CASE bytes = stored[rx_session]
        <4>1. stored' = stored
          BY <3>2, <3>3, <3>6
        <4> QED BY <1>1, <3>2, <4>1
      <3>7. CASE stored[rx_session] < bytes
        <4>1. bytes \in 1..Len(offered[rx_session])
          BY <3>3, <3>5, <3>7
        <4>2. Promise!Store(rx_session, bytes)
          BY <3>2, <3>3, <3>5, <3>7 DEF Promise!Store
        <4> QED BY <3>3, <4>1, <4>2 DEF Promise!Next
      <3> QED BY <3>3, <3>5, <3>6, <3>7
    <2>3. CASE /\ ~\E accepted \in Accepts : FinishAccepted(accepted)
               /\ ~\E accepted \in Accepts, worn \in BOOLEAN : DataAccepted(accepted, worn)
      <3>1. Same
        BY <1>6, <2>3 DEF ProcessRequest, Again, BeginReuses, BeginCreates, BeginRejected,
           DataRejected, FinishRejected, RequestIgnored, ReceiverOnly
      <3> QED BY <1>1, <3>1
    <2> QED BY <2>1, <2>2, <2>3
  <1> QED BY <1>2, <1>3, <1>4, <1>5, <1>6 DEF Next

\* The transfer to the card implements the promise that wireless_stream makes:
\* SENT VERIFIED only for the latest offer and only after the receiver holds all
\* of it, for any link, faults and resets.
THEOREM PromiseKept == Spec => KeepsPromise
  <1>1. Init => Promise!Init
    BY DEF Init, Promise!Init
  <1> QED BY <1>1, PromiseStep, Invariance, PTL DEF Spec, KeepsPromise

-----------------------------------------------------------------------------
(* The staging file.                                                        *)

\* A completed transfer has left a clip; the staging file is there while it is
\* written.
StagingIInv ==
    /\ StagingInStep
    /\ rx_completed => received # Missing
    /\ rx_active /\ ~reuse_existing =>
          rx_session \in DOMAIN staging /\ staging[rx_session] \in FileBytes

\* A step that leaves the receiver's card and transfer alone.
LEMMA StagingSame ==
    ASSUME StagingIInv,
           UNCHANGED <<received, staging, output, rx_active, rx_completed, reuse_existing,
                       rx_session, rx_crc, rx_offset, playing>>
    PROVE  StagingIInv'
  BY DEF StagingIInv, StagingInStep

\* A step that ends the transfer.
LEMMA StagingClosed ==
    ASSUME output' = FALSE, rx_active' = FALSE,
           playing' => received' # Missing, rx_completed' => received' # Missing
    PROVE  StagingIInv'
  BY DEF StagingIInv, StagingInStep

LEMMA BeginStaging ==
    ASSUME IInv, StagingIInv, NEW accepted,
           \/ BeginReuses(accepted) \/ BeginCreates(accepted)
           \/ \E code \in 2..4 : BeginRejected(code, accepted)
    PROVE  StagingIInv'
  <1>1. CASE BeginReuses(accepted)
    <2>1. reuse_existing' /\ output' = FALSE /\ playing' = FALSE /\ rx_completed' = FALSE
      BY <1>1 DEF BeginReuses, BeginResets, Missing
    <2> QED BY <2>1 DEF StagingIInv, StagingInStep
  <1>2. CASE BeginCreates(accepted)
    <2>1. /\ output' = TRUE /\ playing' = FALSE /\ rx_completed' = FALSE /\ rx_active' = TRUE
          /\ rx_session' = Request.session /\ rx_offset' = 0
          /\ staging' = [s \in DOMAIN staging \cup {Request.session} |->
                            IF s = Request.session THEN <<>> ELSE staging[s]]
      BY <1>2 DEF BeginCreates, BeginResets
    <2>2. rx_session' \in DOMAIN staging' /\ staging'[rx_session'] = <<>>
      BY <2>1
    <2> QED BY <2>1, <2>2, EmptySeq, EmptyIsFile DEF StagingIInv, StagingInStep
  <1>3. ASSUME NEW code \in 2..4, BeginRejected(code, accepted) PROVE StagingIInv'
    BY <1>3, StagingClosed DEF BeginRejected, BeginResets, Reject
  <1> QED BY <1>1, <1>2, <1>3

LEMMA JoinOfClip ==
    ASSUME NEW file \in FileBytes, NEW more \in FileBytes, NEW whole,
           \A i \in 1..Len(file) : file[i] \in {whole[i], Stray},
           \A i \in 1..Len(more) : more[i] \in {whole[Len(file) + i], Stray}
    PROVE  /\ file \o more \in FileBytes /\ Len(file \o more) = Len(file) + Len(more)
           /\ \A i \in 1..(Len(file) + Len(more)) : (file \o more)[i] \in {whole[i], Stray}
  <1>1. /\ Len(file) \in Nat /\ Len(more) \in Nat /\ file \o more \in FileBytes
        /\ Len(file \o more) = Len(file) + Len(more)
        /\ \A i \in 1..(Len(file) + Len(more)) :
              (file \o more)[i] = IF i <= Len(file) THEN file[i] ELSE more[i - Len(file)]
    BY JoinIsFile, FileLength, ConcatProperties DEF FileBytes
  <1>2. ASSUME NEW i \in 1..(Len(file) + Len(more)) PROVE (file \o more)[i] \in {whole[i], Stray}
    <2>1. CASE i <= Len(file)
      BY <1>1, <2>1
    <2>2. CASE i > Len(file)
      <3>1. i - Len(file) \in 1..Len(more) /\ Len(file) + (i - Len(file)) = i
        BY <1>1, <2>2
      <3>2. (file \o more)[i] = more[i - Len(file)]
        BY <1>1, <2>2
      <3> QED BY <3>1, <3>2
    <2> QED BY <1>1, <2>1, <2>2
  <1> QED BY <1>1, <1>2

\* The bytes written are the offered clip's at that place, or worn out.
LEMMA DataStaging ==
    ASSUME IInv, StagingIInv, NEW accepted, NEW worn, DataAccepted(accepted, worn)
    PROVE  StagingIInv'
  <1> DEFINE kept == IF worn THEN [i \in DOMAIN Request.payload |-> Stray] ELSE Request.payload
  <1>1. /\ Requests("data") /\ Current /\ InPlace(Request)
        /\ staging' = IF reuse_existing THEN staging
                      ELSE [staging EXCEPT ![rx_session] = staging[rx_session] \o kept]
        /\ rx_offset' = rx_offset + Len(Request.payload)
        /\ UNCHANGED <<received, output, rx_active, rx_completed, reuse_existing, rx_session,
                       rx_crc, playing>>
    BY DEF DataAccepted
  <1>2. CASE reuse_existing
    BY <1>1, <1>2 DEF StagingIInv, StagingInStep
  <1>3. CASE ~reuse_existing
    <2> DEFINE before == staging[rx_session]
    <2>1. Request \in Requested /\ Request \in Packets /\ Request.kind = "data"
      BY <1>1, RequestType DEF Requests
    <2>2. /\ Request.session = rx_session /\ rx_crc = offered[rx_session] /\ rx_active
          /\ Request.offset = rx_offset /\ rx_offset \in Nat
      BY <1>1, ReceiverFacts DEF Current, InPlace, ReceiverInStep, ReceiverTypes
    <2>3. /\ Request.payload \in FileBytes /\ Len(Request.payload) \in Nat
          /\ DOMAIN Request.payload = 1..Len(Request.payload)
          /\ \A i \in 1..Len(Request.payload) : Request.payload[i] = rx_crc[rx_offset + i]
      BY <2>1, <2>2, PacketFields, LenProperties DEF Requested, FileBytes
    <2>4. /\ kept \in FileBytes /\ Len(kept) = Len(Request.payload)
          /\ \A i \in 1..Len(kept) : kept[i] \in {rx_crc[rx_offset + i], Stray}
      BY <2>3, StraysAreFile
    <2> HIDE DEF kept
    <2>5. /\ before \in FileBytes /\ Len(before) = rx_offset /\ rx_session \in DOMAIN staging
          /\ \A i \in 1..rx_offset : before[i] \in {rx_crc[i], Stray}
          /\ output /\ ~playing /\ ~rx_completed
      BY <1>3, <2>2 DEF StagingIInv, StagingInStep
    <2> HIDE DEF before
    <2>6. /\ before \o kept \in FileBytes /\ Len(before \o kept) = rx_offset'
          /\ \A i \in 1..rx_offset' : (before \o kept)[i] \in {rx_crc[i], Stray}
      <3>1. /\ \A i \in 1..Len(before) : before[i] \in {rx_crc[i], Stray}
            /\ \A i \in 1..Len(kept) : kept[i] \in {rx_crc[Len(before) + i], Stray}
        BY <2>4, <2>5
      <3>2. before \in FileBytes /\ kept \in FileBytes
        BY <2>4, <2>5
      <3>3. /\ before \o kept \in FileBytes
            /\ Len(before \o kept) = Len(before) + Len(kept)
            /\ \A i \in 1..(Len(before) + Len(kept)) :
                  (before \o kept)[i] \in {rx_crc[i], Stray}
        BY <3>1, <3>2, JoinOfClip
      <3>4. rx_offset' = Len(before) + Len(kept)
        BY <1>1, <2>4, <2>5
      <3> QED BY <3>3, <3>4
    <2>8. rx_session' \in DOMAIN staging' /\ staging'[rx_session'] = before \o kept
      BY <1>1, <1>3, <2>5 DEF before
    <2> QED BY <1>1, <1>3, <2>5, <2>6, <2>8 DEF StagingIInv, StagingInStep
  <1> QED BY <1>2, <1>3

LEMMA StagingKeeps == IInv /\ StagingIInv /\ [Next]_vars => StagingIInv'
  <1> SUFFICES ASSUME IInv, StagingIInv, [Next]_vars PROVE StagingIInv'
    OBVIOUS
  <1>1. CASE UNCHANGED vars
    BY <1>1, StagingSame DEF vars, cardVars, rxVars
  <1>2. CASE Link
    BY <1>2, StagingSame DEF Link, OnSend, OnReceive, cardVars, rxVars
  <1>3. CASE Upload
    BY <1>3, StagingSame DEF Upload, PutExisting, PutReady, PutBroken, PutVerified, PutChunk,
       OnlyUpload, cardVars, rxVars
  <1>4. CASE ProcessReply
    BY <1>4, StagingSame DEF ProcessReply, ReplyError, ReplyFinished, ReplyIgnored,
       ReplyAdvances, ReplyUnreadable, SenderOnly, cardVars, rxVars
  <1>5. CASE SenderTick
    BY <1>5, StagingSame DEF SenderTick, TickGivesUp, TickSend, SenderOnly, cardVars, rxVars
  <1>6. CASE \E file \in source : StartSend(file)
    BY <1>6, StagingSame DEF StartSend, cardVars, rxVars
  <1>7. ASSUME NEW accepted \in Accepts,
               \/ Again(accepted) \/ BeginReuses(accepted) \/ BeginCreates(accepted)
               \/ \E code \in 2..4 : BeginRejected(code, accepted)
               \/ \E worn \in BOOLEAN : DataAccepted(accepted, worn)
               \/ DataRejected(accepted)
               \/ FinishAccepted(accepted) \/ \E code \in 6..8 : FinishRejected(code, accepted)
               \/ RequestIgnored
        PROVE  StagingIInv'
    <2>1. CASE Again(accepted)
      BY <2>1, StagingSame DEF Again, cardVars
    <2>2. CASE RequestIgnored
      BY <2>2, StagingSame DEF RequestIgnored, cardVars, rxVars
    <2>3. CASE DataRejected(accepted)
      BY <2>3, StagingClosed DEF DataRejected, Reject, StagingIInv, StagingInStep
    <2>4. ASSUME NEW code \in 6..8, FinishRejected(code, accepted) PROVE StagingIInv'
      BY <2>4, StagingClosed DEF FinishRejected, Reject, StagingIInv, StagingInStep
    <2>5. CASE FinishAccepted(accepted)
      <3>1. output' = FALSE /\ rx_active' = FALSE /\ received' # Missing
        BY <2>5, FinishStores DEF FinishAccepted, Missing
      <3> QED BY <3>1, StagingClosed
    <2> QED BY <1>7, <2>1, <2>2, <2>3, <2>4, <2>5, BeginStaging, DataStaging
  <1>8. CASE ProcessRequest
    BY <1>7, <1>8 DEF ProcessRequest
  <1>9. CASE ReceiverLoop \/ Silence
    <2>1. CASE TickTimesOut
      BY <2>1, StagingClosed DEF TickTimesOut, LoopOnly, StagingIInv, StagingInStep
    <2>2. CASE PlayReceived
      BY <2>2 DEF PlayReceived, LoopOnly, StagingIInv, StagingInStep
    <2>3. CASE PlayCommand
      BY <2>3 DEF PlayCommand, LoopOnly, StagingIInv, StagingInStep
    <2>4. CASE PlayerFails
      BY <2>4 DEF PlayerFails, LoopOnly, StagingIInv, StagingInStep
    <2>5. CASE Silence
      BY <2>5, StagingSame DEF Silence, LoopOnly
    <2> QED BY <1>9, <2>1, <2>2, <2>3, <2>4, <2>5 DEF ReceiverLoop
  <1>10. CASE Reset
    <2>1. CASE SenderReset
      BY <2>1, StagingSame DEF SenderReset, cardVars, rxVars
    <2>2. CASE ReceiverReset
      BY <2>2, StagingClosed DEF ReceiverReset
    <2> QED BY <1>10, <2>1, <2>2 DEF Reset
  <1> QED BY <1>1, <1>2, <1>3, <1>4, <1>5, <1>6, <1>8, <1>9, <1>10 DEF Next

\* The receiver's staging file is open exactly during a transfer it is needed
\* for and holds, byte for byte, what was acknowledged of the offered clip.
THEOREM StagingCorrect == Spec => []StagingInStep
  <1>1. Init => StagingIInv
    BY DEF Init, StagingIInv, StagingInStep
  <1>2. StagingIInv => StagingInStep
    BY DEF StagingIInv
  <1> QED BY <1>1, <1>2, StagingKeeps, Invariance, PTL DEF Spec
=============================================================================
