----------------------------- MODULE AvTransfer -----------------------------
(***************************************************************************)
(* The wireless_av system (button_lcd_test/wireless_av): a host copies a    *)
(* clip to the sender's SD card over USB (tools/send_clip.py,               *)
(* src/storage.cpp), the sender transfers it by stop-and-wait over ESP-NOW  *)
(* (src/radio_transfer.cpp), the receiver saves, checks and renames it on   *)
(* its own card and plays it (src/main.cpp; src/player.cpp is here only     *)
(* "playing or not").  The boards' cards survive their resets.              *)
(*                                                                          *)
(* Each board has one main loop and two Wi-Fi callbacks.  One action is one *)
(* packet of tick's drain loop, the rest of tick, one console command or    *)
(* button press, one callback, or one chunk of the upload.                  *)
(***************************************************************************)
EXTENDS Integers, Sequences

CONSTANTS
    Clips,              \* the clips there are
    Uploads,            \* those the host may upload
    Size,               \* [Clips -> byte count]
    Stocked,            \* [Boards -> clips its card may come with]
    PayloadSize,        \* payload_size: clip bytes a data packet carries
    UsbChunk,           \* bytes of one acknowledged upload chunk
    MinSize,            \* the shortest clip the firmware accepts
    MaxAttempts,        \* maximum_attempts
    QueueCount,         \* received packets a board can hold
    AirDepth,           \* packets still under way when on_send reports
    Copies,             \* deliveries of one packet: 0 lost, 2 repeated
    Faults,             \* what may go wrong: see the ASSUME
    MaxSessions,        \* bound: transfers started
    MaxResets           \* bound: board resets

Boards == {"sender", "receiver"}
Peer(b) == IF b = "sender" THEN "receiver" ELSE "sender"

ASSUME AvConstants ==
    /\ Size \in [Clips -> Nat \ {0}]
    /\ Uploads \subseteq Clips /\ Stocked \in [Boards -> SUBSET Clips]
    /\ PayloadSize \in Nat \ {0} /\ UsbChunk \in Nat \ {0} /\ MinSize \in Nat
    /\ MaxAttempts \in Nat \ {0} /\ QueueCount \in Nat \ {0} /\ AirDepth \in Nat
    /\ Copies \subseteq 0..2
    /\ Faults \subseteq {"radio", "create", "write", "corrupt", "read", "rename", "usb"}
    /\ MaxSessions \in Nat /\ MaxResets \in Nat

Smaller(a, b) == IF a < b THEN a ELSE b
Larger(a, b) == IF a > b THEN a ELSE b

\* A byte is named by its clip and place; the CRC32 and the SHA-256 of a file
\* are ideal: they are its contents.  A stray byte belongs to no clip.
Stray == <<"stray", 0>>
Whole(clip) == [i \in 1..Size[clip] |-> <<clip, i - 1>>]
Wholes == {Whole(clip) : clip \in Clips}
Slice(file, offset, length) == SubSeq(file, offset + 1, offset + length)
Prefixes(file) == {SubSeq(file, 1, n) : n \in 0..Len(file)}

\* A file that may be missing is a set of at most one contents.
Missing == {}

Packet(kind, s, offset, payload) ==
    [kind |-> kind, ack |-> FALSE, session |-> s, offset |-> offset, payload |-> payload]
NoPacket == Packet("none", 0, 0, <<>>)

VARIABLES
    \* the link, per board: the sending flag, packets in the air, the queue
    sending, air, queue,
    \* the upload: what the host uploads while receive_usb runs, the file being
    \* written, and the clips the host was told are on the card
    usb, part, saved,
    \* the sender's card and transfer
    source, tx_active, pending, tx_offset, attempts,
    \* the receiver's card and transfer
    received, staging, output,
    rx_active, rx_completed, reuse_existing, rx_session, rx_crc, rx_offset,
    last_received, rx_stale, playing,
    \* history: per session the contents offered, the bytes accepted; the
    \* sessions logged RECEIVED VERIFIED and SENT VERIFIED; the resets
    offered, stored, verified, sent, resets

linkVars == <<sending, air, queue>>
usbVars == <<usb, part, saved, source>>
txVars == <<tx_active, pending, tx_offset, attempts>>
cardVars == <<received, staging, output>>
rxVars == <<rx_active, rx_completed, reuse_existing, rx_session, rx_crc, rx_offset,
            last_received, rx_stale, playing>>
historyVars == <<offered, stored, verified, sent, resets>>
vars == <<linkVars, usbVars, txVars, cardVars, rxVars, historyVars>>

\* Both cards may come with a clip from earlier days.
Init ==
    /\ sending = [b \in Boards |-> FALSE]
    /\ air = [b \in Boards |-> <<>>] /\ queue = [b \in Boards |-> <<>>]
    /\ usb = Missing /\ part = Missing /\ saved = {}
    /\ source \in {Missing} \cup {{Whole(clip)} : clip \in Stocked["sender"]}
    /\ tx_active = FALSE /\ pending = NoPacket /\ tx_offset = 0 /\ attempts = 0
    /\ received \in {Missing} \cup {{Whole(clip)} : clip \in Stocked["receiver"]}
    /\ staging = [s \in {} |-> <<>>] /\ output = FALSE
    /\ rx_active = FALSE /\ rx_completed = FALSE /\ reuse_existing = FALSE
    /\ rx_session = 0 /\ rx_crc = <<>> /\ rx_offset = 0
    /\ last_received = NoPacket /\ rx_stale = FALSE /\ playing = FALSE
    /\ offered = <<>> /\ stored = [s \in 1..MaxSessions |-> 0]
    /\ verified = {} /\ sent = {} /\ resets = 0

-----------------------------------------------------------------------------
(* The link.                                                                *)

\* send(): nothing goes out while a packet awaits its callback, or when
\* esp_now_send refuses.
Send(b, packet, accepted) ==
    IF accepted /\ ~sending[b]
    THEN /\ sending' = [sending EXCEPT ![b] = TRUE]
         /\ air' = [air EXCEPT ![b] = Append(@, packet)]
    ELSE UNCHANGED <<sending, air>>

Accepts == {TRUE} \cup (IF "radio" \in Faults THEN {FALSE} ELSE {})

OnSend(b) ==
    /\ sending[b] /\ Len(air[b]) <= AirDepth
    /\ sending' = [sending EXCEPT ![b] = FALSE]
    /\ UNCHANGED <<air, queue, usbVars, txVars, cardVars, rxVars, historyVars>>

\* xQueueSend without waiting: a full queue drops the packet.
Enqueued(q, packet) == IF Len(q) < QueueCount THEN Append(q, packet) ELSE q

OnReceive(b, copies) ==
    /\ air[Peer(b)] # <<>>
    /\ LET packet == Head(air[Peer(b)])
           once == Enqueued(queue[b], packet)
       IN queue' = [queue EXCEPT ![b] = CASE copies = 0 -> queue[b]
                                          [] copies = 1 -> once
                                          [] copies = 2 -> Enqueued(once, packet)]
    /\ air' = [air EXCEPT ![Peer(b)] = Tail(@)]
    /\ UNCHANGED <<sending, usbVars, txVars, cardVars, rxVars, historyVars>>

Take(b) ==
    /\ queue[b] # <<>>
    /\ queue' = [queue EXCEPT ![b] = Tail(@)]

-----------------------------------------------------------------------------
(* The upload.  While receive_usb runs, the sender's main loop does nothing *)
(* else.                                                                    *)

OnlyUpload == UNCHANGED <<linkVars, txVars, cardVars, rxVars, historyVars>>
Idle == usb = Missing /\ ~tx_active

\* An existing clip is compared, never written: EXISTS verified, or an error.
PutExisting(clip) ==
    /\ Idle /\ Size[clip] >= MinSize /\ source # Missing
    /\ saved' = IF source = {Whole(clip)} THEN saved \cup {clip} ELSE saved
    /\ UNCHANGED <<usb, part, source>> /\ OnlyUpload

\* Mutant: an existing clip does not stop the upload.
PutReadyAnyway(clip) ==
    /\ Idle /\ Size[clip] >= MinSize
    /\ usb' = {clip} /\ part' = {<<>>}
    /\ UNCHANGED <<saved, source>> /\ OnlyUpload

\* READY: the staging file is created, or an earlier one emptied.
PutReady(clip) ==
    /\ Idle /\ Size[clip] >= MinSize /\ source = Missing
    /\ usb' = {clip} /\ part' = {<<>>}
    /\ UNCHANGED <<saved, source>> /\ OnlyUpload

\* One chunk and its ACK.  If the host was restarted, what arrives is the text
\* of its new command.
PutChunk(clip, written, intact) ==
    /\ usb = {clip} /\ part = {written} /\ Len(written) < Size[clip]
    /\ intact \/ "usb" \in Faults
    /\ LET count == Smaller(UsbChunk, Size[clip] - Len(written))
           chunk == IF intact THEN Slice(Whole(clip), Len(written), count)
                    ELSE [i \in 1..count |-> Stray]
       IN part' = {written \o chunk}
    /\ UNCHANGED <<usb, saved, source>> /\ OnlyUpload

\* A chunk comes short within the timeout, or the card refuses it.
PutBroken(clip) ==
    /\ usb = {clip} /\ "usb" \in Faults
    /\ usb' = Missing
    /\ UNCHANGED <<part, saved, source>> /\ OnlyUpload

\* verify_hash of the staging file, rename, SAVED; or ERROR, the file left.
PutVerified(clip, written) ==
    /\ usb = {clip} /\ part = {written} /\ Len(written) = Size[clip]
    /\ \/ /\ written = Whole(clip)
          /\ source' = {written} /\ part' = Missing /\ saved' = saved \cup {clip}
       \/ /\ written # Whole(clip) \/ Faults \cap {"read", "rename"} # {}
          /\ UNCHANGED <<source, part, saved>>
    /\ usb' = Missing
    /\ OnlyUpload

-----------------------------------------------------------------------------
(* The sender's transfer.                                                   *)

\* start_send.  esp_random's session number is taken as fresh.
StartSend(file) ==
    /\ Idle /\ source = {file} /\ Len(file) >= MinSize /\ Len(offered) < MaxSessions
    /\ pending' = Packet("begin", Len(offered) + 1, Len(file), file)
    /\ tx_offset' = 0 /\ attempts' = 0 /\ tx_active' = TRUE
    /\ offered' = Append(offered, file)
    /\ UNCHANGED <<linkVars, usbVars, cardVars, rxVars, stored, verified, sent, resets>>

\* prepare_next: what follows the pending packet once the clip is acknowledged
\* up to offset.
Following(file, offset) ==
    IF offset < Len(file)
    THEN Packet("data", pending.session, offset,
                Slice(file, offset, Smaller(PayloadSize, Len(file) - offset)))
    ELSE Packet("finish", pending.session, Len(file), file)

Answer == Head(queue["sender"])
Answers == queue["sender"] # <<>> /\ usb = Missing
ForPending == tx_active /\ Answer.session = pending.session

\* Mutant: any acknowledgement of the session counts for the pending packet.
AcknowledgesAny(reply, request) == reply.ack /\ reply.session = request.session

Acknowledges(reply, request) == reply = [request EXCEPT !.ack = TRUE]
SenderOnly == UNCHANGED <<usbVars, cardVars, rxVars, stored, verified, resets>>

ReplyError ==
    /\ Answers /\ ForPending /\ Answer.kind = "error"
    /\ Take("sender")
    /\ tx_active' = FALSE
    /\ UNCHANGED <<sending, air, pending, tx_offset, attempts, offered, sent>> /\ SenderOnly

\* The finish is acknowledged: SENT VERIFIED.
ReplyFinished ==
    /\ Answers /\ ForPending /\ Acknowledges(Answer, pending) /\ pending.kind = "finish"
    /\ Take("sender")
    /\ tx_active' = FALSE /\ sent' = sent \cup {pending.session}
    /\ UNCHANGED <<sending, air, pending, tx_offset, attempts, offered>> /\ SenderOnly

AdvancedOffset == tx_offset + IF pending.kind = "data" THEN Len(pending.payload) ELSE 0

\* Begin or data acknowledged: prepare the next packet.
ReplyAdvances(file) ==
    /\ Answers /\ ForPending /\ Acknowledges(Answer, pending) /\ pending.kind # "finish"
    /\ source = {file}
    /\ Take("sender")
    /\ tx_offset' = AdvancedOffset /\ pending' = Following(file, AdvancedOffset)
    /\ attempts' = 0
    /\ UNCHANGED <<sending, air, tx_active, offered, sent>> /\ SenderOnly

\* The same when the clip cannot be read on.
ReplyUnreadable(file) ==
    /\ Answers /\ ForPending /\ Acknowledges(Answer, pending) /\ pending.kind # "finish"
    /\ source = {file} /\ AdvancedOffset < Len(file) /\ "read" \in Faults
    /\ Take("sender")
    /\ tx_active' = FALSE
    /\ UNCHANGED <<sending, air, pending, tx_offset, attempts, offered, sent>> /\ SenderOnly

ReplyIgnored ==
    /\ Answers
    /\ ~(ForPending /\ (Answer.kind = "error" \/ Acknowledges(Answer, pending)))
    /\ Take("sender")
    /\ UNCHANGED <<sending, air, txVars, offered, sent>> /\ SenderOnly

\* tick: send the pending packet at once and again each time its 150 ms have
\* run out.  A refused packet counts as an attempt, one that only waits for its
\* predecessor's callback does not (if the callback comes just then, it counts
\* as refused).
TickSend(accepted) ==
    /\ tx_active /\ attempts < MaxAttempts
    /\ Send("sender", pending, accepted)
    /\ attempts' = IF sending["sender"] THEN attempts ELSE attempts + 1
    /\ UNCHANGED <<queue, tx_active, pending, tx_offset, offered, sent>> /\ SenderOnly

TickGivesUp ==
    /\ tx_active /\ attempts >= MaxAttempts
    /\ tx_active' = FALSE
    /\ UNCHANGED <<linkVars, pending, tx_offset, attempts, offered, sent>> /\ SenderOnly

-----------------------------------------------------------------------------
(* The receiver: process_request, one action per outcome.                   *)

Request == Head(queue["receiver"])
Requests(kind) ==
    /\ queue["receiver"] # <<>> /\ Request.kind = kind /\ Request # last_received
Current == rx_active /\ Request.session = rx_session
ReceiverOnly == UNCHANGED <<usbVars, txVars, offered, sent, resets>>

\* What every accepted packet ends with.
Acknowledge(accepted) ==
    /\ Take("receiver")
    /\ last_received' = Request /\ rx_stale' = FALSE
    /\ Send("receiver", [Request EXCEPT !.ack = TRUE], accepted)

\* reject: close the file and answer with an error, once or never.
Reject(code, accepted) ==
    /\ Take("receiver")
    /\ output' = FALSE /\ rx_active' = FALSE
    /\ Send("receiver", Packet("error", Request.session, code, <<>>), accepted)
    /\ UNCHANGED <<last_received, rx_stale>>

\* The last packet again, even one of a transfer that has ended.
Again(accepted) ==
    /\ queue["receiver"] # <<>> /\ Request = last_received
    /\ Acknowledge(accepted)
    /\ UNCHANGED <<cardVars, rx_active, rx_completed, reuse_existing, rx_session, rx_crc,
                   rx_offset, playing, stored, verified>>
    /\ ReceiverOnly

\* Mutant: the completed transfer is not forgotten.
BeginResetsPartly ==
    /\ playing' = FALSE /\ rx_completed' = rx_completed
    /\ rx_session' = Request.session /\ rx_crc' = Request.payload /\ rx_offset' = 0
    /\ reuse_existing' = (received # Missing)

\* What a begin packet does before the card is looked at.
BeginResets ==
    /\ playing' = FALSE /\ rx_completed' = FALSE
    /\ rx_session' = Request.session /\ rx_crc' = Request.payload /\ rx_offset' = 0
    /\ reuse_existing' = (received # Missing)

\* The clip is already there: its bytes will be acknowledged, not written.
BeginReuses(accepted) ==
    /\ Requests("begin") /\ received = {Request.payload}
    /\ BeginResets /\ rx_active' = TRUE
    /\ output' = FALSE
    /\ Acknowledge(accepted)
    /\ UNCHANGED <<received, staging, stored, verified>>
    /\ ReceiverOnly

BeginCreates(accepted) ==
    /\ Requests("begin") /\ received = Missing /\ Request.session \notin DOMAIN staging
    /\ BeginResets /\ rx_active' = TRUE
    /\ staging' = [s \in DOMAIN staging \cup {Request.session} |->
                    IF s = Request.session THEN <<>> ELSE staging[s]]
    /\ output' = TRUE
    /\ Acknowledge(accepted)
    /\ UNCHANGED <<received, stored, verified>>
    /\ ReceiverOnly

\* A different (or unreadable) clip is there, the staging name is in use, or
\* the file cannot be created.
BeginRejected(code, accepted) ==
    /\ Requests("begin")
    /\ CASE code = 2 -> received # Missing /\ (received # {Request.payload} \/ "read" \in Faults)
         [] code = 3 -> received = Missing /\ Request.session \in DOMAIN staging
         [] code = 4 -> received = Missing /\ Request.session \notin DOMAIN staging
                        /\ "create" \in Faults
    /\ BeginResets
    /\ Reject(code, accepted)
    /\ UNCHANGED <<received, staging, stored, verified>>
    /\ ReceiverOnly

InPlace(packet) ==
    /\ packet.offset = rx_offset /\ packet.payload # <<>>
    /\ Len(packet.payload) <= Len(rx_crc) - rx_offset

\* The bytes the card keeps: those written, or others if it is worn out.
DataAccepted(accepted, worn) ==
    /\ Requests("data") /\ Current /\ InPlace(Request)
    /\ worn => "corrupt" \in Faults /\ ~reuse_existing
    /\ LET kept == IF worn THEN [i \in DOMAIN Request.payload |-> Stray]
                   ELSE Request.payload
       IN staging' = IF reuse_existing THEN staging
                     ELSE [staging EXCEPT ![rx_session] = @ \o kept]
    /\ rx_offset' = rx_offset + Len(Request.payload)
    /\ stored' = [stored EXCEPT ![rx_session] = Larger(@, rx_offset + Len(Request.payload))]
    /\ Acknowledge(accepted)
    /\ UNCHANGED <<received, output, rx_active, rx_completed, reuse_existing, rx_session,
                   rx_crc, playing, verified>>
    /\ ReceiverOnly

\* The write fails, perhaps after some of the bytes.
DataRejected(accepted) ==
    /\ Requests("data") /\ Current /\ InPlace(Request)
    /\ ~reuse_existing /\ "write" \in Faults
    /\ \E some \in Prefixes(Request.payload) \ {Request.payload} :
          staging' = [staging EXCEPT ![rx_session] = @ \o some]
    /\ Reject(5, accepted)
    /\ UNCHANGED <<received, rx_completed, reuse_existing, rx_session, rx_crc, rx_offset,
                   playing, stored, verified>>
    /\ ReceiverOnly

Complete ==
    Request.offset = Len(rx_crc) /\ rx_offset = Len(rx_crc) /\ Request.payload = rx_crc

\* Mutant: the read-back check is left out.
CheckedUnread == {rx_crc}

\* The file the finish packet checks.
Checked == IF reuse_existing THEN received ELSE {staging[rx_session]}

\* Read back, renamed, RECEIVED VERIFIED.
FinishAccepted(accepted) ==
    /\ Requests("finish") /\ Current /\ Complete
    /\ Checked = {rx_crc}
    /\ received' = IF reuse_existing THEN received ELSE {staging[rx_session]}
    /\ staging' = IF reuse_existing THEN staging
                  ELSE [s \in DOMAIN staging \ {rx_session} |-> staging[s]]
    /\ output' = FALSE
    /\ rx_active' = FALSE /\ rx_completed' = TRUE
    /\ verified' = verified \cup {rx_session}
    /\ Acknowledge(accepted)
    /\ UNCHANGED <<reuse_existing, rx_session, rx_crc, rx_offset, playing, stored>>
    /\ ReceiverOnly

FinishRejected(code, accepted) ==
    /\ Requests("finish") /\ Current
    /\ CASE code = 6 -> ~Complete
         [] code = 7 -> Complete /\ (Checked # {rx_crc} \/ "read" \in Faults)
         [] code = 8 -> /\ Complete /\ Checked = {rx_crc} /\ ~reuse_existing
                        /\ "rename" \in Faults
    /\ Reject(code, accepted)
    /\ UNCHANGED <<received, staging, rx_completed, reuse_existing, rx_session, rx_crc,
                   rx_offset, playing, stored, verified>>
    /\ ReceiverOnly

RequestIgnored ==
    /\ \/ Requests("data") /\ ~(Current /\ InPlace(Request))
       \/ Requests("finish") /\ ~Current
    /\ Take("receiver")
    /\ UNCHANGED <<sending, air, cardVars, rxVars, stored, verified>>
    /\ ReceiverOnly

-----------------------------------------------------------------------------
(* The receiver: the rest of tick and of loop.                              *)

LoopOnly == UNCHANGED <<linkVars, usbVars, txVars, received, staging, reuse_existing,
                        rx_session, rx_crc, rx_offset, last_received, historyVars>>

\* Thirty seconds have passed since rx_updated_ms was last set.
Silence ==
    /\ rx_active /\ ~rx_stale
    /\ rx_stale' = TRUE
    /\ UNCHANGED <<output, rx_active, rx_completed, playing>> /\ LoopOnly

\* Mutant: the time-out only closes the file.
TickOnlyCloses ==
    /\ rx_active /\ rx_stale
    /\ output' = FALSE
    /\ UNCHANGED <<rx_active, rx_completed, rx_stale, playing>> /\ LoopOnly

TickTimesOut ==
    /\ rx_active /\ rx_stale
    /\ rx_active' = FALSE /\ output' = FALSE
    /\ UNCHANGED <<rx_completed, rx_stale, playing>> /\ LoopOnly

\* take_completed_receive, then player::play, which may refuse the file.
PlayReceived ==
    /\ rx_completed /\ ~sending["receiver"]
    /\ rx_completed' = FALSE
    /\ playing' \in BOOLEAN
    /\ UNCHANGED <<output, rx_active, rx_stale>> /\ LoopOnly

\* The console's play command, refused while busy.
PlayCommand ==
    /\ ~rx_active
    /\ playing' \in {FALSE, received # Missing}
    /\ UNCHANGED <<output, rx_active, rx_completed, rx_stale>> /\ LoopOnly

\* player::tick gives up on the file or the sound.
PlayerFails ==
    /\ playing /\ playing' = FALSE
    /\ UNCHANGED <<output, rx_active, rx_completed, rx_stale>> /\ LoopOnly

-----------------------------------------------------------------------------
(* Resets and power cuts.  What the radio still carries may or may not      *)
(* arrive; of a file still open, any prefix may be on the card.             *)

SenderReset ==
    /\ resets < MaxResets /\ resets' = resets + 1
    /\ sending' = [sending EXCEPT !["sender"] = FALSE]
    /\ queue' = [queue EXCEPT !["sender"] = <<>>]
    /\ \E left \in {air["sender"], <<>>} : air' = [air EXCEPT !["sender"] = left]
    /\ usb' = Missing
    /\ IF usb = Missing THEN part' = part
       ELSE \E written \in part : \E kept \in Prefixes(written) : part' = {kept}
    /\ tx_active' = FALSE /\ pending' = NoPacket /\ tx_offset' = 0 /\ attempts' = 0
    /\ UNCHANGED <<saved, source, cardVars, rxVars, offered, stored, verified, sent>>

\* setup plays a clip it finds.
ReceiverReset ==
    /\ resets < MaxResets /\ resets' = resets + 1
    /\ sending' = [sending EXCEPT !["receiver"] = FALSE]
    /\ queue' = [queue EXCEPT !["receiver"] = <<>>]
    /\ \E left \in {air["receiver"], <<>>} : air' = [air EXCEPT !["receiver"] = left]
    /\ IF ~output THEN staging' = staging
       ELSE \E kept \in Prefixes(staging[rx_session]) :
               staging' = [staging EXCEPT ![rx_session] = kept]
    /\ output' = FALSE
    /\ rx_active' = FALSE /\ rx_completed' = FALSE /\ reuse_existing' = FALSE
    /\ rx_session' = 0 /\ rx_crc' = <<>> /\ rx_offset' = 0
    /\ last_received' = NoPacket /\ rx_stale' = FALSE
    /\ playing' \in {FALSE, received # Missing}
    /\ UNCHANGED <<usbVars, txVars, received, offered, stored, verified, sent>>

-----------------------------------------------------------------------------

Link == \E b \in Boards : OnSend(b) \/ \E copies \in Copies : OnReceive(b, copies)

Upload ==
    \E clip \in Uploads :
        \/ PutExisting(clip) \/ PutReady(clip) \/ PutBroken(clip)
        \/ \E written \in part :
              PutVerified(clip, written) \/ \E intact \in BOOLEAN : PutChunk(clip, written, intact)

ProcessReply ==
    \/ ReplyError \/ ReplyFinished \/ ReplyIgnored
    \/ \E file \in source : ReplyAdvances(file) \/ ReplyUnreadable(file)

SenderTick == TickGivesUp \/ \E accepted \in Accepts : TickSend(accepted)

ProcessRequest ==
    \E accepted \in Accepts :
        \/ Again(accepted) \/ BeginReuses(accepted) \/ BeginCreates(accepted)
        \/ \E code \in 2..4 : BeginRejected(code, accepted)
        \/ \E worn \in BOOLEAN : DataAccepted(accepted, worn)
        \/ DataRejected(accepted)
        \/ FinishAccepted(accepted) \/ \E code \in 6..8 : FinishRejected(code, accepted)
        \/ RequestIgnored

ReceiverLoop == TickTimesOut \/ PlayReceived \/ PlayCommand \/ PlayerFails

Reset == SenderReset \/ ReceiverReset

Next ==
    \/ Link \/ Upload \/ ProcessReply \/ SenderTick \/ ProcessRequest \/ ReceiverLoop
    \/ Silence \/ Reset \/ \E file \in source : StartSend(file)

\* Both main loops run for ever, the driver is done with every packet some day,
\* and thirty silent seconds do pass.  Nothing is assumed of the link.
Spec ==
    /\ Init /\ [][Next]_vars
    /\ WF_vars(SenderTick) /\ WF_vars(TickTimesOut) /\ WF_vars(Silence)
    /\ \A b \in Boards : /\ WF_vars(OnSend(b))
                         /\ WF_vars(\E copies \in Copies : OnReceive(b, copies))

-----------------------------------------------------------------------------
(* Properties.                                                              *)

Sessions == 1..MaxSessions
FileBytes == Seq((Clips \X Nat) \cup {Stray})
Packets == [kind : {"none", "begin", "data", "finish", "error"}, ack : BOOLEAN,
            session : 0..MaxSessions, offset : Nat, payload : FileBytes]

\* The type invariant: cards, transfers, link and history.
TypeOK ==
    /\ sending \in [Boards -> BOOLEAN]
    /\ air \in [Boards -> Seq(Packets)] /\ queue \in [Boards -> Seq(Packets)]
    /\ usb \subseteq Clips /\ saved \subseteq Clips
    /\ \A file \in {part, source, received} :
          file \subseteq FileBytes /\ \A a, b \in file : a = b
    /\ pending \in Packets /\ last_received \in Packets
    /\ tx_offset \in Nat /\ attempts \in 0..MaxAttempts
    /\ DOMAIN staging \subseteq Sessions
    /\ rx_session \in 0..MaxSessions /\ rx_crc \in FileBytes /\ rx_offset \in Nat
    /\ {tx_active, output, rx_active, rx_completed, reuse_existing, rx_stale, playing}
          \subseteq BOOLEAN
    /\ verified \subseteq Sessions /\ sent \subseteq Sessions /\ resets \in 0..MaxResets

\* The names clip.lcdav and received.lcdav only ever name whole, verified clips,
\* through every power cut, short or foreign chunk, worn-out card and lost,
\* repeated or leftover packet; and what either side was told is true for good:
\* the host's "verified on sender SD" and the sender's SENT VERIFIED, which
\* README.md:175 says confirms the saved file (receive_usb, process_request).
FilesAreVerified ==
    /\ source \subseteq Wholes /\ received \subseteq Wholes
    /\ \A clip \in saved : source = {Whole(clip)}
    /\ \A s \in sent \cup verified : received = {offered[s]}

\* While a clip is received its staging file grows by exactly the bytes
\* acknowledged: a duplicate is never written twice and never skips ahead
\* (README.md:212); the file is open exactly then, and nothing plays from the
\* card meanwhile (process_request, reject, take_completed_receive).
StagingInStep ==
    /\ rx_active /\ ~reuse_existing =>
          /\ output /\ Len(staging[rx_session]) = rx_offset
          /\ \A i \in 1..rx_offset : staging[rx_session][i] \in {rx_crc[i], Stray}
    /\ output => rx_active
    /\ rx_active => ~playing /\ ~rx_completed
    /\ playing => received # Missing

\* A clip that is on a card stays there: neither an upload nor a transfer of
\* another clip, nor a crash in one, replaces it.
NeverReplaced ==
    [][(source # Missing => source' = source) /\ (received # Missing => received' = received)]_vars

\* The transfer implements the same promise as wireless_stream's.
Promise == INSTANCE VerifiedTransfer WITH
    Clips <- Wholes,
    Size <- [file \in Wholes |-> Len(file)],
    Good <- Wholes
KeepsPromise == Promise!Init /\ [][Promise!Next]_Promise!promiseVars

\* Whatever the link, the card or the other board do, each transfer ends on both
\* sides: the sender counts refused packets too, and nothing a dead transfer
\* still sends keeps the receiver's thirty seconds from passing.
Settles == []<>~tx_active /\ []<>~rx_active
=============================================================================
