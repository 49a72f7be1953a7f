------------------------------ MODULE FileTest ------------------------------
(***************************************************************************)
(* The one-way file test (espnow_sd_test/src/main.cpp): the sender makes a  *)
(* file's bytes from its session number and sends them by stop-and-wait     *)
(* over ESP-NOW, without send callbacks; the receiver writes them to a new  *)
(* file through SdCard, closes it, reads it back and only then acknowledges *)
(* the finish.                                                              *)
(*                                                                          *)
(* The receiver's loop is cut between any two calls of SdCard (rx_pc); the  *)
(* sender's between two packets and between its two halves.                 *)
(***************************************************************************)
EXTENDS SdCard

CONSTANTS
    FileBytes,      \* file_bytes
    PayloadBytes,   \* payload_bytes
    MaxAttempts,    \* max_attempts
    QueueCount,     \* received packets a board can hold
    AirDepth,       \* packets the driver holds before it refuses more
    Copies,         \* deliveries of one packet: 0 lost, 2 repeated
    MaxSessions     \* bound: starts of the sender

ASSUME FileTestConstants ==
    /\ FileBytes \in Nat \ {0} /\ PayloadBytes \in Nat \ {0} /\ MaxAttempts \in Nat \ {0}
    /\ QueueCount \in Nat \ {0} /\ AirDepth \in Nat \ {0} /\ Copies \subseteq 0..2
    /\ MaxSessions \in Nat \ {0}
    /\ {"received_file", "input"} \subseteq Slots

Boards == {"sender", "receiver"}
Peer(b) == IF b = "sender" THEN "receiver" ELSE "sender"

\* pattern_byte: a byte is named by its session and place.  A CRC is ideal: it
\* is what it was computed over.
Pattern(s) == [i \in 1..FileBytes |-> <<"byte", s, i - 1>>]
Path(s) == <<"rx", s>>

Packet(kind, s, offset, payload, crc) ==
    [kind |-> kind, ack |-> FALSE, session |-> s, offset |-> offset, payload |-> payload,
     checksum |-> crc]
NoPacket == Packet("none", 0, 0, <<>>, <<>>)

VARIABLES
    air, queue,                                     \* the link, per board
    pending, tx_session, tx_offset, attempts, tx_done, tx_failed,
    rx_pc, request, rx_session, rx_crc, rx_done, last_received,
    passed                                          \* history: sessions logged TX PASS

linkVars == <<air, queue>>
txVars == <<pending, tx_session, tx_offset, attempts, tx_done, tx_failed, passed>>
rxVars == <<rx_pc, request, rx_session, rx_crc, rx_done, last_received>>
fileTestVars == <<linkVars, txVars, rxVars>>

BeginPacket(s) == Packet("begin", s, FileBytes, <<>>, <<>>)

SenderStarts(s) ==
    /\ tx_session = s /\ pending = BeginPacket(s)
    /\ tx_offset = 0 /\ attempts = 0 /\ tx_done = FALSE /\ tx_failed = FALSE

ReceiverStarts ==
    /\ rx_pc = "mount" /\ request = NoPacket
    /\ rx_session = 0 /\ rx_crc = <<>> /\ rx_done = FALSE /\ last_received = NoPacket

FileTestInit ==
    /\ air = [b \in Boards |-> <<>>] /\ queue = [b \in Boards |-> <<>>]
    /\ SenderStarts(1) /\ passed = {}
    /\ ReceiverStarts

-----------------------------------------------------------------------------
(* The link.                                                                *)

\* esp_now_send takes the packet or refuses it; a full driver always refuses.
SendPacket(b, packet, accepted) ==
    air' = IF accepted /\ Len(air[b]) < AirDepth
           THEN [air EXCEPT ![b] = Append(@, packet)] ELSE air

Enqueued(q, packet) == IF Len(q) < QueueCount THEN Append(q, packet) ELSE q

OnReceive(b, copies) ==
    /\ air[Peer(b)] # <<>>
    /\ LET packet == Head(air[Peer(b)])
           once == Enqueued(queue[b], packet)
       IN queue' = [queue EXCEPT ![b] = CASE copies = 0 -> queue[b]
                                          [] copies = 1 -> once
                                          [] copies = 2 -> Enqueued(once, packet)]
    /\ air' = [air EXCEPT ![Peer(b)] = Tail(@)]
    /\ UNCHANGED <<txVars, rxVars, cardVars>>

-----------------------------------------------------------------------------
(* The sender.                                                              *)

Sending == ~tx_done /\ ~tx_failed
SenderOnly == UNCHANGED <<rxVars, cardVars>>
TakeReply == queue["sender"] # <<>> /\ queue' = [queue EXCEPT !["sender"] = Tail(@)]

Answered == Sending /\ Head(queue["sender"]) = [pending EXCEPT !.ack = TRUE]

\* advance_sender at the finish: TX PASS.
TxPass ==
    /\ TakeReply /\ Answered /\ pending.kind = "finish"
    /\ tx_done' = TRUE /\ passed' = passed \cup {tx_session}
    /\ UNCHANGED <<air, pending, tx_session, tx_offset, attempts, tx_failed>> /\ SenderOnly

\* advance_sender: the next data packet, or the finish.  tx_offset counts what
\* was made, not what was acknowledged.
TxAdvance ==
    /\ TakeReply /\ Answered /\ pending.kind # "finish"
    /\ IF tx_offset = FileBytes
       THEN /\ pending' = Packet("finish", tx_session, tx_offset, <<>>, Pattern(tx_session))
            /\ tx_offset' = tx_offset
       ELSE LET bytes == Slice(Pattern(tx_session), tx_offset, PayloadBytes)
            IN /\ pending' = Packet("data", tx_session, tx_offset, bytes, bytes)
               /\ tx_offset' = tx_offset + Len(bytes)
    /\ attempts' = 0
    /\ UNCHANGED <<air, tx_session, tx_done, tx_failed, passed>> /\ SenderOnly

TxIgnore == TakeReply /\ ~Answered /\ UNCHANGED <<air, txVars>> /\ SenderOnly

\* At once, then each retry_ms; a refused packet counts.
TxSend(accepted) ==
    /\ Sending /\ attempts < MaxAttempts
    /\ attempts' = attempts + 1
    /\ SendPacket("sender", pending, accepted)
    /\ UNCHANGED <<queue, pending, tx_session, tx_offset, tx_done, tx_failed, passed>>
    /\ SenderOnly

\* Mutant: the last attempt does not end the transfer.
TxFailNever ==
    /\ Sending /\ attempts > MaxAttempts
    /\ tx_failed' = TRUE
    /\ UNCHANGED <<linkVars, pending, tx_session, tx_offset, attempts, tx_done, passed>>
    /\ SenderOnly

TxFail ==
    /\ Sending /\ attempts >= MaxAttempts
    /\ tx_failed' = TRUE
    /\ UNCHANGED <<linkVars, pending, tx_session, tx_offset, attempts, tx_done, passed>>
    /\ SenderOnly

-----------------------------------------------------------------------------
(* The receiver.                                                            *)

ReceiverOnly == UNCHANGED txVars
Goto(pc) == rx_pc' = pc
KeepSession == UNCHANGED <<rx_session, rx_crc, rx_done>>
Silently == UNCHANGED <<linkVars, request, last_received>>

\* setup: a card that does not mount stops the board for good.
RxMount ==
    /\ rx_pc = "mount"
    /\ \E status \in Statuses : Mount(status) /\ Goto(IF status = "ok" THEN "mkdir" ELSE "stopped")
    /\ KeepSession /\ Silently /\ ReceiverOnly

RxMkdir ==
    /\ rx_pc = "mkdir"
    /\ \E status \in Statuses : Mkdir(status) /\ Goto(IF status = "ok" THEN "loop" ELSE "stopped")
    /\ KeepSession /\ Silently /\ ReceiverOnly

\* What a processed request ends with: it is remembered and acknowledged.
Accept(packet, accepted) ==
    /\ last_received' = packet
    /\ SendPacket("receiver", [packet EXCEPT !.ack = TRUE], accepted)

OwnData(packet) ==
    /\ packet.session = rx_session /\ ~rx_done /\ packet.kind = "data"
    /\ IsOpen("received_file")
    /\ packet.offset = Len(rx_crc) /\ packet.payload # <<>>
    /\ Len(packet.payload) <= FileBytes - Len(rx_crc)
    /\ packet.checksum = packet.payload

OwnFinish(packet) ==
    /\ packet.session = rx_session /\ ~rx_done /\ packet.kind = "finish"
    /\ Len(rx_crc) = FileBytes /\ packet.offset = FileBytes /\ packet.checksum = rx_crc

\* process_request up to the first call of SdCard.
RxTake(accepted) ==
    /\ rx_pc = "loop" /\ queue["receiver"] # <<>>
    /\ LET packet == Head(queue["receiver"])
       IN /\ queue' = [queue EXCEPT !["receiver"] = Tail(@)]
          /\ request' = packet
          /\ IF packet = last_received
             THEN Accept(packet, accepted) /\ Goto("loop")
             ELSE /\ Goto(CASE packet.kind = "begin" /\ rx_session = 0
                                /\ packet.offset = FileBytes -> "create"
                            [] OwnData(packet) -> "write"
                            [] OwnFinish(packet) -> "sync"
                            [] OTHER -> "loop")
                  /\ UNCHANGED <<air, last_received>>
    /\ KeepSession /\ UNCHANGED cardVars /\ ReceiverOnly

RxCreate(accepted) ==
    /\ rx_pc = "create"
    /\ \E status \in Statuses :
          /\ CreateNew("received_file", Path(request.session), status)
          /\ IF status = "ok"
             THEN rx_session' = request.session /\ Accept(request, accepted)
             ELSE UNCHANGED <<rx_session, air, last_received>>
    /\ Goto("loop")
    /\ UNCHANGED <<queue, request, rx_crc, rx_done>> /\ ReceiverOnly

RxWrite(accepted) ==
    /\ rx_pc = "write"
    /\ \E status \in Statuses :
          /\ Write("received_file", request.payload, status)
          /\ IF status = "ok"
             THEN rx_crc' = rx_crc \o request.payload /\ Accept(request, accepted) /\ Goto("loop")
             ELSE UNCHANGED <<rx_crc, air, last_received>> /\ Goto("abandon")
    /\ UNCHANGED <<queue, request, rx_session, rx_done>> /\ ReceiverOnly

\* A short write may have advanced the file: it is closed, the session kept.
RxAbandon ==
    /\ rx_pc = "abandon"
    /\ \E status \in Statuses : Close("received_file", status)
    /\ Goto("loop")
    /\ KeepSession /\ Silently /\ ReceiverOnly

\* Mutant: the file is believed without reading it back.
RxSyncBelieves ==
    /\ rx_pc = "sync"
    /\ \E status \in Statuses :
          Close("received_file", status) /\ Goto(IF status = "ok" THEN "finished" ELSE "loop")
    /\ KeepSession /\ Silently /\ ReceiverOnly

\* verify_received, call by call.  Closing a file already closed succeeds, so a
\* repeated finish goes on to read it.
RxSync ==
    /\ rx_pc = "sync"
    /\ \E status \in Statuses :
          Close("received_file", status) /\ Goto(IF status = "ok" THEN "reopen" ELSE "loop")
    /\ KeepSession /\ Silently /\ ReceiverOnly

RxReopen ==
    /\ rx_pc = "reopen"
    /\ \E status \in Statuses :
          OpenRead("input", Path(rx_session), status) /\ Goto(IF status = "ok" THEN "size" ELSE "loop")
    /\ KeepSession /\ Silently /\ ReceiverOnly

RxSize ==
    /\ rx_pc = "size"
    /\ \E status \in Statuses, size \in {0, Len(Contents("input"))} :
          /\ FileSize("input", size, status)
          /\ Goto(IF status = "ok" /\ size = FileBytes THEN "read" ELSE "cleanup")
    /\ KeepSession /\ Silently /\ ReceiverOnly

\* One block, compared with the pattern.
RxRead ==
    /\ rx_pc = "read" /\ handle["input"].at < FileBytes
    /\ LET at == handle["input"].at
           block == Slice(Pattern(rx_session), at, PayloadBytes)
           there == Slice(Contents("input"), at, Len(block))
       IN \E status \in Statuses, pieces \in {<<>>, there} :
             /\ Read("input", Len(block), pieces, status)
             /\ Goto(IF status = "ok" /\ pieces = block THEN "read" ELSE "cleanup")
    /\ KeepSession /\ Silently /\ ReceiverOnly

RxReadClose ==
    /\ rx_pc = "read" /\ handle["input"].at = FileBytes
    /\ \E status \in Statuses :
          Close("input", status) /\ Goto(IF status = "ok" THEN "finished" ELSE "loop")
    /\ KeepSession /\ Silently /\ ReceiverOnly

\* RX PASS.  The CRC of the blocks read is that of the pattern.
RxFinish(accepted) ==
    /\ rx_pc = "finished"
    /\ rx_done' = TRUE /\ Accept(request, accepted)
    /\ Goto("loop")
    /\ UNCHANGED <<queue, request, rx_session, rx_crc, cardVars>> /\ ReceiverOnly

\* The destructor of input when verify_received returns early.
RxCleanup ==
    /\ rx_pc = "cleanup"
    /\ \E status \in Statuses : Close("input", status)
    /\ Goto("loop")
    /\ KeepSession /\ Silently /\ ReceiverOnly

-----------------------------------------------------------------------------
(* Resets: "reset to retry".                                                *)

SenderReset ==
    /\ tx_session < MaxSessions
    /\ tx_session' = tx_session + 1 /\ pending' = BeginPacket(tx_session + 1)
    /\ tx_offset' = 0 /\ attempts' = 0 /\ tx_done' = FALSE /\ tx_failed' = FALSE
    /\ queue' = [queue EXCEPT !["sender"] = <<>>]
    /\ UNCHANGED <<air, passed, rxVars, cardVars>>

ReceiverReset ==
    /\ CardReset
    /\ rx_pc' = "mount" /\ request' = NoPacket
    /\ rx_session' = 0 /\ rx_crc' = <<>> /\ rx_done' = FALSE /\ last_received' = NoPacket
    /\ queue' = [queue EXCEPT !["receiver"] = <<>>]
    /\ UNCHANGED <<air, txVars>>

-----------------------------------------------------------------------------

Link == \E b \in Boards, copies \in Copies : OnReceive(b, copies)
SenderLoop == TxPass \/ TxAdvance \/ TxIgnore \/ TxFail \/ \E accepted \in BOOLEAN : TxSend(accepted)
Verify == RxSync \/ RxReopen \/ RxSize \/ RxRead \/ RxReadClose \/ RxCleanup
ReceiverLoop ==
    \/ RxMount \/ RxMkdir \/ RxAbandon \/ Verify
    \/ \E accepted \in BOOLEAN :
          RxTake(accepted) \/ RxCreate(accepted) \/ RxWrite(accepted) \/ RxFinish(accepted)

FileTestNext == Link \/ SenderLoop \/ ReceiverLoop

-----------------------------------------------------------------------------

RxSteps == {"mount", "mkdir", "stopped", "loop", "create", "write", "abandon", "sync",
            "reopen", "size", "read", "finished", "cleanup"}

FileTestType ==
    /\ rx_pc \in RxSteps
    /\ tx_session \in 1..MaxSessions /\ tx_offset \in 0..FileBytes /\ attempts \in 0..MaxAttempts
    /\ rx_session \in 0..MaxSessions /\ Len(rx_crc) <= FileBytes
    /\ {tx_done, tx_failed, rx_done} \subseteq BOOLEAN /\ passed \subseteq 1..MaxSessions
    /\ \A b \in Boards : Len(queue[b]) <= QueueCount /\ Len(air[b]) <= AirDepth

\* A board that logged PASS names a file that holds the whole pattern.
PassedFiles ==
    {Path(s) : s \in passed} \cup IF rx_done THEN {Path(rx_session)} ELSE {}
PassedFilesHold ==
    \A p \in PassedFiles : p \in DOMAIN files /\ files[p] = Pattern(p[2])
=============================================================================
