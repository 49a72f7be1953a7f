--------------------------- MODULE RadioTransfer ---------------------------
(***************************************************************************)
(* The wireless_stream transfer                                             *)
(* (button_lcd_test/wireless_stream/src/radio_transfer.cpp): the sender     *)
(* board's main loop and radio worker, the receiver board's radio worker    *)
(* and the main loop that owns its clip memory (src/ram_clip.cpp), and the  *)
(* ESP-NOW link between them.                                               *)
(*                                                                          *)
(* One action is one iteration of a worker's drain loop (one packet), one   *)
(* tick, one command, one callback or one main-loop step; they interleave   *)
(* as the two cores and the Wi-Fi task do.  Time is abstract: a retry or    *)
(* acknowledgement timer may expire at any tick, and the ten-second silence *)
(* timers are flags that are set only while nothing resets them.            *)
(***************************************************************************)
EXTENDS WireProtocol, StreamFormat

CONSTANTS
    Clips,              \* what load_source may find on the SD card
    Stream,             \* [Clips -> what the stream validator meets in it]
    Windows,            \* window sizes the user configures
    DefaultWindow,      \* configured_window after a reset
    AckPackets,         \* ack_packets: packets per prompt acknowledgement
    QueueCount,         \* queue_count: received packets a board can hold
    CommandDepth,       \* commands a board can hold
    AirDepth,           \* packets still under way when on_send reports
    Copies,             \* deliveries of one packet: 0 lost, 2 repeated
    Allocations,        \* outcomes of the receiver's clip allocation
    Timeouts,           \* whether ten silent seconds can pass
    MaxSessions,        \* bound: transfers started
    MaxResets           \* bound: board resets

NoClip == "no clip"

ASSUME RadioConstants ==
    /\ \A clip \in Clips : StreamType(Stream[clip]) /\ Stream[clip].size >= HeaderSize
    /\ NoClip \notin Clips
    /\ Windows \subseteq Nat \ {0} /\ DefaultWindow \in Nat \ {0}
    /\ AckPackets \in Nat \ {0}
    /\ QueueCount \in Nat \ {0} /\ CommandDepth \in Nat \ {0}
    /\ AirDepth \in Nat /\ Copies \subseteq 0..2
    /\ Allocations \subseteq BOOLEAN /\ Timeouts \in BOOLEAN
    /\ MaxSessions \in Nat /\ MaxResets \in Nat

Size == [clip \in Clips |-> Stream[clip].size]

\* The clips fit to be played.
Wholes == {clip \in Clips : WellFormed(Stream[clip])}

Boards == {"sender", "receiver"}
Peer(b) == IF b = "sender" THEN "receiver" ELSE "sender"

VARIABLES
    \* per board: the active and sending flags, the packets handed to the
    \* radio and not yet delivered, the queue on_receive fills
    active, sending, air, queue,
    \* sender: main loop, command queue, worker
    main_pc, commands, configured_window,
    phase, session, source, window, tx_stale,
    \* receiver: worker, and where it stands when it waits for the main loop
    rx_pc, rx_active, rx_verified, rx_session, rx_size, rx_crc, rx_offset,
    rx_last_ack, reply, rx_stale,
    \* receiver: the lifecycle handshake with the main loop, and ram_clip
    player_request, lifecycle_done, capacity, ram, parser,
    \* history: the clip each session offers, the most bytes the receiver ever
    \* held of each, the sessions the receiver logged "RAM RECEIVED VERIFIED"
    \* for and those the sender logged "STREAM SENT VERIFIED" for; the count of
    \* resets
    offered, stored, verified, sent, resets

linkVars == <<air, queue>>
mainVars == <<main_pc, commands, configured_window>>
senderVars == <<phase, session, source, window, tx_stale>>
receiverVars == <<rx_pc, rx_active, rx_verified, rx_session, rx_size, rx_crc,
                  rx_offset, rx_last_ack, reply, rx_stale>>
lifecycleVars == <<player_request, lifecycle_done>>
ramVars == <<capacity, ram, parser>>
historyVars == <<offered, stored, verified, sent, resets>>
vars == <<active, sending, linkVars, mainVars, senderVars, receiverVars,
          lifecycleVars, ramVars, historyVars>>

Init ==
    /\ active = [b \in Boards |-> FALSE]
    /\ sending = [b \in Boards |-> FALSE]
    /\ air = [b \in Boards |-> <<>>]
    /\ queue = [b \in Boards |-> <<>>]
    /\ main_pc = "idle" /\ commands = <<>> /\ configured_window = DefaultWindow
    /\ phase = "idle" /\ session = 0 /\ source = NoClip
    /\ window = NewWindow(0, DefaultWindow) /\ tx_stale = FALSE
    /\ rx_pc = "run" /\ rx_active = FALSE /\ rx_verified = FALSE
    /\ rx_session = 0 /\ rx_size = 0 /\ rx_crc = NoClip
    /\ rx_offset = 0 /\ rx_last_ack = 0 /\ reply = {} /\ rx_stale = FALSE
    /\ player_request = "idle" /\ lifecycle_done = "empty"
    /\ capacity = 0 /\ ram = <<>> /\ parser = Fresh
    /\ offered = <<>> /\ stored = [s \in 1..MaxSessions |-> 0]
    /\ verified = {} /\ sent = {} /\ resets = 0

-----------------------------------------------------------------------------
(* Packets.  The payload of a begin or finish packet is the clip's CRC32,   *)
(* taken as ideal: it is the clip.  A byte is named by its clip and place.  *)

Bytes(clip, offset, length) == [i \in 1..length |-> <<clip, offset + i - 1>>]

Control(kind, s, clip) ==
    [kind |-> kind, session |-> s, offset |-> Size[clip], crc |-> clip]

Data(s, clip, offset, length) ==
    [kind |-> "data", session |-> s, offset |-> offset,
     payload |-> Bytes(clip, offset, length)]

Reply(kind, s, offset) == [kind |-> kind, session |-> s, offset |-> offset]

-----------------------------------------------------------------------------
(* The link.                                                                *)

\* send(): only while no packet awaits its callback.
Transmit(b, packet) ==
    /\ ~sending[b]
    /\ sending' = [sending EXCEPT ![b] = TRUE]
    /\ air' = [air EXCEPT ![b] = Append(@, packet)]
    /\ UNCHANGED queue

\* The driver reports a packet done, delivered or not; the peer's callback may
\* still be to come.
OnSend(b) ==
    /\ sending[b] /\ Len(air[b]) <= AirDepth
    /\ sending' = [sending EXCEPT ![b] = FALSE]
    /\ UNCHANGED <<active, linkVars, mainVars, senderVars, receiverVars,
                   lifecycleVars, ramVars, historyVars>>

\* xQueueSend without waiting: a full queue drops the packet.
Enqueued(q, packet) == IF Len(q) < QueueCount THEN Append(q, packet) ELSE q

OnReceive(b, copies) ==
    /\ air[Peer(b)] # <<>>
    /\ LET packet == Head(air[Peer(b)])
           once == Enqueued(queue[b], packet)
       IN queue' = [queue EXCEPT ![b] = IF copies = 0 THEN queue[b]
                                        ELSE IF copies = 1 THEN once
                                        ELSE Enqueued(once, packet)]
    /\ air' = [air EXCEPT ![Peer(b)] = Tail(@)]
    /\ UNCHANGED <<active, sending, mainVars, senderVars, receiverVars,
                   lifecycleVars, ramVars, historyVars>>

\* xQueueReceive: the worker takes the head of its queue.
Take(b) ==
    /\ queue[b] # <<>>
    /\ queue' = [queue EXCEPT ![b] = Tail(@)]
    /\ UNCHANGED <<sending, air>>

-----------------------------------------------------------------------------
(* Sender: main loop and commands.                                          *)

\* start_send, first half: claim the board.
StartClaim ==
    /\ main_pc = "idle" /\ ~active["sender"] /\ Len(offered) < MaxSessions
    /\ active' = [active EXCEPT !["sender"] = TRUE]
    /\ main_pc' = "claimed"
    /\ UNCHANGED <<sending, linkVars, commands, configured_window, senderVars,
                   receiverVars, lifecycleVars, ramVars, historyVars>>

\* Mutant: the claim survives a full command queue.
StartEnqueueKeepsClaim ==
    /\ main_pc = "claimed"
    /\ main_pc' = "idle"
    /\ commands' = IF Len(commands) < CommandDepth
                   THEN Append(commands, [kind |-> "start"]) ELSE commands
    /\ UNCHANGED <<active, sending, linkVars, configured_window, senderVars,
                   receiverVars, lifecycleVars, ramVars, historyVars>>

\* start_send, second half: queue the start, or release the claim.
StartEnqueue ==
    /\ main_pc = "claimed"
    /\ main_pc' = "idle"
    /\ \/ /\ Len(commands) < CommandDepth
          /\ commands' = Append(commands, [kind |-> "start"])
          /\ UNCHANGED active
       \/ /\ Len(commands) = CommandDepth
          /\ active' = [active EXCEPT !["sender"] = FALSE]
          /\ UNCHANGED commands
    /\ UNCHANGED <<sending, linkVars, configured_window, senderVars, receiverVars,
                   lifecycleVars, ramVars, historyVars>>

\* run_command "window n": refused by the main loop while busy.
WindowCommand(n) ==
    /\ main_pc = "idle" /\ ~active["sender"] /\ Len(commands) < CommandDepth
    /\ commands' = Append(commands, [kind |-> "window", value |-> n])
    /\ UNCHANGED <<active, sending, linkVars, main_pc, configured_window, senderVars,
                   receiverVars, lifecycleVars, ramVars, historyVars>>

\* process_commands: the worker does not reconfigure a busy radio.
Configure ==
    /\ commands # <<>> /\ Head(commands).kind = "window"
    /\ commands' = Tail(commands)
    /\ configured_window' = IF active["sender"] \/ sending["sender"]
                            THEN configured_window ELSE Head(commands).value
    /\ UNCHANGED <<active, sending, linkVars, main_pc, senderVars, receiverVars,
                   lifecycleVars, ramVars, historyVars>>

StopSender ==
    /\ phase' = "idle" /\ source' = NoClip /\ tx_stale' = FALSE
    /\ active' = [active EXCEPT !["sender"] = FALSE]

\* begin_send after a successful load_source.  esp_random's session number is
\* taken as fresh.
BeginSend(clip) ==
    /\ commands # <<>> /\ Head(commands).kind = "start"
    /\ commands' = Tail(commands)
    /\ session' = Len(offered) + 1
    /\ offered' = Append(offered, clip)
    /\ source' = clip
    /\ window' = NewWindow(Size[clip], configured_window)
    /\ phase' = "begin" /\ tx_stale' = FALSE
    /\ UNCHANGED <<active, sending, linkVars, main_pc, configured_window, receiverVars,
                   lifecycleVars, ramVars, stored, verified, sent, resets>>

\* begin_send when the clip is missing or too large; or, after load_source set
\* the window, when PSRAM is short or the clip is unreadable.
BeginSendFails ==
    /\ commands # <<>> /\ Head(commands).kind = "start"
    /\ commands' = Tail(commands)
    /\ window' \in {window} \cup {NewWindow(Size[clip], configured_window) : clip \in Clips}
    /\ StopSender
    /\ UNCHANGED <<sending, linkVars, main_pc, configured_window, session,
                   receiverVars, lifecycleVars, ramVars, historyVars>>

-----------------------------------------------------------------------------
(* Sender: process_reply, one disjunct per branch.                          *)

Answer == Head(queue["sender"])
Answers(kind) ==
    /\ queue["sender"] # <<>> /\ phase # "idle"
    /\ Answer.session = session /\ Answer.kind = kind

SenderRest == UNCHANGED <<mainVars, receiverVars, lifecycleVars, ramVars>>

ReplyError ==
    /\ Answers("error")
    /\ StopSender
    /\ Take("sender")
    /\ UNCHANGED <<session, window, historyVars>> /\ SenderRest

ReplyBegun ==
    /\ Answers("begin_ack") /\ phase = "begin" /\ Answer.offset = 0
    /\ phase' = "data" /\ tx_stale' = FALSE
    /\ Take("sender")
    /\ UNCHANGED <<active, session, source, window, historyVars>> /\ SenderRest

ReplyData ==
    /\ Answers("data_ack") /\ phase = "data"
    /\ AckAccepted(window, Answer.offset)
    /\ window' = Acked(window, Answer.offset)
    /\ phase' = IF Answer.offset = window.total THEN "finish" ELSE phase
    /\ tx_stale' = FALSE
    /\ Take("sender")
    /\ UNCHANGED <<active, session, source, historyVars>> /\ SenderRest

ReplyFinished ==
    /\ Answers("finish_ack") /\ phase = "finish" /\ Answer.offset = window.total
    /\ sent' = sent \cup {session}
    /\ StopSender
    /\ Take("sender")
    /\ UNCHANGED <<session, window, offered, stored, verified, resets>> /\ SenderRest

\* Mutant: any packet of the receiver counts as progress.
ReplyIgnoredAsProgress ==
    /\ queue["sender"] # <<>>
    /\ ~ \/ Answers("error")
         \/ Answers("begin_ack") /\ phase = "begin" /\ Answer.offset = 0
         \/ Answers("data_ack") /\ phase = "data" /\ AckAccepted(window, Answer.offset)
         \/ Answers("finish_ack") /\ phase = "finish" /\ Answer.offset = window.total
    /\ Take("sender")
    /\ tx_stale' = FALSE
    /\ UNCHANGED <<active, phase, session, source, window, historyVars>> /\ SenderRest

ReplyIgnored ==
    /\ queue["sender"] # <<>>
    /\ ~ \/ Answers("error")
         \/ Answers("begin_ack") /\ phase = "begin" /\ Answer.offset = 0
         \/ Answers("data_ack") /\ phase = "data" /\ AckAccepted(window, Answer.offset)
         \/ Answers("finish_ack") /\ phase = "finish" /\ Answer.offset = window.total
    /\ Take("sender")
    /\ UNCHANGED <<active, senderVars, historyVars>> /\ SenderRest

-----------------------------------------------------------------------------
(* Sender: sender_tick.                                                     *)

\* Ten seconds without progress have passed since progress_ms was last set.
SenderSilence ==
    /\ Timeouts /\ phase # "idle" /\ ~tx_stale
    /\ tx_stale' = TRUE
    /\ UNCHANGED <<active, sending, linkVars, mainVars, phase, session, source, window,
                   receiverVars, lifecycleVars, ramVars, historyVars>>

SenderTimeout ==
    /\ phase # "idle" /\ tx_stale
    /\ StopSender
    /\ UNCHANGED <<sending, linkVars, mainVars, session, window, receiverVars,
                   lifecycleVars, ramVars, historyVars>>

\* The window the tick works on: rewound if the retry timer has run out.
TickWindow(elapsed) ==
    IF elapsed /\ window.high_water > window.acknowledged
    THEN Retried(window) ELSE window

\* esp_now_send may refuse the packet: the rewind stays, nothing is sent.
SendData(elapsed, accepted) ==
    /\ phase = "data" /\ ~tx_stale /\ ~sending["sender"]
    /\ LET w == TickWindow(elapsed)
       IN IF Count(w) > 0 /\ accepted
          THEN /\ Transmit("sender", Data(session, source, w.next, Count(w)))
               /\ window' = Sent(w, Count(w))
          ELSE window' = w /\ UNCHANGED <<sending, linkVars>>
    /\ UNCHANGED <<active, mainVars, phase, session, source, tx_stale, receiverVars,
                   lifecycleVars, ramVars, historyVars>>

\* A begin or finish packet goes out at once and again whenever its retry timer
\* runs out; control_sent only tells the two apart.
SendControl ==
    /\ phase \in {"begin", "finish"} /\ ~tx_stale
    /\ Transmit("sender", Control(phase, session, source))
    /\ UNCHANGED <<active, mainVars, senderVars, receiverVars, lifecycleVars, ramVars,
                   historyVars>>

-----------------------------------------------------------------------------
(* Receiver: the lifecycle handshake.                                       *)

\* Mutant: service_player does not wait for the main loop.
CallWithoutWaiting(request, pc) ==
    /\ player_request' = request
    /\ rx_pc' = "run"
    /\ UNCHANGED lifecycle_done

\* service_player, first half: publish the request and block.
CallMainLoop(request, pc) ==
    /\ player_request' = request
    /\ rx_pc' = pc
    /\ UNCHANGED lifecycle_done

\* reject, up to its blocking call.
Reject(pc) ==
    /\ rx_active' = FALSE /\ rx_verified' = FALSE /\ rx_stale' = FALSE
    /\ CallMainLoop("clear", pc)

\* Mutant: ram_clip::begin without the clear.
MainLoopBeginKeepsClip(allocated) ==
    /\ player_request = "begin"
    /\ ram' = ram /\ parser' = parser /\ capacity' = IF allocated THEN rx_size ELSE 0
    /\ player_request' = "idle"
    /\ lifecycle_done' = IF allocated THEN "done" ELSE "failed"
    /\ UNCHANGED <<active, sending, linkVars, mainVars, senderVars, receiverVars,
                   historyVars>>

\* radio_transfer::tick on the main loop: ram_clip::begin or ram_clip::clear,
\* then the answer.  lifecycle_done is the semaphore together with the
\* player_result it guards.
MainLoopBegin(allocated) ==
    /\ player_request = "begin"
    /\ ram' = <<>> /\ parser' = Fresh /\ capacity' = IF allocated THEN rx_size ELSE 0
    /\ player_request' = "idle"
    /\ lifecycle_done' = IF allocated THEN "done" ELSE "failed"
    /\ UNCHANGED <<active, sending, linkVars, mainVars, senderVars, receiverVars,
                   historyVars>>

MainLoopClear ==
    /\ player_request = "clear"
    /\ ram' = <<>> /\ parser' = Fresh /\ capacity' = 0
    /\ player_request' = "idle" /\ lifecycle_done' = "done"
    /\ UNCHANGED <<active, sending, linkVars, mainVars, senderVars, receiverVars,
                   historyVars>>

\* The begin branch of process_request after service_player returns.
BeginAnswered ==
    /\ rx_pc = "begin" /\ lifecycle_done # "empty"
    /\ lifecycle_done' = "empty"
    /\ \/ /\ lifecycle_done = "done"
          /\ rx_active' = TRUE /\ rx_stale' = FALSE /\ rx_pc' = "run"
          /\ reply' = {Reply("begin_ack", rx_session, 0)}
          /\ UNCHANGED <<player_request, rx_verified>>
       \/ /\ lifecycle_done = "failed"
          /\ rx_active' = FALSE /\ rx_verified' = FALSE /\ rx_stale' = FALSE
          /\ player_request' = "clear" /\ rx_pc' = "clear"
          /\ UNCHANGED reply
    /\ UNCHANGED <<active, sending, linkVars, mainVars, senderVars, rx_session, rx_size,
                   rx_crc, rx_offset, rx_last_ack, ramVars, historyVars>>

\* reject after service_player returns: from the drain loop, or from
\* receiver_tick, whose remaining lines then run.
RejectAnswered ==
    /\ rx_pc \in {"clear", "tick_clear"} /\ lifecycle_done # "empty"
    /\ lifecycle_done' = "empty"
    /\ rx_pc' = IF rx_pc = "clear" THEN "run" ELSE "tick"
    /\ reply' = {Reply("error", rx_session, 0)}
    /\ active' = [active EXCEPT !["receiver"] = FALSE]
    /\ UNCHANGED <<sending, linkVars, mainVars, senderVars, rx_active, rx_verified,
                   rx_session, rx_size, rx_crc, rx_offset, rx_last_ack, rx_stale,
                   player_request, ramVars, historyVars>>

-----------------------------------------------------------------------------
(* Receiver: process_request, one action per branch.                        *)

Request == Head(queue["receiver"])
Requests(kind) == rx_pc = "run" /\ queue["receiver"] # <<>> /\ Request.kind = kind
Current == (rx_active \/ rx_verified) /\ Request.session = rx_session

ReceiverRest == UNCHANGED <<mainVars, senderVars>>
HandshakeIdle == UNCHANGED lifecycleVars

\* The begin packet of the session already held: answer, disturb nothing.
BeginAgain ==
    /\ Requests("begin") /\ Current
    /\ IF Request.offset = rx_size /\ Request.crc = rx_crc
       THEN reply' = {Reply("begin_ack", rx_session, 0)} /\ rx_stale' = FALSE
       ELSE UNCHANGED <<reply, rx_stale>>
    /\ Take("receiver")
    /\ UNCHANGED <<active, rx_pc, rx_active, rx_verified, rx_session, rx_size, rx_crc,
                   rx_offset, rx_last_ack, ramVars, historyVars>>
    /\ ReceiverRest /\ HandshakeIdle

\* A new session replaces whatever the receiver holds.
BeginNew ==
    /\ Requests("begin") /\ ~Current
    /\ active' = [active EXCEPT !["receiver"] = TRUE]
    /\ rx_active' = FALSE /\ rx_verified' = FALSE /\ rx_stale' = FALSE
    /\ rx_session' = Request.session
    /\ rx_size' = Request.offset /\ rx_crc' = Request.crc
    /\ rx_offset' = 0 /\ rx_last_ack' = 0 /\ reply' = {}
    /\ CallMainLoop("begin", "begin")
    /\ Take("receiver")
    /\ UNCHANGED <<ramVars, historyVars>> /\ ReceiverRest

\* The shape a data packet of this clip must have.
WellPlaced(packet) ==
    /\ packet.payload # <<>> /\ packet.offset < rx_size
    /\ packet.offset % PayloadSize = 0
    /\ Len(packet.payload) = Smaller(PayloadSize, rx_size - packet.offset)

\* ram_clip::append: in place, within the buffer, and acceptable to the parser,
\* which sees the bytes only after they were copied in.
Fits(packet) ==
    capacity > 0 /\ packet.offset = Len(ram) /\ Len(packet.payload) <= capacity - Len(ram)
RamAfter(packet) == ram \o packet.payload
ParserAfter(packet) ==
    LET bytes == RamAfter(packet) IN advance(parser, Len(bytes), Stream[bytes[1][1]])
Appendable(packet) == Fits(packet) /\ ParserAfter(packet).accepted

\* Mutants: acknowledging the packet that arrived instead of the prefix, and
\* saying nothing about a packet that is not the next one.
DataElsewhereAcknowledged ==
    /\ Requests("data") /\ Current /\ WellPlaced(Request)
    /\ Request.offset # rx_offset
    /\ rx_stale' = FALSE
    /\ reply' = {Reply("data_ack", rx_session, Request.offset + Len(Request.payload))}
    /\ Take("receiver")
    /\ UNCHANGED <<active, rx_pc, rx_active, rx_verified, rx_session, rx_size, rx_crc,
                   rx_offset, rx_last_ack, ramVars, historyVars>>
    /\ ReceiverRest /\ HandshakeIdle

DataElsewhereUnanswered ==
    /\ Requests("data") /\ Current /\ WellPlaced(Request)
    /\ Request.offset # rx_offset
    /\ rx_stale' = FALSE
    /\ Take("receiver")
    /\ UNCHANGED <<active, rx_pc, rx_active, rx_verified, rx_session, rx_size, rx_crc,
                   rx_offset, rx_last_ack, reply, ramVars, historyVars>>
    /\ ReceiverRest /\ HandshakeIdle

\* An old duplicate or a packet beyond a gap: say what the prefix is.
DataElsewhere ==
    /\ Requests("data") /\ Current /\ WellPlaced(Request)
    /\ Request.offset # rx_offset
    /\ rx_stale' = FALSE
    /\ reply' = {Reply("data_ack", rx_session, rx_offset)}
    /\ Take("receiver")
    /\ UNCHANGED <<active, rx_pc, rx_active, rx_verified, rx_session, rx_size, rx_crc,
                   rx_offset, rx_last_ack, ramVars, historyVars>>
    /\ ReceiverRest /\ HandshakeIdle

DataAppended ==
    /\ Requests("data") /\ Current /\ WellPlaced(Request)
    /\ Request.offset = rx_offset /\ Appendable(Request)
    /\ LET offset == rx_offset + Len(Request.payload)
       IN /\ rx_offset' = offset
          /\ ram' = RamAfter(Request) /\ parser' = ParserAfter(Request)
          /\ stored' = [stored EXCEPT ![rx_session] = Larger(@, offset)]
          /\ reply' = IF reply # {} \/ offset = rx_size
                         \/ offset - rx_last_ack >= AckPackets * PayloadSize
                      THEN {Reply("data_ack", rx_session, offset)} ELSE reply
    /\ rx_stale' = FALSE
    /\ Take("receiver")
    /\ UNCHANGED <<active, rx_pc, rx_active, rx_verified, rx_session, rx_size, rx_crc,
                   rx_last_ack, capacity, offered, verified, sent, resets>>
    /\ ReceiverRest /\ HandshakeIdle

DataRejected ==
    /\ Requests("data") /\ Current /\ WellPlaced(Request)
    /\ Request.offset = rx_offset /\ ~Appendable(Request)
    /\ IF Fits(Request)
       THEN ram' = RamAfter(Request) /\ parser' = ParserAfter(Request)
       ELSE UNCHANGED <<ram, parser>>
    /\ Reject("clear")
    /\ Take("receiver")
    /\ UNCHANGED <<active, rx_session, rx_size, rx_crc, rx_offset, rx_last_ack, reply,
                   capacity, historyVars>>
    /\ ReceiverRest

FinishMatches ==
    Request.offset = rx_size /\ rx_offset = rx_size /\ Request.crc = rx_crc

\* ram_clip::finish: every byte there and in a whole record, the CRC right.
ClipFinishes ==
    /\ capacity # 0 /\ Len(ram) = capacity /\ parser.published = capacity
    /\ ram = Bytes(rx_crc, 0, capacity)

\* Over a link that keeps the order and drops damaged packets, what is still here
\* at the first finish passes; the code checks it all the same.
FinishFirst ==
    /\ Requests("finish") /\ Current /\ ~(FinishMatches /\ rx_verified)
    /\ IF FinishMatches /\ ClipFinishes
       THEN /\ rx_active' = FALSE /\ rx_verified' = TRUE /\ rx_stale' = FALSE
            /\ active' = [active EXCEPT !["receiver"] = FALSE]
            /\ verified' = verified \cup {rx_session}
            /\ reply' = {Reply("finish_ack", rx_session, rx_size)}
            /\ UNCHANGED rx_pc /\ HandshakeIdle
       ELSE /\ Reject("clear")
            /\ UNCHANGED <<active, verified, reply>>
    /\ Take("receiver")
    /\ UNCHANGED <<rx_session, rx_size, rx_crc, rx_offset, rx_last_ack, ramVars, offered,
                   stored, sent, resets>>
    /\ ReceiverRest

FinishAgain ==
    /\ Requests("finish") /\ Current /\ FinishMatches /\ rx_verified
    /\ reply' = {Reply("finish_ack", rx_session, rx_size)}
    /\ Take("receiver")
    /\ UNCHANGED <<active, rx_pc, rx_active, rx_verified, rx_session, rx_size, rx_crc,
                   rx_offset, rx_last_ack, rx_stale, ramVars, historyVars>>
    /\ ReceiverRest /\ HandshakeIdle

\* Data or finish of a session not held, or data of the wrong shape.
RequestIgnored ==
    /\ \/ Requests("data") /\ ~(Current /\ WellPlaced(Request))
       \/ Requests("finish") /\ ~Current
    /\ Take("receiver")
    /\ UNCHANGED <<active, receiverVars, ramVars, historyVars>>
    /\ ReceiverRest /\ HandshakeIdle

-----------------------------------------------------------------------------
(* Receiver: receiver_tick.                                                 *)

\* Ten seconds have passed since rx_updated_ms was last set.
ReceiverSilence ==
    /\ Timeouts /\ rx_active /\ ~rx_stale
    /\ rx_stale' = TRUE
    /\ UNCHANGED <<active, sending, linkVars, rx_pc, rx_active, rx_verified, rx_session,
                   rx_size, rx_crc, rx_offset, rx_last_ack, reply, ramVars, historyVars>>
    /\ ReceiverRest /\ HandshakeIdle

ReceiverTimeout ==
    /\ rx_pc = "run" /\ rx_active /\ rx_stale
    /\ Reject("tick_clear")
    /\ UNCHANGED <<active, sending, linkVars, rx_session, rx_size, rx_crc, rx_offset,
                   rx_last_ack, reply, ramVars, historyVars>>
    /\ ReceiverRest

\* The reply the tick tries to send: the pending one, else a delayed
\* acknowledgement once its timer has run out.
DueReply(elapsed) ==
    IF rx_active /\ rx_offset > rx_last_ack /\ reply = {} /\ elapsed
    THEN {Reply("data_ack", rx_session, rx_offset)} ELSE reply

ReceiverTick(elapsed, accepted) ==
    /\ rx_pc \in {"run", "tick"} /\ ~(rx_active /\ rx_stale)
    /\ rx_pc' = "run"
    /\ \/ /\ accepted
          /\ \E due \in DueReply(elapsed) :
                /\ Transmit("receiver", due)
                /\ rx_last_ack' = IF due.kind = "data_ack" THEN due.offset ELSE rx_last_ack
          /\ reply' = {}
       \/ /\ ~accepted \/ sending["receiver"] \/ DueReply(elapsed) = {}
          /\ reply' = DueReply(elapsed)
          /\ UNCHANGED <<sending, linkVars, rx_last_ack>>
    /\ UNCHANGED <<active, rx_active, rx_verified, rx_session, rx_size, rx_crc, rx_offset,
                   rx_stale, ramVars, historyVars>>
    /\ ReceiverRest /\ HandshakeIdle

-----------------------------------------------------------------------------
(* Resets.  What the radio still carries may or may not arrive.             *)

SenderReset ==
    /\ resets < MaxResets /\ resets' = resets + 1
    /\ active' = [active EXCEPT !["sender"] = FALSE]
    /\ sending' = [sending EXCEPT !["sender"] = FALSE]
    /\ queue' = [queue EXCEPT !["sender"] = <<>>]
    /\ \E left \in {air["sender"], <<>>} : air' = [air EXCEPT !["sender"] = left]
    /\ main_pc' = "idle" /\ commands' = <<>> /\ configured_window' = DefaultWindow
    /\ phase' = "idle" /\ session' = 0 /\ source' = NoClip /\ tx_stale' = FALSE
    /\ window' = NewWindow(0, DefaultWindow)
    /\ UNCHANGED <<receiverVars, lifecycleVars, ramVars, offered, stored, verified, sent>>

ReceiverReset ==
    /\ resets < MaxResets /\ resets' = resets + 1
    /\ active' = [active EXCEPT !["receiver"] = FALSE]
    /\ sending' = [sending EXCEPT !["receiver"] = FALSE]
    /\ queue' = [queue EXCEPT !["receiver"] = <<>>]
    /\ \E left \in {air["receiver"], <<>>} : air' = [air EXCEPT !["receiver"] = left]
    /\ rx_pc' = "run" /\ rx_active' = FALSE /\ rx_verified' = FALSE
    /\ rx_session' = 0 /\ rx_size' = 0 /\ rx_crc' = NoClip
    /\ rx_offset' = 0 /\ rx_last_ack' = 0 /\ reply' = {} /\ rx_stale' = FALSE
    /\ player_request' = "idle" /\ lifecycle_done' = "empty"
    /\ capacity' = 0 /\ ram' = <<>> /\ parser' = Fresh
    /\ UNCHANGED <<mainVars, senderVars, offered, stored, verified, sent>>

-----------------------------------------------------------------------------

Link == \E b \in Boards : OnSend(b) \/ \E copies \in Copies : OnReceive(b, copies)

SenderMain == StartClaim \/ StartEnqueue \/ \E n \in Windows : WindowCommand(n)

SenderWorker ==
    \/ Configure \/ BeginSendFails \/ \E clip \in Clips : BeginSend(clip)
    \/ ReplyError \/ ReplyBegun \/ ReplyData \/ ReplyFinished \/ ReplyIgnored
    \/ SenderTimeout \/ SendControl
    \/ \E elapsed, accepted \in BOOLEAN : SendData(elapsed, accepted)

ReceiverMain == MainLoopClear \/ \E allocated \in Allocations : MainLoopBegin(allocated)

ReceiverWorker ==
    \/ BeginAnswered \/ RejectAnswered
    \/ BeginAgain \/ BeginNew
    \/ DataElsewhere \/ DataAppended \/ DataRejected
    \/ FinishFirst \/ FinishAgain \/ RequestIgnored
    \/ ReceiverTimeout
    \/ \E elapsed, accepted \in BOOLEAN : ReceiverTick(elapsed, accepted)

Silence == SenderSilence \/ ReceiverSilence

Reset == SenderReset \/ ReceiverReset

Next == Link \/ SenderMain \/ SenderWorker \/ ReceiverMain \/ ReceiverWorker
        \/ Silence \/ Reset

Spec == Init /\ [][Next]_vars

-----------------------------------------------------------------------------
(* Fairness.  Both workers wake at least every millisecond (the timeout of  *)
(* ulTaskNotifyTake), both main loops run loop() for ever, the driver       *)
(* reports every packet, and real time passes.                              *)

WorkersAndLoopsRun ==
    /\ WF_vars(StartEnqueue) /\ WF_vars(Configure)
    /\ WF_vars(BeginSendFails \/ \E clip \in Clips : BeginSend(clip))
    /\ WF_vars(SenderTimeout) /\ WF_vars(ReceiverTimeout)
    /\ WF_vars(ReceiverMain) /\ WF_vars(BeginAnswered) /\ WF_vars(RejectAnswered)

\* Ten silent seconds do pass if nothing resets the timer.
TimePasses == WF_vars(SenderSilence) /\ WF_vars(ReceiverSilence)

\* The link may lose anything, even everything: nothing is assumed of it.
SettlingSpec == Spec /\ WorkersAndLoopsRun /\ TimePasses

\* A packet sent again and again gets through eventually: the air lets it pass
\* and finds room in the queue (96 entries, drained within the 30 ms between two
\* retries of a window of at most 64).
PacketNames ==
    {<<kind, Size[clip]>> : kind \in {"begin", "finish", "data_ack", "finish_ack"},
                            clip \in Clips}
    \cup {<<"begin_ack", 0>>}
    \cup {name \in {"data", "data_ack"} \X
            UNION {0..(Size[clip] - 1) : clip \in Clips} :
                /\ name[2] % PayloadSize = 0
                /\ name[1] = "data" \/ name[2] > 0}

Carried(b, name) ==
    /\ air[Peer(b)] # <<>>
    /\ Head(air[Peer(b)]).kind = name[1] /\ Head(air[Peer(b)]).offset = name[2]

Arrives(b, name) ==
    Carried(b, name) /\ Len(queue[b]) < QueueCount /\ OnReceive(b, 1)

LinkIsFair ==
    /\ \A b \in Boards : /\ WF_vars(OnSend(b))
                         /\ WF_vars(\E copies \in Copies : OnReceive(b, copies))
    /\ \A name \in PacketNames :
          []<>(\E b \in Boards : Carried(b, name))
              => []<><<\E b \in Boards : Arrives(b, name)>>_vars

\* Each worker takes what is queued and each tick eventually finds its timers
\* expired and the radio willing.
WorkersTick ==
    /\ WF_vars(ReplyError \/ ReplyBegun \/ ReplyData \/ ReplyFinished \/ ReplyIgnored)
    /\ WF_vars(\/ BeginAgain \/ BeginNew \/ DataElsewhere \/ DataAppended
               \/ DataRejected \/ FinishFirst \/ FinishAgain \/ RequestIgnored)
    /\ WF_vars(SendControl)
    /\ \A elapsed \in BOOLEAN : /\ WF_vars(SendData(elapsed, TRUE))
                                /\ WF_vars(ReceiverTick(elapsed, TRUE))

CompletingSpec == Spec /\ WorkersAndLoopsRun /\ LinkIsFair /\ WorkersTick

-----------------------------------------------------------------------------
(* Properties.                                                              *)

Sessions == 1..MaxSessions
Requested == [kind : {"begin", "finish"}, session : Sessions, offset : Nat, crc : Clips]
    \cup [kind : {"data"}, session : Sessions, offset : Nat, payload : Seq(Clips \X Nat)]
Answered == [kind : {"begin_ack", "data_ack", "finish_ack", "error"},
             session : Sessions, offset : Nat]
Commands == [kind : {"start"}] \cup [kind : {"window"}, value : Windows]

\* The type invariant: every variable of the two boards, the link and the history.
TypeOK ==
    /\ active \in [Boards -> BOOLEAN] /\ sending \in [Boards -> BOOLEAN]
    /\ DOMAIN air = Boards /\ DOMAIN queue = Boards
    /\ air["sender"] \in Seq(Requested) /\ queue["receiver"] \in Seq(Requested)
    /\ air["receiver"] \in Seq(Answered) /\ queue["sender"] \in Seq(Answered)
    /\ main_pc \in {"idle", "claimed"} /\ commands \in Seq(Commands)
    /\ configured_window \in Nat
    /\ phase \in {"idle", "begin", "data", "finish"}
    /\ session \in 0..MaxSessions /\ source \in Clips \cup {NoClip}
    /\ WindowType(window) /\ tx_stale \in BOOLEAN
    /\ rx_pc \in {"run", "begin", "clear", "tick_clear", "tick"}
    /\ rx_active \in BOOLEAN /\ rx_verified \in BOOLEAN
    /\ rx_session \in 0..MaxSessions /\ rx_size \in Nat
    /\ rx_crc \in Clips \cup {NoClip}
    /\ rx_offset \in Nat /\ rx_last_ack \in Nat
    /\ reply \subseteq Answered /\ rx_stale \in BOOLEAN
    /\ player_request \in {"idle", "begin", "clear"}
    /\ lifecycle_done \in {"empty", "done", "failed"}
    /\ capacity \in Nat /\ ram \in Seq(Clips \X Nat)
    /\ parser \in Validator /\ parser.published <= capacity
    /\ offered \in Seq(Clips) /\ Len(offered) <= MaxSessions
    /\ stored \in [Sessions -> Nat]
    /\ verified \subseteq Sessions /\ sent \subseteq Sessions
    /\ resets \in 0..MaxResets

\* Where one look at the first n bytes of a clip leaves the parser.
OneLook == [clip \in Clips |-> [n \in 1..Size[clip] |-> advance(Fresh, n, Stream[clip])]]

\* While the receiver holds a clip, its memory is exactly the prefix rx_offset
\* of the clip that session offers, and once verified all of it: lost, repeated
\* and late packets, a rewinding sender, an aborted session and a clip replaced
\* by the main loop never leave a wrong, missing or foreign byte, and the parser,
\* fed packet by packet, stands where one look at all these bytes would put it
\* (ram_clip append and finish, driven by process_request).
RamHoldsOffer ==
    rx_active \/ rx_verified =>
        /\ ram = Bytes(offered[rx_session], 0, rx_offset)
        /\ capacity = Size[offered[rx_session]] /\ rx_offset <= capacity
        /\ rx_verified => rx_offset = capacity
        /\ parser = IF rx_offset = 0 THEN Fresh
                    ELSE OneLook[offered[rx_session]][rx_offset]

\* What the sender counts as acknowledged the receiver stored in this session:
\* an acknowledgement of another session, or of a prefix the receiver lost in a
\* reset, never moves the window.
AcknowledgedWasStored == phase # "idle" => window.acknowledged <= stored[session]

Starts == {i \in 1..Len(commands) : commands[i].kind = "start"}

\* Radio busy is neither lost nor left behind: on the sender it is set exactly
\* from start_send's claim to the end of the transfer, so one start at most is
\* under way and neither the SD card nor the window changes under a transfer;
\* on the receiver it is set exactly while a clip is being received.
BusyIsTruthful ==
    /\ active["sender"] <=> phase # "idle" \/ main_pc = "claimed" \/ Starts # {}
    /\ main_pc = "claimed" => phase = "idle" /\ Starts = {}
    /\ Starts # {} => phase = "idle" /\ \A i, j \in Starts : i = j
    /\ rx_pc = "run" => (active["receiver"] <=> rx_active)

\* The radio worker and the main loop never miss each other: a request is up or
\* an answer is waiting exactly while the worker blocks in service_player, never
\* both (lifecycle_done is given at most once per request), and the worker
\* advertises no clip while the main loop replaces its memory.  Every variable keeps
\* its type, and the parser never publishes beyond the memory it was given.
HandshakeInStep ==
    LET waiting == rx_pc \in {"begin", "clear", "tick_clear"}
    IN /\ TypeOK
       /\ waiting <=> player_request # "idle" \/ lifecycle_done # "empty"
       /\ player_request = "idle" \/ lifecycle_done = "empty"
       /\ waiting => ~rx_active /\ ~rx_verified

\* The receiver refuses a transfer only for a real fault: a flawed clip, no
\* memory, a silence or a reset.  Loss, duplication, a full queue, a resent
\* begin or a finish retried after verification never make it reject.
OnlyFaultsReject ==
    rx_pc = "clear" => \/ offered[rx_session] \notin Wholes
                       \/ FALSE \in Allocations \/ Timeouts \/ resets > 0

\* The transfer implements its promise.
Promise == INSTANCE VerifiedTransfer WITH
    Good <- Wholes, offered <- offered, stored <- stored, verified <- verified, sent <- sent
KeepsPromise == Promise!Spec

\* Every transfer ends on both boards, whatever the link does: acknowledgements
\* that bring nothing new do not keep the sender's ten-second timer alive, and
\* the receiver's busy flag does not outlive a sender that disappeared.
Settles == \A b \in Boards : []<>~active[b]

\* On a fair link, with memory and no silence of ten seconds, every transfer of
\* a well-formed clip is reported verified: no loss, duplicate or overwritten
\* reply leaves both sides waiting for each other.
Completes ==
    \A s \in Sessions :
        (session = s /\ phase = "begin") ~> (s \in sent \/ session # s)
=============================================================================
