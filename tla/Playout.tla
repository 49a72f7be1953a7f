------------------------------ MODULE Playout ------------------------------
(***************************************************************************)
(* Live sound from the microphone board to the speaker board               *)
(* (mictospeaker_test/src/main.cpp): blocks of 20 ms are captured,          *)
(* numbered, sent unacknowledged by the application, queued by the Wi-Fi    *)
(* callback with the oldest dropped when full, and played by loop() with    *)
(* prebuffering, stale rejection and concealment of short gaps.             *)
(*                                                                          *)
(* The queue is shared: the callback and loop() are cut between any two     *)
(* FreeRTOS queue calls.  Both boards work at the pace of their I2S clocks, *)
(* one block each per period; what is still unfinished when a period ends   *)
(* is a disturbance, and so is each loss, duplicate, error, restart,        *)
(* foreign packet, command and block one clock gains on the other.          *)
(* Disturbances are bounded.                                                *)
(***************************************************************************)
EXTENDS Integers, Sequences

CONSTANTS
    Capacity,       \* queueCapacity
    Prebuffer,      \* prebufferPackets
    Range,          \* sequence numbers wrap at Range (2^32 in the code)
    Expiry,         \* periods in two seconds of silence
    MicDepth,       \* blocks in the microphone's DMA buffers
    Modes,          \* the commands typed: "live", "tone", "silence", "muted"
    Steady,         \* a block arrives before loop() looks, unless disturbed
    Disturbances    \* bound

ASSUME PlayoutConstants ==
    /\ Capacity \in Nat \ {0} /\ Prebuffer \in 1..Capacity
    /\ Range \in Nat \ {0} /\ Range % 2 = 0
    /\ Expiry \in Nat \ {0} /\ MicDepth \in Nat \ {0}
    /\ Modes \subseteq {"live", "tone", "silence", "muted"} /\ Disturbances \in Nat
    /\ Steady \in BOOLEAN

VARIABLES
    mic, held, sendReady, session, sequence,        \* the microphone board
    air,                                            \* the packet the radio works on
    cb_pc, cb_packet, receivedQueue,                \* the speaker board: Wi-Fi callback
    loop_pc, attempt, missing,                      \* processAudio
    outputMode, playing, havePending, pendingAudio, haveTimeline, gapBlocks,
    haveSource, active, age,                        \* active: mac, session, lastSequence
    sound,                                          \* what the period's block is
    heard,                                          \* history: last block played (see Accept)
    disturbed                                       \* disturbances so far

txVars == <<mic, held, sendReady, session, sequence>>
cbVars == <<cb_pc, cb_packet>>
streamVars == <<haveSource, active, age>>
timelineVars == <<playing, havePending, pendingAudio, haveTimeline, gapBlocks>>
outVars == <<sound, heard>>
loopVars == <<loop_pc, attempt, missing, outputMode, timelineVars, streamVars, outVars>>
vars == <<txVars, air, cbVars, receivedQueue, loopVars, disturbed>>

Macs == {"microphone", "other"}
Packet(mac, s, n) == [mac |-> mac, session |-> s, sequence |-> n]
NoPacket == Packet("none", 0, 0)
Packets == {Packet(mac, s, n) : mac \in Macs, s \in 1..Disturbances + 1, n \in 0..Range - 1}

Distance(n, previous) == (n - previous) % Range

\* Mutant: the same number again is newer.
IsNewerOrSame(n, previous) == Distance(n, previous) \in 0..(Range \div 2 - 1)

\* Wrap-aware: distances below half the range are newer.
IsNewer(n, previous) == Distance(n, previous) \in 1..(Range \div 2 - 1)

ConcealmentBlocks(lost, queued) ==
    LET headroom == IF queued < Capacity THEN Capacity - queued ELSE 0
    IN IF lost < headroom THEN lost ELSE headroom

Undisturbed == UNCHANGED disturbed
Disturb == disturbed < Disturbances /\ disturbed' = disturbed + 1
AtCost(trouble) == IF trouble THEN Disturb ELSE Undisturbed

Init ==
    /\ mic = 0 /\ held = NoPacket /\ sendReady = TRUE /\ session = 1 /\ sequence = 0
    /\ air = NoPacket /\ cb_pc = "idle" /\ cb_packet = NoPacket /\ receivedQueue = <<>>
    /\ loop_pc = "command" /\ attempt = 0 /\ missing = 0
    /\ outputMode = "live" /\ playing = FALSE /\ havePending = FALSE
    /\ pendingAudio = NoPacket /\ haveTimeline = FALSE /\ gapBlocks = 0
    /\ haveSource = FALSE /\ active = NoPacket /\ age = 0
    /\ sound = "fade" /\ heard = NoPacket /\ disturbed = 0

-----------------------------------------------------------------------------
(* The microphone board.                                                    *)

\* A block read from DMA takes a number even if the read failed.
Capture(failed) ==
    /\ mic > 0 /\ held = NoPacket
    /\ mic' = mic - 1 /\ sequence' = (sequence + 1) % Range
    /\ held' = IF failed THEN NoPacket ELSE Packet("microphone", session, sequence)
    /\ AtCost(failed)
    /\ UNCHANGED <<sendReady, session, air, cbVars, receivedQueue, loopVars>>

\* esp_now_send; refused, the semaphore is given back.
SendBlock(refused) ==
    /\ held # NoPacket /\ sendReady
    /\ held' = NoPacket
    /\ sendReady' = refused /\ air' = IF refused THEN air ELSE held
    /\ AtCost(refused)
    /\ UNCHANGED <<mic, session, sequence, cbVars, receivedQueue, loopVars>>

\* The radio was busy for all of radio_send_wait_ms.
SkipBlock ==
    /\ held # NoPacket /\ ~sendReady
    /\ held' = NoPacket /\ Disturb
    /\ UNCHANGED <<mic, sendReady, session, sequence, air, cbVars, receivedQueue, loopVars>>

OnSent ==
    /\ ~sendReady /\ air = NoPacket
    /\ sendReady' = TRUE
    /\ UNCHANGED <<mic, held, session, sequence, air, cbVars, receivedQueue, loopVars, disturbed>>

\* The board starts again with a new random session and forgets what it sent.
Restart ==
    /\ Disturb
    /\ mic' = 0 /\ held' = NoPacket /\ sendReady' = TRUE /\ air' = NoPacket
    /\ session' = session + 1 /\ sequence' = 0
    /\ UNCHANGED <<cbVars, receivedQueue, loopVars>>

Lose ==
    /\ air # NoPacket /\ Disturb
    /\ air' = NoPacket
    /\ UNCHANGED <<txVars, cbVars, receivedQueue, loopVars>>

-----------------------------------------------------------------------------
(* onReceived: one queue call at a time, never waiting.                     *)

Offer(packet) ==
    /\ cb_pc = "idle"
    /\ IF Len(receivedQueue) < Capacity
       THEN receivedQueue' = Append(receivedQueue, packet) /\ UNCHANGED cbVars
       ELSE cb_pc' = "evict" /\ cb_packet' = packet /\ UNCHANGED receivedQueue

OnReceived(again) ==
    /\ air # NoPacket /\ Offer(air)
    /\ air' = IF again THEN air ELSE NoPacket
    /\ AtCost(again)
    /\ UNCHANGED <<txVars, loopVars>>

\* A second microphone board is heard too: transmitterMac accepts any.
OnForeign ==
    /\ Offer(Packet("other", 1, 0)) /\ Disturb
    /\ UNCHANGED <<txVars, air, loopVars>>

Evict ==
    /\ cb_pc = "evict"
    /\ receivedQueue' = IF receivedQueue = <<>> THEN <<>> ELSE Tail(receivedQueue)
    /\ cb_pc' = "again"
    /\ UNCHANGED <<cb_packet, txVars, air, loopVars, disturbed>>

OfferAgain ==
    /\ cb_pc = "again"
    /\ receivedQueue' = IF Len(receivedQueue) < Capacity THEN Append(receivedQueue, cb_packet)
                        ELSE receivedQueue
    /\ cb_pc' = "idle" /\ cb_packet' = NoPacket
    /\ UNCHANGED <<txVars, air, loopVars, disturbed>>

-----------------------------------------------------------------------------
(* processAudio on the speaker board.                                       *)

\* The period's block has gone all the way into the queue.
Settled == mic = 0 /\ held = NoPacket /\ air = NoPacket /\ sendReady /\ cb_pc = "idle"

LoopOnly == UNCHANGED <<txVars, air, cbVars>>

\* A serial command, also 'a' while live, drops the queue and the stream.
Command(mode) ==
    /\ loop_pc = "command" /\ Disturb
    /\ outputMode' = mode
    /\ playing' = FALSE /\ havePending' = FALSE /\ pendingAudio' = NoPacket
    /\ haveSource' = FALSE /\ active' = NoPacket /\ haveTimeline' = FALSE /\ gapBlocks' = 0
    /\ receivedQueue' = <<>>
    /\ heard' = NoPacket
    /\ UNCHANGED <<loop_pc, attempt, missing, age, sound>> /\ LoopOnly

\* Muted, tone and silence: the queue is kept empty.
LocalOutput ==
    /\ loop_pc = "command" /\ outputMode # "live"
    /\ receivedQueue' = <<>>
    /\ sound' = outputMode /\ loop_pc' = "write"
    /\ UNCHANGED <<attempt, missing, outputMode, timelineVars, streamVars, heard, disturbed>>
    /\ LoopOnly

StartLive ==
    /\ loop_pc = "command" /\ outputMode = "live" /\ AtCost(Steady /\ ~Settled)
    /\ playing' = (playing \/ Len(receivedQueue) >= Prebuffer)
    /\ loop_pc' = IF playing' /\ ~havePending THEN "take" ELSE "output"
    /\ attempt' = 0
    /\ UNCHANGED <<receivedQueue, missing, outputMode, havePending, pendingAudio, haveTimeline,
                   gapBlocks, streamVars, outVars>>
    /\ LoopOnly

MayTake == loop_pc = "take" /\ attempt < Capacity /\ receivedQueue # <<>>
TakeHead ==
    /\ receivedQueue' = Tail(receivedQueue) /\ attempt' = attempt + 1
    /\ UNCHANGED <<outputMode, playing, haveTimeline, sound, disturbed>> /\ LoopOnly

\* Mutant: a source that went silent is kept.
ExpiredNever == ~haveSource

Expired == ~haveSource \/ age > Expiry
Foreign(packet) == ~Expired /\ packet.mac # active.mac
NewStream(packet) == Expired \/ packet.session # active.session
Continues(packet) == ~Foreign(packet) /\ ~NewStream(packet)

TakeRejected ==
    /\ MayTake
    /\ LET packet == Head(receivedQueue)
       IN \/ Foreign(packet)
          \/ Continues(packet) /\ ~IsNewer(packet.sequence, active.sequence)
    /\ TakeHead
    /\ UNCHANGED <<loop_pc, missing, havePending, pendingAudio, gapBlocks, streamVars, heard>>

\* The history forgets what was heard when nothing was taken for two seconds, by the
\* clock alone, whatever made the loop accept this packet.
Accept(packet) ==
    /\ haveSource' = TRUE /\ active' = packet /\ age' = 0
    /\ havePending' = TRUE /\ pendingAudio' = packet
    /\ heard' = IF age > Expiry THEN NoPacket ELSE heard

TakeNewStream ==
    /\ MayTake
    /\ LET packet == Head(receivedQueue)
       IN ~Foreign(packet) /\ NewStream(packet) /\ Accept(packet)
    /\ gapBlocks' = 0 /\ loop_pc' = "output"
    /\ TakeHead /\ UNCHANGED missing

\* With a timeline the gap is measured against the queue in a call of its own.
TakeNext ==
    /\ MayTake
    /\ LET packet == Head(receivedQueue)
       IN /\ Continues(packet) /\ IsNewer(packet.sequence, active.sequence)
          /\ missing' = IF haveTimeline THEN Distance(packet.sequence, active.sequence) - 1 ELSE 0
          /\ Accept(packet)
    /\ loop_pc' = IF haveTimeline THEN "conceal" ELSE "output"
    /\ TakeHead /\ UNCHANGED gapBlocks

Conceal ==
    /\ loop_pc = "conceal"
    /\ gapBlocks' = ConcealmentBlocks(missing, Len(receivedQueue))
    /\ missing' = 0 /\ loop_pc' = "output"
    /\ UNCHANGED <<receivedQueue, attempt, outputMode, playing, havePending, pendingAudio,
                   haveTimeline, streamVars, outVars, disturbed>>
    /\ LoopOnly

\* Starved: silence, and prebuffering again.
Underrun ==
    /\ loop_pc = "take" /\ (attempt = Capacity \/ receivedQueue = <<>>)
    /\ playing' = FALSE /\ haveTimeline' = FALSE /\ loop_pc' = "output"
    /\ UNCHANGED <<receivedQueue, attempt, missing, outputMode, havePending, pendingAudio,
                   gapBlocks, streamVars, outVars, disturbed>>
    /\ LoopOnly

PlayBlock ==
    /\ loop_pc = "output" /\ havePending /\ gapBlocks = 0
    /\ havePending' = FALSE /\ haveTimeline' = TRUE
    /\ sound' = "block" /\ heard' = pendingAudio /\ pendingAudio' = NoPacket
    /\ loop_pc' = "write"
    /\ UNCHANGED <<receivedQueue, attempt, missing, outputMode, playing, gapBlocks, streamVars,
                   disturbed>>
    /\ LoopOnly

PlayFade ==
    /\ loop_pc = "output" /\ ~(havePending /\ gapBlocks = 0)
    /\ gapBlocks' = IF gapBlocks > 0 THEN gapBlocks - 1 ELSE 0
    /\ sound' = "fade" /\ loop_pc' = "write"
    /\ UNCHANGED <<receivedQueue, attempt, missing, outputMode, playing, havePending, pendingAudio,
                   haveTimeline, streamVars, heard, disturbed>>
    /\ LoopOnly

-----------------------------------------------------------------------------

\* A failed speaker write stops the board for good; its callback goes on.
SpeakerFails ==
    /\ loop_pc = "write" /\ outputMode # "muted" /\ Disturb
    /\ loop_pc' = "stopped"
    /\ UNCHANGED <<txVars, air, cbVars, receivedQueue, attempt, missing, outputMode, timelineVars,
                   streamVars, outVars>>

\* i2s_write (muted: a delay) and i2s_read block for one period.  The crystals differ: now and then
\* the microphone gains or loses a block on the speaker.  A full microphone DMA
\* drops a block that never had a number.
PeriodEnds(captured) ==
    /\ loop_pc \in {"write", "stopped"} /\ AtCost(~Settled \/ captured # 1)
    /\ loop_pc' = IF loop_pc = "write" THEN "command" ELSE "stopped"
    /\ attempt' = 0
    /\ mic' = IF mic + captured <= MicDepth THEN mic + captured ELSE MicDepth
    /\ age' = IF age <= Expiry THEN age + 1 ELSE age
    /\ UNCHANGED <<held, sendReady, session, sequence, air, cbVars, receivedQueue, missing,
                   outputMode, timelineVars, haveSource, active, outVars>>

Microphone ==
    \/ \E failed \in BOOLEAN : Capture(failed)
    \/ \E refused \in BOOLEAN : SendBlock(refused)
    \/ SkipBlock \/ OnSent
Radio == \E again \in BOOLEAN : OnReceived(again)
Callback == Evict \/ OfferAgain
Loop ==
    \/ LocalOutput \/ StartLive \/ TakeRejected \/ TakeNewStream \/ TakeNext \/ Conceal
    \/ Underrun \/ PlayBlock \/ PlayFade \/ \E captured \in 0..2 : PeriodEnds(captured)
Outside ==
    \/ Restart \/ Lose \/ OnForeign \/ SpeakerFails
    \/ \E mode \in Modes : Command(mode)

Next == Microphone \/ Radio \/ Callback \/ Loop \/ Outside

\* Tasks, the radio and both clocks keep going; nothing forces a disturbance.
Spec ==
    /\ Init /\ [][Next]_vars
    /\ WF_vars(Microphone) /\ WF_vars(OnSent) /\ WF_vars(Radio) /\ WF_vars(Callback)
    /\ WF_vars(Loop)

-----------------------------------------------------------------------------

\* The type invariant of both boards; a gap is only ever kept with the block
\* that ends it, and the queue never outgrows its capacity.
TypeOK ==
    /\ mic \in 0..MicDepth /\ sendReady \in BOOLEAN /\ session \in 1..Disturbances + 1
    /\ {held, air, cb_packet, pendingAudio, active, heard} \subseteq Packets \cup {NoPacket}
    /\ sequence \in 0..Range - 1 /\ disturbed \in 0..Disturbances
    /\ Len(receivedQueue) <= Capacity
    /\ cb_pc \in {"idle", "evict", "again"}
    /\ loop_pc \in {"command", "take", "conceal", "output", "write", "stopped"}
    /\ {playing, havePending, haveTimeline, haveSource} \subseteq BOOLEAN
    /\ attempt \in 0..Capacity /\ missing \in 0..Range - 1 /\ age \in 0..Expiry + 1
    /\ gapBlocks \in 0..Capacity /\ (gapBlocks > 0 => havePending)
    /\ sound \in {"block", "fade", "tone", "silence", "muted"}

\* Unless a command came, or no block was taken for more than two seconds, since the
\* block heard last: the next one is from the same board and, in the same session of
\* it, newer.  So the sound never repeats and never goes back across duplicates,
\* dropped packets, underruns and wrapped numbers (README.md:256: "rejects
\* duplicate/out-of-order sequence numbers").  After two seconds main.cpp:324-326
\* takes whatever comes for a new stream, also a block of the same session that was
\* played before: nothing is promised of that step, and of the next ones again.
NeverBackwards ==
    havePending /\ heard # NoPacket =>
        /\ pendingAudio.mac = heard.mac
        /\ pendingAudio.session = heard.session =>
               Distance(pendingAudio.sequence, heard.sequence) \in 1..(Range \div 2 - 1)

\* Live sound comes back after every outage, however many numbers were lost or
\* wrapped meanwhile, unless the speaker itself failed.
Recovers == <>[](outputMode = "live" /\ loop_pc # "stopped") => []<>(sound = "block")

\* audio_playout.h:42: "Avoid padding overflows and causing a self-sustaining
\* backlog of dropped packets followed by more padding."  Once nothing is lost or
\* late any more, packets stop being dropped.
PaddingSettles == <>(loop_pc = "stopped") \/ <>[](cb_pc # "evict")
=============================================================================
