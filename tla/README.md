# esp32_tests in TLA+

`esp32_tests` is a collection of ESP32-S3 bench projects: buttons, LoRa, ESP-NOW,
codecs, an ESP-NOW voice link, and a family of LCD video players. The richest of
them, and the one with real concurrency, is
`button_lcd_test/wireless_stream`: one board reads an H.264/AAC clip from SD and
streams it over ESP-NOW; the other keeps it in PSRAM, plays it while it arrives,
and confirms it only after checking all of it. This directory models that system
first, then the other programs with a protocol, a clock or a failure to survive: the
older stop-and-wait player `wireless_av` and its looping player, the local LCD player,
the SD card tests `espnow_sd_test` and `codec_sdtest` on the library they share, the
voice link `mictospeaker_test` with its coder and its two bench tools, the LoRa pair,
and the button filter that all of them contain.

## 1. Inventory

### wireless_stream (`src/button_lcd_test/wireless_stream`)

| part | state | operations | talks to |
|---|---|---|---|
| send window (`include/wire_protocol.h`) | `acknowledged`, `next`, `high_water`, `total`, `packets` | `count`, `sent`, `ack`, `retry` | the sender's worker |
| radio transfer (`src/radio_transfer.cpp`) | per board: received-packet queue, `sending`, `active`; sender: command queue, `phase`, `session`, window; receiver: `rx_*`, one pending `reply` | callbacks `on_send`, `on_receive`; worker: `process_request`, `process_reply`, `process_commands`, `sender_tick`, `receiver_tick`; main loop: `start_send`, `tick` | the peer over ESP-NOW; the main loop through `player_request` and `lifecycle_done` |
| receiver memory (`src/ram_clip.cpp`) | the PSRAM block, its capacity, published bytes and records, the validator | `begin`, `append`, `finish`, `clear`, `next`, `available_samples`, `complete` | written by the radio worker, read by main loop and audio worker |
| player (`src/player.cpp`) | `playing`, `armed`, `autoplay`, `paused`, `buffering`, `stopping`, `audio_ended`, `audio_failed`, the played-sample clock, the `done` semaphore, the pending picture | `play`, `stop`, `arm`, `toggle_pause`, `tick`; task `audio_worker` | receiver memory, I2S, LCD |
| main loop (`src/main.cpp`) | serial line buffer, button filter | `setup`, `loop`, `run_command`, `poll_button` | all of the above |
| stream validator (`include/stream_format.h`) | header and record parser fed fragments | `advance`, `buffered_samples` | receiver memory |
| storage (`src/storage.cpp`) | SD card with clip and staging file | `receive_usb`, `load`, `verify_hash` | main loop, sender's worker |

A board runs four flows of control: the Wi-Fi task's callbacks (core 0, highest
priority), the radio worker (core 0, priority 5), the audio worker (core 0,
priority 4; exists only during playback) and the Arduino main loop (core 1).
They share atomics and FreeRTOS queues; the main loop alone owns the clip's
memory, so the radio worker hands it `begin` and `clear` requests and blocks
until they are answered.

What is hard here, and what makes each part correct:

* *send window*: unsigned subtraction of cursors after rewinds and late
  acknowledgements; it must stay within the clip and its bound, on packet
  boundaries, and never be unable to go on.
* *transfer*: loss, duplicates, full queues, leftovers of earlier sessions,
  resets, one overwritable reply slot; "verified" must be true on both boards,
  the memory must hold exactly what was offered, every transfer must end and
  release the boards, and on a decent link end well.
* *receiver memory and player*: three tasks, no locks; the clip must not be freed
  under a reader, no reader may pass what is published, pictures must come once
  and in order, sound must be heard to its end, and a starved or paused player
  must neither block the radio nor hang in `stop`.
* *handshake*: flag plus binary semaphore; a lost or doubled answer stops a board.

### wireless_av (`src/button_lcd_test/wireless_av`)

| part | state | operations | talks to |
|---|---|---|---|
| upload (`src/storage.cpp`, `tools/send_clip.py`) | the clip and the staging file `.part` on the sender's card | `receive_usb`, `verify_hash`, `rename_verified` | host over USB; started by the main loop |
| transfer (`src/radio_transfer.cpp`) | sender: one `pending` packet, attempts, offset; receiver: session, CRC, offset, last packet, staging file, `reuse_existing` | `start_send`, `tick`, `process_reply`, `process_request`, `reject`, `take_completed_receive` | peer over ESP-NOW, both cards |
| main loop (`src/main.cpp`) | the line buffer, the button | `loop`, `run_command`, `poll_button` | all of these |
| player (`src/player.cpp`) | open file, its position, the picture and cycle last drawn; shared with task `audio_worker`: `stopping`, `paused`, `audio_failed`, `presented_samples`, the semaphore, the sound in PSRAM | `play`, `stop`, `toggle_pause`, `tick`; `audio_worker` | card, I2S, LCD |

The transfer is single-threaded apart from two Wi-Fi callbacks. Hard there: what a power
cut leaves on a card between write, close, check and rename; a CRC check that takes longer
than the sender's patience; an error reply that is dropped when the radio is busy;
duplicates recognised only by comparison with the last packet. Right means: only
whole, checked clips ever have the clip's name, a clip that is there is never
replaced, what either side reports is true of the cards, and both come to rest.

The player is two tasks: the worker loops the sound and publishes a clock of what it
submitted less what the DMA buffers may hold; the main loop reads pictures by that clock
from a file that it rewinds. Hard: stop against a worker that is paused, blocked in the
driver or already gone; the sound freed too early; the clock ahead of what is heard; file
position, frame count and loop number falling out of step. Right means: stop returns, the
worker outlives nothing it uses, no picture comes before its sound, twice, or backwards.

### Local LCD player (`src/button_lcd_test/src`)

| part | state | operations |
|---|---|---|
| playback (`main.cpp`) | open file, picture, `next_frame_us`, pause, counters | `play_video`, `update_video`, `toggle_pause`, `stop_video` |
| upload (`main.cpp`) | video and staging file on the card | `receive_video`, `run_command` |

One loop. Hard: a schedule in a 32-bit microsecond counter that wraps every 72 minutes,
with skips, pauses and slow turns; an upload cut anywhere. Right means: each picture is drawn
in its own period, and only a verified upload ever becomes the video, once.

### Button filter (`src/button_test`, `poll_button` of the three players)

State: the last sample, the accepted level, the time of the last change. Hard: bounces, a
slow turn and the wrap of the counter may meet. Right means: an edge is accepted in the very
turn in which the samples have been the same for the wait, and in no other.

### SD card tests (`src/espnow_sd_test`, `src/codec_sdtest`)

| part | state | operations |
|---|---|---|
| card library (`src/sd_card.cpp`, the same file in both) | the mount, `g_open_files`, handles, files | mount, unmount, mkdir, open (read, create new), read, write, size, close |
| file test (`espnow_sd_test/src/main.cpp`) | sender: pending packet, attempts, verdict; receiver: session, file, CRC, last packet | `on_receive`, `process_request`, `verify_received`, `acknowledge`, `advance_sender` |
| codec test (`codec_sdtest/src/codec_test.cpp`, `main.cpp`) | file, duplicate handle, codec, verdict | one task: prepare, encode, reopen, compare, decode, clean up, prompt |

Hard here: any call may fail in the middle of a test, and the test must still give
back its handle, come to a verdict, and never say PASS of a file that is not there.

### Voice link (`src/mictospeaker_test`)

| part | state | operations |
|---|---|---|
| microphone board (`src/main.cpp`) | DMA blocks, session, sequence, one send slot | capture, send, `onSent` |
| Wi-Fi callback (`src/main.cpp`) | the queue of received blocks, oldest dropped when full | `onReceived` |
| speaker loop (`src/main.cpp`, `include/audio_playout.h`, `audio_packet.h`) | pending block, timeline, gap, source, mode | `processAudio`, commands, prebuffering, concealment |

Hard here: the callback works on the queue between any two calls of the loop; two
crystals drift apart; sequence numbers wrap and restart; concealing a gap takes
time in which the queue fills.

| coder (`include/audio_adpcm.h`, `audio_packet.h`) | predictor and step index, also in every packet | `encode`, `decode` |
| capture tool (`mic_capture/src/main.cpp`, `scripts/record.py`) | board: capture buffer, rate, driver events; script: digest, data, saved file | warm-up, capture, send; request, verify, save |
| MP3 player (`sd_file_player/src/main.cpp`, `scripts/send_mp3.py`) | board: track and `.part` on the card, upload, playback; script: bytes acknowledged | `BEGIN`, chunks, `PLAY`, `STOP`; upload and wait |

Hard in the tools: a script is stopped and another one started while the board still acts
on, or answers, what the first one sent; the driver's report of lost samples is itself an
event in a queue that drops its oldest. Hard in the coder: any packet may be lost, and the
next must decode as if it had not been.

### LoRa pair (`src/lora_test`)

| part | state | operations |
|---|---|---|
| A | session, sequence, counters | `ping`: send, listen, compare, time out |
| B | the packet heard | `respond`: listen, answer |

Each board's chip takes no packet longer than its length field, which every transmission
overwrites. Hard: late answers, answers from an earlier boot, the sequence growing by a
digit, a side that never comes back to listening.

### The other projects

* `codec_test`: the codec part of `codec_sdtest` without a card; one straight line.
* `espnow_test`: two boards that count each other's heartbeats one way and print.
* Vendored codecs, generated image tables, Python conversion tools: not candidates.

## 2. Modules

| module | models | extends / uses |
|---|---|---|
| `WireProtocol` | `send_window` as pure operators on a record | Integers |
| `SendWindow` | the window alone against any caller that respects `sender_tick` and `process_reply` | `WireProtocol` |
| `StreamFormat` | the stream validator as pure operators, and the definition of a well-formed clip it is compared with | |
| `VerifiedTransfer` | the promise: clips are offered, stored by prefixes, verified when whole and well-formed, reported when verified | |
| `RadioTransfer` | both boards of `wireless_stream`, the link and the resets; composes window and validator | `WireProtocol`, `StreamFormat`; implements `VerifiedTransfer` |
| `Player` | the receiver's main loop, audio worker and an abstract radio worker around the clip | |
| `AvTransfer` | `wireless_av`: host, both boards, both cards, resets | implements `VerifiedTransfer` |
| `AvPlayer` | `wireless_av`'s player: main loop, audio worker, DMA buffers, the file | Integers |
| `WrappingClock` | `millis()` and `micros()`: counters that wrap, and the differences taken of them | Integers |
| `Debounce` | the button filter | `WrappingClock` |
| `LocalVideo` | the local LCD player, its upload and its card | `WrappingClock` |
| `SdCard` | the card library, one operator per function and status | |
| `FileTest`, `CodecSdTest` | the two programs on it | `SdCard` |
| `SdBench` | a board flashed with either program: the library under both its callers, resets | `FileTest`, `CodecSdTest` |
| `Playout` | both boards of the voice link, radio and clocks | |
| `Adpcm` | the voice link's coder and the packets it fills | Sequences |
| `FilePlayer`, `MicCapture` | the two bench tools: board, serial port, script | Sequences |
| `LoraTest` | the two LoRa boards, their chips and the air | Integers |
| `Parts` | the parts that share nothing, one of them chosen per behavior | `SendWindow`, `Debounce`, `AvPlayer`, `LocalVideo`, `LoraTest`, `Adpcm`, `FilePlayer`, `MicCapture` |
| `WireProtocolProofs` | lemmas about the window's operators | TLAPS |
| `RadioTransferProofs` | the validator for streams of any length, theorems of the transfer and its refinement | TLAPS |
| `PartsProofs` | theorems of each part of `Parts` except the looping player, whose it takes from `AvPlayerProofs` | TLAPS |
| `SdBenchProofs` | the card library under both programs, theorems of both | TLAPS |
| `PlayerProofs` | lemmas about cursors and counts, theorems of the player | TLAPS |
| `PlayoutProofs` | types and order of what is heard | TLAPS |
| `AvPlayerProofs` | arithmetic of the loop, theorems of the looping player | TLAPS |
| `AvTransferProofs` | lemmas about files, packets and queues, theorems of the transfer to the card and its refinement | TLAPS |
| `MC*` | small instances; `MCStreamFormat` also holds the comparison of the validator with its definition | |

### How the models correspond to the code

`WireProtocol`: one operator per method of `send_window`; the record has its
fields. `SendWindow` adds the caller: `Send` is one packet of `sender_tick`,
`Receive` an acknowledgement of *any* offset, `GoBack` the retry timer.

`RadioTransfer`: variables have the names of the file-level variables. One
action is one packet of a worker's drain loop, one tick, one command, one
callback or one step of a main loop. Interleaving packets and ticks freely is
more than the code does (it drains up to a burst before ticking). `reply` is the
single slot: a set with at most one element. `CallMainLoop` is the first half of
`service_player`; `rx_pc` says what the worker waits for; `MainLoopBegin` and
`MainLoopClear` are `radio_transfer::tick` with the calls to `ram_clip`;
`BeginAnswered` and `RejectAnswered` are the second half. The history variables
`offered`, `stored`, `verified`, `sent` record what the console logs and what
arrived; no action's guard reads them, except for numbering sessions and the
bound on them.

Abstractions: the CRC32 is ideal, so the CRC of a clip is the clip; a byte is
named by its clip and place; a session number from `esp_random` is fresh; the
offset of an error answer is 0 (nobody reads it); a millisecond timer may expire
at any tick, and the ten-second timers are flags (`tx_stale`, `rx_stale`) that
`SenderSilence`/`ReceiverSilence` raise and progress lowers. A rate command would
behave as the window command does.

`StreamFormat`: a stream is what the validator meets by following the sizes in it:
the header's fields, the records, the number of bytes. `advance` takes and returns
the validator's state; `ReadRecord` is one turn of its loop, with the checks in the
code's order (head before payload). `accepted` is FALSE once `advance` has returned
false. Magic numbers, field bits, CRCs and the marks of a payload are right or wrong
(`marked`, `intact`). `RadioTransfer` calls `advance` after every packet it copies
into memory (`ParserAfter`), as `ram_clip::append` does; so a clip with a byte too
many or a record missing is refused when its last byte arrives
(`stream_format.h:186`), before any finish packet.

`Player`: `main_pc` walks through `loop()`: poll one console command, the
radio handshake, the tick with its loop over due pictures. `stop` is split in
two: `StopFor` raises `stopping`, `Join` waits for `done`; what was to follow is
`job`. The audio worker's accesses to shared memory are separate steps
(`AudioFetches` reads `next`, `AudioChecks` reads `complete`), as are those of
`tick`; the radio worker publishes the clip's bytes and the horizon in separate
steps and finishes it. Sound is counted in blocks: `QueuedBlocks` is what the DMA
still holds, so the clock lags what was submitted until the drain at the end.
Console failures are what the LCD shows (`screen`). Clips are told apart by a
generation modulo 2. Not represented: pixels, PCM values, LCD refresh, and the
status prints.

`AvTransfer`: a file is a sequence of bytes named by clip and place, or `Stray` for
a byte the card mangled; a card's clip is a set of at most one file. `Put*` are the
steps of an upload: `PutReady` creates the staging file, `PutChunk` writes and
answers one chunk, `PutVerified` closes, checks and renames, `PutBroken` is every
way it ends early, a power cut is `SenderReset`; `wireless_stream` has the same upload
with other names and another smallest size. On the receiver one action is one
branch of `process_request` with the reply it sends; the reply is lost when the
radio is busy (`accepted` FALSE), as in the code. `Checked` is the CRC over the file
on the card, not over what arrived. A reset keeps any prefix of a file that was
open. The player is reduced to whether it holds the file; what it does with it is `AvPlayer`.

`SdCard`: each operator relates the state before and after a call to the status it
returns, so every error path of the callers is one disjunct per status. `files`
survives resets; a reset keeps any prefix of what an open writer wrote. Each
call of the codec test is an action of its own (`codec_pc`), as is each of the
receiver's calls in the file test (`rx_pc`), so a reset can come between any two. In `SdBench` the firmware is chosen in `Init` and the other program stands
still.

`Playout`: every FreeRTOS queue call of the callback (`Offer`, `Evict`,
`OfferAgain`) and of the loop (`TakeHead` in each `Take*`) is a step of its own.
`PeriodEnds` is `i2s_write` or `i2s_read` blocking for one block; `captured` # 1 is
the drift of the crystals. Losses, duplicates, foreign packets, errors, commands, a
restart and unfinished work at the end of a period each cost one of `Disturbances`.
Samples, ADPCM and fades are reduced to the kind of block played (`sound`); the two
seconds of silence are `Expiry` periods instead of a wrapping millisecond clock;
muted output is paced as a period. `heard`, the block played last, is history: a command
clears it, and so does taking a block after more than two seconds without one, judged by
`age` alone. Who the block is from and what `Expired` or `NewStream` said plays no part, so
the order is checked against what was played and not against the loop's own bookkeeping.

`AvPlayer`: one unit of time is one sample; `Hear` is the driver playing what its buffers
hold. The worker's loop is `WorkerChecks`, `WorkerWrites` (as much of a block as fits),
`WorkerPublishes`, and `WorkerFails`, `WorkerGives` at its end; every picture turn is one of
the `Tick*` actions, named for the branch. `StopFor` and `StopReturns` are the two halves of `stop`,
with what was to follow in `job`. A picture is its place: `shown` is loop and frame of the
last one drawn, `heard` how much was really played (both history).

`Debounce`, `LocalVideo`: the counters wrap at `Wrap`; every comparison is written with the
code's unsigned subtraction (`Elapsed`), and in `LocalVideo` its signed reading. Real time
is a history variable (`steady`, `held`, `late`), so the properties speak of time and the
code of counters. A turn of `loop()` takes any time up to `MaxGap`, or `TurnMax` and
`DecodeMax`.

`LoraTest`: one action is one way a call of the radio library returns. A token is boot,
digits of the random session and sequence, because what matters of its text is which ping
it belongs to and how long it is (`limit` is the chip's length field, external). `fresh` and `excused` are
history: what B answered last, and whether something other than the two programs disturbed
this ping.

`Adpcm`: samples, steps, codes and clamps are the real 16-bit numbers and the code's
integer operations; only the packing of two codes in a byte is left out. Any packet of
`wire` may be the next that arrives.

`FilePlayer`, `MicCapture`: board and script are two programs, each reading a line or a
run of bytes in order from its end of the port (`toBoard`, `toHost`; `toMic`, `toScript`).
The scripts are modelled as they are, since the boards' guarantees depend on the order in which they
wait. Timing comes in once: nobody starts a script before an idle board has read what the
last one sent (`HostBegins`, `ScriptBegins`). Without that, bytes of two scripts run
together in the board's line buffer and the claims do not hold; a human does not
type that fast. The MP3 and the recording are sequences of chunks or blocks that name
their content; a digest is the data itself. In `MicCapture` the driver keeps the newest
`EventDepth` events, and the board empties the queue after each block it reads.

`Parts` adds nothing to these modules. Each keeps its own specification; the choice only
saves a run per part, and its fairness is theirs, restricted to the program that runs.

## 3. Runs

| run | instance | shows |
|---|---|---|
| `parts_alone` | one part per behavior, with the instances below | every part's types; window bounds; exact edges; pictures never ahead, in order, on schedule; stop returns; videos preserved; true round trips, excused time-outs, recovery; packets that stand alone; scripts that tell the truth |
| `radio_resets` | 2 sessions, 1 reset of either board, loss; a good clip and one whose picture is missing although every byte is there, 2 packets each, the good one cut inside a record's head | memory and parser hold exactly the offer, "verified" is true on both boards; implements `VerifiedTransfer` |
| `radio_window` | 1 session, 3 packets, the first cut between a record's head and payload, windows 2 and 1, loss, duplicates, late send callbacks, 1 reset; a good clip and one with a byte too many | busy flags true, only faults make the receiver reject |
| `radio_settles` | 2 sessions, timeouts, queue of 1, allocation may fail, total loss possible | types; what is acknowledged was stored; handshake in step; every transfer ends |
| `radio_completes` | 1 session, fair link; also evaluates `MCStreamFormat` | a good clip is always reported verified |
| `player_safety` | 2 pictures, 4 sound blocks, all commands, all faults | clip outlives its readers, reader bounds, picture order, sound to the end |
| `player_liveness` | the same clip, pause and resume, a DMA that holds almost all of it | stop returns, radio is served, playback reaches the end (so buffering ends) |
| `player_starvation` | no commands, no faults | counterexample, see section 5 |
| `av_transfer` | upload of one clip, 2 sessions, 1 reset, 2 packets, 2 attempts, every fault, cards that may hold another or a too short clip | file names, staging, no replacement, both sides end; implements `VerifiedTransfer` |
| `sd_bench` | every card and codec fault, 2 sessions or tests, 2 frames, 2 resets, duplicates | types; PASS is true, handle count, earlier files, every test ends |
| `playout` | queue 3, prebuffer 2, numbers modulo 6, 3 disturbances | no block twice or backwards while blocks are taken every two seconds, sound comes back |
| `playout_padding` | queue 5, prebuffer 3, numbers modulo 8, 3 disturbances, on-time link | counterexample, see section 5 |

The instances of `parts_alone`:

| part | instance |
|---|---|
| `SendWindow` | payload 3, clips of 1..11 bytes with every tail, windows 1, 2, 3, 5, acknowledgements 0..12 |
| `Debounce` | a counter of 14 values, wait 3, turns of up to 4, two presses; a button held at the start does not count |
| `AvPlayer` | 3 pictures at 2 a second, 5 samples a second (a loop of 8 samples, which blocks of 3 and pictures of 2 1/2 do not divide), buffers of 6, two and a half loops, every command and fault |
| `LocalVideo` | the same counter, period 3, turns of up to 2, decoding of up to 4, 3 pictures, 2 clips, every fault |
| `LoraTest` | sequence modulo 4, the second digit from 2 on, sessions of one or two digits, 2 boots, 2 disturbances |
| `Adpcm` | the real 16-bit numbers, blocks of 2 samples from one end of the range to the other, 5 packets |
| `FilePlayer` | 2 tracks of 2 chunks, 3 hosts, 1 mishap |
| `MicCapture` | 3 blocks after 1 of warm-up, 2 DMA blocks, 3 events, 2 rates, 2 scripts, 2 stalls, 1 trouble |

`MCStreamFormat` states three assumptions TLC evaluates before `radio_completes`.
Over every legal order of the records of a two-picture clip, and each such clip with
one field changed: one look at the whole file accepts exactly the well-formed ones
(`WholeVerdict`); wherever the file is cut, also inside a record's head, going on
from there gives the state one look would (`CutsDoNotMatter`); no record still to
come is earlier than what is said to be buffered (`HorizonIsThere`).

Why the bounds are enough. Two sessions are what it takes for an answer or
packet of one to meet another. Clips of two packets with a short tail have a full
packet, a partial one and every rewind between them; three packets with a window
of two also have a window that is full before the clip ends. A queue of one drops
on every burst, a queue of two also delivers bursts in order. `AirDepth` is how
many packets may be in flight after the send callback; ESP-NOW delivers in order,
so depth one already separates "done" from "arrived". `Copies` bounds duplicates:
the MAC layer repeats an unacknowledged frame, and two copies meet each check
once as new and once as old. `QueueCount`, `CommandDepth`, `MaxSessions` and
`MaxResets` are the named bounds; `CommandDepth` is 1 because the claim of the
`active` flag allows one start, and a window command fills the rest. In the player, two pictures with sound before, between
and after them give one hold in the middle of the clip and one at its end.

In `av_transfer` two attempts are one retry and one giving up, a clip of two packets
with a short tail has a full and a partial write, and the staging files of two
sessions meet on one card. In `sd_bench` two sessions or tests are one file to
preserve and one to write; two resets cut a test and its repetition. In `playout` a
queue of three has a full, a partly filled and an empty state above and below the
prebuffer, and six numbers make half the range three, so that losses wrap it;
three disturbances are a gap, a drift and one more. `playout_padding` has a queue
of five, which three disturbances fill; the real capacity of 6 shows the same cycle with
four, in longer time.

Of `parts_alone`: 14 counter values leave room for a wrap inside a wait, a period, a pause
and a decode, and twice the longest lateness still fits half of it, as it does on the
board. Two disturbances of the LoRa pair are a late answer that meets a loss. Two blocks
at opposite ends of the range drive the step to its largest in five packets. Three
hosts are one that leaves a playback running, one that meets its answers, and one that
meets those of both. The event queue has 32 entries on the board. A block that displaces another leaves two
reports, loss then data; one that fits leaves one, and between a read and the drain after it
only the one block just read makes room. So a report of loss is followed by at most two
of data before it is read: three events are the least for which the claim holds, and
with 2 TLC finds a recording with a gap that is saved.

Deadlock is checked except in three runs whose systems really stop: `parts_alone`
when all is acknowledged or coded or the scripts are used up, `av_transfer` and `sd_bench`
when the sessions and resets are used up and nothing is left to send.

### Fairness

* Both workers wake at least once a millisecond (`ulTaskNotifyTake` with a
  timeout), the main loops are Arduino `loop()`s and the audio worker is a
  FreeRTOS task: weak fairness of each.
* Ten silent seconds do pass: weak fairness of the two silence actions, which
  any progress disables by lowering its flag. `Settles` needs nothing of the link.
* `Completes` needs a link that, carrying the same packet again and again,
  delivers it into a queue with room. The queue has 96 entries and is drained well
  within the 30 ms between two retries of at most 64 packets.
  The condition is strong fairness per packet, stated as `LinkIsFair`.
* For the player, liveness additionally assumes that the transfer goes on
  (`TransferGoesOn`), which `radio_completes` provides.
* `AvTransfer`: the sender's and receiver's loops tick, the driver is done with every
  packet some day, thirty silent seconds pass. Nothing is assumed of the link, the
  cards or the host.
* `SdBench`: the sender's loop and the codec task keep running. Nothing is assumed of
  the link, the card or the console.
* `AvPlayer`: the second half of `stop`, the worker and the driver go on. Main-loop commands
  and pictures need no fairness for `StopEnds`.
* `LoraTest`: weak fairness of A's and B's own steps; strong fairness of B's listening while
  A is idle and of a ping being heard by a listening B, because two independent loops
  must overlap for a ping to arrive at all. Losses count as disturbances, of which there
  are finitely many.
* `Playout`: microphone task, radio, callback and loop keep going at the pace of
  their clocks; no disturbance is ever forced.

## 4. Proofs

Every invariant and action property of the runs is a theorem; the runs show it on a small
instance, the theorem for every value of the constants that the named assumptions
allow. One invariant per module carries its properties; TLC checked each on the module's
instance before it was proved.

The assumptions say what the code makes true: sizes, depths and windows are positive,
names are told apart (`PathsAreNames`, the names in `FilePlayerConstants`). Four say more.
`DebounceConstants` and `LocalVideo`'s ask that turns are shorter than a round of the
counter (below); `MicCaptureConstants` that the driver keeps at least three events (it
keeps 32); `AnswersComeInTime` that a LoRa answer is not held up until the sequence
numbers, 2^32 of them on the board, come round. `StreamType` says that a stream's records
are all a parser can meet by following the sizes.

**Induction.** The library's induction theorems cannot be used, since they take an operator. `Induct`
(a set that holds 0 and, with a number, the next, is all of 0..N) and `ByDescent` (a
loop whose measure falls) take a set instead and follow from well-foundedness.
`SettledExists` shows that a function defined by going on until nothing changes exists,
so that `ReadRecords` means what its loop says; `SumExists` does that for `EndOf`.

**The validator.** `RadioTransferProofs` begins with `StreamFormat` for streams of any
length and any sizes, the claims that `MCStreamFormat` evaluates for two pictures:

* `CutsAreUnseen`: going on after a cut leads to the state one look would have given.
  `CutLoop` splits the loop at the cut; `MoreIsSame` says that a turn that did something
  would do the same if more bytes were there.
* `VerdictIsRight`: one look at the whole accepts exactly the well-formed streams. `Sofar`
  says that what was read is well-formed up to there; a turn keeps it
  (`CountingKeepsSofar`), and in a well-formed stream no turn refuses (`SoundNeverRefused`).
* `HorizonIsRight`: what is still to come is not earlier than `buffered_samples`
  says, since each kind's counter stands at its next record and times grow with it.

**The transfer.** `Invariant` is `Spec => []IInv`, for any clips, windows, depths and
copies, with or without timeouts and failing memory, any number of sessions and
resets. `IInv` has seven parts:

* `SenderBusy` and `Handshake` hold what the flags mean: one start at a time and
  one question to the main loop at a time, with its answer. They give
  `BusyIsTruthful` and `HandshakeInStep`.
* `History`, `SenderInStep`, `ReceiverInStep`: the sender sends its latest offer and has
  acknowledged no more than was stored; the receiver's record is that of its session,
  and a session it holds verified was logged as such. They give `AcknowledgedWasStored`.
* `PacketsInStep`: what a packet says is true of the session it names, however late or often
  it comes (`Asked`, `Given`): a request names the offered clip or carries a piece of it,
  a finish follows only when all was stored, an acknowledgement names what was stored. Nothing
  is ever taken back, so a packet that was true stays true (`PacketsStay`). Without this
  part the others do not survive a leftover of an earlier session.
* `MemoryInStep`: memory is a prefix of the offer (`BytesJoin`: a piece at the end of
  a prefix makes a longer one) and the parser stands where one look at that prefix would put
  it. This is where `CutsAreUnseen` is needed, and it gives `RamHoldsOffer`.

`TransferKeepsPromise`: the refinement leaves offers, stores and logs as they are. A begin of
the sender is the promise's offer, data appended beyond what was stored before is its
store, the first finish its verification, a finish answer at the sender its report, and
every other step stutters.
A finish is accepted only when the memory is whole, and then `VerdictIsRight` says that the clip
is well-formed.

`RejectionsStayFaults` needs a second invariant, `GoesOn`, relative to `IInv`: without a fault
the link keeps the order of the sessions (`InOrder`), nothing of a later session is stored,
and the receiver that began a well-formed clip is still at it or has verified it. Then every packet of its
session finds room (`WholeIsAppended`), and the parser, by `SoundGoesOn`, does not refuse it.

**The window.** `PartsProofs` proves `NeverBeyondWindow`, alignment, progress and the absence of
rewinds below what is acknowledged, for every
payload size, every set of clip sizes and window sizes and every acknowledged
offset. `WindowIInv` is `WindowOK`: cursors
ordered, each a multiple of the payload or the total, no more than a window's worth
outstanding. The properties alone are not inductive: the bound on outstanding
bytes survives a late acknowledgement only because `next` never falls below
`acknowledged`, and a partial packet never leaves the boundary only because
`high_water` bounds what can be acknowledged. `WireProtocolProofs` holds the
arithmetic (multiples, the room a count leaves, `BoundaryMultiple`) and one lemma
per operation: `NewWindowOK`, `CountBounds`, `SentOK`, `AckedOK`, `RetriedOK`. They do not
mention `SendWindow`, so the transfer's proofs use them too.

**The player.** `PlayerProofs` proves every property of the run `player_safety` for every clip
(any sequence of audio and video records with any time stamps), every number of
blocks and pictures, every buffer and DMA depth and every subset of the commands
and faults, from `PlayerConstants` alone. Nothing is assumed of how records and
pictures relate: a header that promises more or less than the records hold is
covered too.

Argument. The invariant `IInv` has nine named parts (`Types` itself one per component) and each has one lemma that
every step keeps it; `Untouched` says once what each task leaves alone. Three
parts are strengthenings the properties do not contain:

* `Joined` adds to `JoinInStep` that nothing plays between the halves of `stop`
  and that no worker is left after it. This is what makes replacing the clip in
  `JobBegin` and `JobClear` safe, and what `ClipOutlives` follows from:
  `OnlyJobsReplace` shows that no other step replaces it.
* `PlayHasClip` and `Whole` carry the check that `play` made before `stop` over
  to the moment after it, when both cursors are put on the first record.
* `Heard` ties the clock to what was submitted, so that the drain of the DMA
  buffers (`AudioDrained`) means the clock is at the end; `AudioWithin` says that
  nothing decoded is held back between two records and that silence follows only
  the whole clip, without which the bound on submitted sound would not survive
  the fetch of the next record.

The step of `next` over a stretch without records of a kind (`CursorStep`) rests
on a least element of a set of naturals (`LeastExists`, by well-foundedness) and on
cardinalities (`CountSame`, `CountNext`); it gives both the reader bounds and the
order of the pictures. TLC checked `IInv` on the instance of `player_safety`
before the proof was attempted.

**The voice link.** `PlayoutProofs` proves the types and `NeverBackwards` for every queue capacity, range of
numbers and number of disturbances. The order property relates the pending block to what was heard
last, but the code compares a new block with `active`, the last one accepted; the
invariant `InOrder` says that these are the same block whenever a comparison is
made. One step adds to a stream (`TakeNextKeepsOrder`); one starts a new one, after two
seconds or from another session of the same board (`TakeNewStreamKeepsOrder`, which needs
that there is a source as long as anything is remembered as heard); the others leave
the pending block alone. For the types, `Typed` says with
which numbers a gap goes and that a reused place in the queue is still one of its places.

**The coder.** `SampleIsNear` in `PartsProofs`: whatever the state
and the sample, if the step can reach it, decoding the code just made lands within an eighth
of the step and its rounding, and leaves the decoder in the encoder's state. Bit by bit
(`CodeBits`, `NearEnough`) rather than by cases over 16 codes and 89 steps.
`PacketsStandAlone` carries it along a block of any length, by `Induct` over the states
the encoder goes through, and from packet to packet: each is decoded from its own header.

**The looping player.** `AvPlayerProofs` proves the safety of the looping player for every frame rate, sample rate,
length, block and buffer. The clock's claim is about quotients: the loop a sample belongs to is
`submitted \div Samples` while the worker keeps only a remainder. `SoundAdds` keeps both
by one equation, and `DivMod`, `OneRemainder` and `ModAdds` derive from the definition of
division what the prover does not know of a variable divisor. `PicturesFollow` says that the target
picture is computed from a clock not ahead of what is heard (`TargetIsHeard`); `JoinInStep`
and `StopAsked` carry the worker's end over the two halves of `stop`, and `InPosition`
is what a length read and not used, or a rewind, could break.

**Filter and schedule.** `PartsProofs` proves both for every width of
the counter, wait, period and turn. The key in both is that a wrapping difference equals
real time as long as less than a round (or half a round) has passed (`Exact`,
`ScheduleMeans`); the rest of the invariant shows that no more does pass while the program
relies on it: `NoneWaits`, that no edge is left waiting beyond its turn, and `OnSchedule`
itself. For the filter this needs `DebounceMs + MaxGap <= Wrap`, for the schedule
`2 * (Period + DecodeMax) <= Wrap`, which the named assumptions state and the boards
meet by far. `UploadInStep` and `AnswerIsTrue` give `VideosStay`.

Several theorems state properties no run spends time on, because the proof covers them:
`AlwaysAligned`, `WindowNeverStuck`, `NeverRewound`, `WorkersAreJoined` (of both players),
`FileInPosition`, `AnswersAreTrue`, `PicturesInTime`, `ReleasesTell`, `NoPressAtStart` and
the type invariants of single parts. TLC checked each before its proof was written.

**The LoRa pair.** `RoundTripsStayTrue` and `TimeoutsStayExcused` hold for every number of
boots, disturbances and digits. An answer is told from the one A waits for by its age in
pings: `HeldUp` bounds that age by the disturbances spent, hence by less than a
round; `Blamed` says that while A waits its ping was disturbed or is the last that B heard,
and `Receives` that a chip listens with room for the longest packet.

**The tools.** `HostStaysRight` and `SavedStaysOneRecording` hold for any number of scripts
broken off at any point. `FileIInv` says what may be in the port: no more than one command
waits for an idle board and none for a busy one (`CommandsInStep`), so the answer to
`status` is the last line of what came before (`StatusAnswered`), and each answer after it
belongs to this script. `MicIInv` follows the driver: `GapsAreReported` says that a gap in what was
captured has its report of loss among the last two events, or three between a read
and its drain, which is why the queue must keep three.

**The card.** `SdBenchProofs` proves the library under both its callers for any number of
handles, files, frames, sessions and resets and every set of faults. The count of open
handles is the number in use in every state (`CardOK`), error paths included. `PassIsTrue` is not
inductive: what a reader has compared must not be written any more. `ReceiverCard` and `CodecCard` say
that no writer is left once the comparison begins and how far it has come, and a file
that no handle writes stays as it is (`Kept`), through resets too.

`TypesStayOK` puts the parts' type invariants together for `Parts`.

**The transfer to the card.** `AvTransferProofs` proves every safety property of the run `av_transfer`, the
refinement of `VerifiedTransfer` among them, from `AvConstants` alone: any clips
and chunk sizes, any queue and air depth, any subset of the faults, any number of
transfers and resets.

Argument. The properties say what is on the cards, yet whether a step keeps them
depends on what is still in the air. `IInv` therefore adds to `TypeOK` and
`FilesAreVerified`:

* `PacketsInStep`: every packet to the receiver names the clip its session offered,
  or carries a slice of it (`Requested`), and every finish on its way back belongs
  to a verified session (`Answered`). Both sets only grow, so a late or
  repeated packet stays in them (`TakeKeeps`, `SendKeeps`, `OnReceiveKeeps` hold for
  any set).
* `SenderInStep`: an upload runs only while the card has no clip, and the clip on
  the card is the one offered as long as the transfer is active. So what
  `prepare_next` reads is still what begin announced.
* `ReceiverInStep`: a staging file is written only while no clip is there, and no
  more is ever stored of a session than it offers. That makes the rename in
  `FinishAccepted` harmless (`FinishStores`), hence `ClipsStay`, and lets
  `DataAccepted` be a `Store` or a stutter of the promise.

`StagingIInv` adds, relative to `IInv`, that the staging file exists while it is
written and that a completed transfer has left a clip; `StagingCorrect` follows.

Only model-checked: the liveness properties, `Settles` (of both transfers), `Completes`,
`StopReturns`, `RadioIsServed`, `PlaysToTheEnd`, `StopEnds`, `LoraRecovers`, `TestEnds` and
`Recovers`, because fairness and `ENABLED` are out of the prover's reach.

## 5. What the runs found

`README.md:56` of `wireless_stream` says: "If reception falls behind, audio and
video pause until the buffer refills." The code asks "is there a record" and "is
the clip complete" in two loads (`player.cpp:239` in the audio worker, 632 to 638
in the tick). If the last records are published and the clip is verified between
them, the first answer is stale: the audio worker reports "AAC ended early", the tick
"Missing video frame", and playback stops for good. The run `player_starvation`
shows the trace. On the boards the race is narrow: the reader must be
preempted between two loads for a whole last packet, acknowledgement and
finish exchange. The radio worker's higher priority allows it; asking
`complete` first closes it.

`audio_playout.h:42-43` of `mictospeaker_test` says of the bound on padding: "Avoid
padding overflows and causing a self-sustaining backlog of dropped packets followed
by more padding." The headroom is `capacity - queued`, but after a gap of g blocks
the pending block is played before the next one is taken, so g + 1 packets arrive
meanwhile. Padding that fills the headroom therefore overflows by one; the dropped packet is
the next gap of one, the queue then holds capacity - 1, its headroom is 1, and the pattern repeats
although nothing is lost or late any more. The run `playout_padding`
shows the cycle; with one less of headroom it holds.

`README.md:256` of `mictospeaker_test` says that the receiver "rejects
duplicate/out-of-order sequence numbers". That is so, and `NeverBackwards` says so, as long
as a block is taken at least every two seconds. After a longer silence `main.cpp:324-326`
deliberately takes whatever is next for a new stream, which lets the sound come back after a
round of the numbers (`Recovers`) but also takes a duplicate: block n is played, the queue
runs empty, a late copy of n stays in it below the prebuffer, and when packets come again more
than two seconds later n is taken as new and played again. With `heard` kept over the silence TLC
finds such a repetition within thirty steps. It is a consequence of the time-out and not
a run of its own; dropping what is queued when the source expires would close it, except
for a copy that is itself two seconds late.

Everything else holds.

## 6. Plan

What is left, in order:

1. A measure for `Settles`: that every step of a transfer lowers it, or is a fault or a new
   offer, as an action property with a proof; fairness then remains TLC's.
2. `codec_test`'s packet buffer in memory, as a third program of `SdBench`; `load` of
   `wireless_stream`'s storage.

### Not modelled

* Decoders and codecs: numeric and vendored. `codec_test`: a straight line over them, whose
  stages `CodecSdTest` has.
* The Python tools: offline conversions, apart from `send_clip.py`, `send_mp3.py` and
  `record.py`, whose protocols are in `AvTransfer`, `FilePlayer` and `MicCapture`.
* `espnow_test`: one-way heartbeats; it keeps counters for printing and nothing that a
  property could relate.
* Drawing, decoding, tones, pins, statistics and wording everywhere.

Of the lines counted as implementation, more than 10000 are headers of vendored codecs
and 5415 a generated image table, so the modelled share of the whole stays small.
The repository's own logic is about 8000 lines; well over half of it is modelled, and
display, decoding and printing are most of what is not.
