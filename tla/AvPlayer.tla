------------------------------ MODULE AvPlayer ------------------------------
(***************************************************************************)
(* The wireless_av receiver's player                                        *)
(* (button_lcd_test/wireless_av/src/player.cpp): the sound of a clip is     *)
(* read into PSRAM and looped by a worker task, the pictures are read from  *)
(* the card by the main loop, which follows the clock the worker publishes. *)
(* How the clip got onto the card is AvTransfer's subject.                  *)
(*                                                                          *)
(* One unit of time is one sample.  The I2S driver takes what fits into its *)
(* DMA buffers and plays it while it runs.                                  *)
(***************************************************************************)
EXTENDS Integers

CONSTANTS
    Frames, Fps,        \* pictures of the clip, and how many a second
    Rate,               \* samples a second
    Block,              \* audio_block_samples
    Queued,             \* queued_samples: what the DMA buffers hold
    Commands,           \* what may be asked of the player
    Faults,             \* what may fail
    MaxSubmitted        \* bound: samples submitted in one playback

\* What play requires of the two headers.
Samples == (Frames * Rate + Fps \div 2) \div Fps

ASSUME AvPlayerConstants ==
    /\ \A n \in {Frames, Fps, Rate, Block, Queued, Samples} : n \in Nat \ {0}
    /\ Block <= Queued /\ MaxSubmitted \in Nat
    /\ Commands \subseteq {"play", "pause", "begin"}
    /\ Faults \subseteq {"file", "memory", "driver", "task", "card", "picture", "audio"}

VARIABLES
    \* main loop: inside stop() or not, and what follows it
    main_pc, job,
    \* main loop: the open file (the frame its position is at), the picture side
    video, position, frame_index, video_cycle, decoded,
    \* the PSRAM copy of the sound and the I2S driver
    audio_data, driver_installed, audio_task_running,
    \* shared with the worker
    stopping, paused, audio_failed, presented_samples, audio_done,
    \* the worker: where it is, its locals (a block counts once it is published)
    audio_pc, input_offset, submitted,
    \* the driver: running or stopped, samples in its buffers
    i2s_on, dma,
    \* history: samples heard and the last picture drawn (its cycle and its frame),
    \* of this playback
    heard, shown

mainVars == <<main_pc, job>>
videoVars == <<video, position, frame_index, video_cycle, decoded, shown>>
audioVars == <<audio_data, driver_installed, audio_task_running>>
sharedVars == <<stopping, paused, audio_failed, presented_samples, audio_done>>
workerVars == <<audio_pc, input_offset, submitted>>
outputVars == <<i2s_on, dma, heard>>
avVars == <<mainVars, videoVars, audioVars, sharedVars, workerVars, outputVars>>

NoPicture == <<0, -1>>

AvInit ==
    /\ main_pc = "loop" /\ job = "none"
    /\ video = FALSE /\ position = 0 /\ frame_index = 0 /\ video_cycle = 0
    /\ decoded = 0
    /\ audio_data = FALSE /\ driver_installed = FALSE /\ audio_task_running = FALSE
    /\ stopping = FALSE /\ paused = FALSE /\ audio_failed = FALSE
    /\ presented_samples = 0 /\ audio_done = FALSE
    /\ audio_pc = "none" /\ input_offset = 0 /\ submitted = 0
    /\ i2s_on = FALSE /\ dma = 0 /\ heard = 0 /\ shown = NoPicture

-----------------------------------------------------------------------------
(* Main loop: stop, and play after it.                                      *)

\* stop(), up to its wait for the worker; fail() is one with nothing after it.
StopFor(what) ==
    /\ main_pc' = "stop" /\ job' = what
    /\ stopping' = (stopping \/ audio_task_running)

\* The wait is over, or there was no worker.
Joined == main_pc = "stop" /\ (audio_task_running => audio_done)

TakeDone == audio_done' = (audio_done /\ ~audio_task_running)

Returns(what) ==
    /\ Joined /\ job = what
    /\ main_pc' = "loop" /\ job' = "none"
    /\ TakeDone

\* The rest of stop(); what fail() closes when play() fails half-way.
Closed ==
    /\ audio_task_running' = FALSE /\ driver_installed' = FALSE
    /\ video' = FALSE /\ audio_data' = FALSE
    /\ i2s_on' = FALSE /\ dma' = 0

StopReturns ==
    /\ Returns("none") /\ Closed
    /\ UNCHANGED <<position, frame_index, video_cycle, decoded, shown, stopping, paused,
                   audio_failed, presented_samples, workerVars, heard>>

\* play(), after its stop(): the headers, the memory or the card fail, or, once the
\* pictures are set to the first one, the driver.
PlayRefused ==
    /\ Returns("play") /\ Closed
    /\ \/ /\ Faults \cap {"file", "memory", "card"} # {}
          /\ UNCHANGED <<frame_index, video_cycle, decoded>>
       \/ /\ "driver" \in Faults
          /\ frame_index' = 0 /\ video_cycle' = 0 /\ decoded' = 0
    /\ UNCHANGED <<position, shown, stopping, paused, audio_failed, presented_samples,
                   workerVars, heard>>

\* Both parts of the file are found good; start_audio resets the flags.
PlayResets ==
    /\ position' = 0 /\ frame_index' = 0 /\ video_cycle' = 0 /\ decoded' = 0
    /\ shown' = NoPicture
    /\ stopping' = FALSE /\ paused' = FALSE /\ audio_failed' = FALSE
    /\ presented_samples' = 0 /\ heard' = 0

PlayStarts ==
    /\ Returns("play") /\ PlayResets
    /\ video' = TRUE /\ audio_data' = TRUE /\ driver_installed' = TRUE
    /\ i2s_on' = TRUE /\ dma' = 0
    /\ audio_task_running' = TRUE
    /\ audio_pc' = "check" /\ input_offset' = 0 /\ submitted' = 0

PlayWithoutTask ==
    /\ Returns("play") /\ PlayResets /\ Closed /\ "task" \in Faults
    /\ UNCHANGED workerVars

-----------------------------------------------------------------------------
(* Main loop: commands, the radio's begin, and tick.                        *)

AskStop(command, what) ==
    /\ main_pc = "loop" /\ command \in Commands
    /\ StopFor(what)
    /\ UNCHANGED <<videoVars, audioVars, paused, audio_failed, presented_samples, audio_done,
                   workerVars, outputVars>>

\* The play command, and a file received: play() begins with stop().
Play == AskStop("play", "play")

\* A begin packet stops the player.
Begin == AskStop("begin", "none")

TogglePause ==
    /\ main_pc = "loop" /\ "pause" \in Commands /\ video
    /\ paused' = ~paused
    /\ UNCHANGED <<mainVars, videoVars, audioVars, stopping, audio_failed, presented_samples,
                   audio_done, workerVars, outputVars>>

Ticks == main_pc = "loop" /\ video /\ ~audio_failed /\ ~paused
TickOnly == UNCHANGED <<audioVars, paused, audio_failed, presented_samples, audio_done,
                        workerVars, outputVars>>

TickAudioFailed ==
    /\ main_pc = "loop" /\ video /\ audio_failed
    /\ StopFor("none")
    /\ UNCHANGED videoVars /\ TickOnly

Lesser(a, b) == IF a < b THEN a ELSE b
Cycle == presented_samples \div Samples
target_frame == Lesser(Frames - 1, ((presented_samples % Samples) * Fps) \div Rate)

\* The next frame to read, after the rewind for a new cycle.
NextFrame == IF Cycle # video_cycle THEN 0 ELSE frame_index

Rewound == IF Cycle # video_cycle THEN 0 ELSE position

\* Mutant: the new cycle is not remembered.
TickShowsCycleForgotten ==
    /\ Ticks /\ NextFrame = target_frame
    /\ UNCHANGED video_cycle
    /\ frame_index' = NextFrame + 1 /\ position' = Rewound + 1
    /\ decoded' = decoded + 1 /\ shown' = <<Cycle, Rewound>>
    /\ UNCHANGED <<mainVars, video, stopping>> /\ TickOnly

\* The picture that is due is read, decoded and drawn.
TickShows ==
    /\ Ticks /\ NextFrame = target_frame
    /\ video_cycle' = Cycle
    /\ frame_index' = NextFrame + 1 /\ position' = Rewound + 1
    /\ decoded' = decoded + 1 /\ shown' = <<Cycle, Rewound>>
    /\ UNCHANGED <<mainVars, video, stopping>> /\ TickOnly

\* An overdue one is skipped.
TickSkips ==
    /\ Ticks /\ NextFrame < target_frame
    /\ video_cycle' = Cycle
    /\ frame_index' = NextFrame + 1 /\ position' = Rewound + 1
    /\ UNCHANGED <<mainVars, video, stopping, decoded, shown>> /\ TickOnly

TickEarly ==
    /\ Ticks /\ NextFrame > target_frame
    /\ video_cycle' = Cycle /\ frame_index' = NextFrame /\ position' = Rewound
    /\ UNCHANGED <<mainVars, video, stopping, decoded, shown>> /\ TickOnly

\* The rewind fails; a length, a skip, a picture or its decoding does.
TickFails ==
    /\ Ticks /\ Faults \cap {"card", "picture"} # {}
    /\ \/ Cycle # video_cycle /\ UNCHANGED <<video_cycle, frame_index>>
       \/ /\ NextFrame <= target_frame
          /\ video_cycle' = Cycle /\ frame_index' \in {NextFrame, NextFrame + 1}
    /\ StopFor("none")
    /\ UNCHANGED <<video, position, decoded, shown>> /\ TickOnly

-----------------------------------------------------------------------------
(* The audio worker and the driver.                                         *)

MainUntouched == UNCHANGED <<mainVars, videoVars, audioVars, stopping, paused>>

\* while (!stopping.load()); MaxSubmitted bounds the loop.
WorkerChecks ==
    /\ audio_pc = "check"
    /\ stopping \/ submitted < MaxSubmitted
    /\ audio_pc' = IF stopping THEN "give" ELSE "pause"
    /\ UNCHANGED <<audio_failed, presented_samples, audio_done, input_offset, submitted,
                   outputVars>>
    /\ MainUntouched

\* if (paused.load()): the driver is stopped, what it holds stays.
WorkerPauses ==
    /\ audio_pc = "pause"
    /\ IF paused THEN i2s_on' = FALSE /\ audio_pc' = "held"
       ELSE i2s_on' = i2s_on /\ audio_pc' = "write"
    /\ UNCHANGED <<audio_failed, presented_samples, audio_done, input_offset, submitted,
                   dma, heard>>
    /\ MainUntouched

\* Mutant: a pause is only left by another press.
WorkerHeldForGood ==
    /\ audio_pc = "held" /\ ~paused
    /\ IF stopping THEN i2s_on' = i2s_on /\ audio_pc' = "give"
       ELSE i2s_on' = TRUE /\ audio_pc' = "write"
    /\ UNCHANGED <<audio_failed, presented_samples, audio_done, input_offset, submitted,
                   dma, heard>>
    /\ MainUntouched

\* while (paused && !stopping), then the driver goes on.
WorkerHeld ==
    /\ audio_pc = "held" /\ (~paused \/ stopping)
    /\ IF stopping THEN i2s_on' = i2s_on /\ audio_pc' = "give"
       ELSE i2s_on' = TRUE /\ audio_pc' = "write"
    /\ UNCHANGED <<audio_failed, presented_samples, audio_done, input_offset, submitted,
                   dma, heard>>
    /\ MainUntouched

\* Mutant: what is submitted is taken for heard.
ClockOfSubmitted(samples) == samples

\* What the clock is set to once so many samples are submitted.
ClockAfter(samples) == IF samples > Queued THEN samples - Queued ELSE 0

Room == dma + Block <= Queued

\* One block, from where the sound's loop is; i2s_write waits for a free buffer.
WorkerWrites ==
    /\ audio_pc = "write" /\ Room
    /\ input_offset' = (input_offset + Block) % Samples
    /\ dma' = dma + Block
    /\ audio_pc' = "publish"
    /\ UNCHANGED <<audio_failed, presented_samples, audio_done, submitted, i2s_on, heard>>
    /\ MainUntouched

WorkerPublishes ==
    /\ audio_pc = "publish"
    /\ submitted' = submitted + Block
    /\ presented_samples' = ClockAfter(submitted + Block)
    /\ audio_pc' = "check"
    /\ UNCHANGED <<audio_failed, audio_done, input_offset, outputVars>>
    /\ MainUntouched

\* The driver refuses to stop, to start, or to take the block within a second.
WorkerFails ==
    /\ "audio" \in Faults
    /\ \/ audio_pc = "pause" /\ paused
       \/ audio_pc = "held" /\ ~paused /\ ~stopping
       \/ audio_pc = "write"
    /\ audio_failed' = TRUE /\ audio_pc' = "give"
    /\ UNCHANGED <<presented_samples, audio_done, input_offset, submitted, outputVars>>
    /\ MainUntouched

WorkerGives ==
    /\ audio_pc = "give"
    /\ audio_done' = TRUE /\ audio_pc' = "none"
    /\ UNCHANGED <<audio_failed, presented_samples, input_offset, submitted, outputVars>>
    /\ MainUntouched

Hear ==
    /\ i2s_on /\ dma > 0
    /\ dma' = dma - 1 /\ heard' = heard + 1
    /\ UNCHANGED <<mainVars, videoVars, audioVars, sharedVars, workerVars, i2s_on>>

-----------------------------------------------------------------------------

AfterStop == StopReturns \/ PlayRefused \/ PlayStarts \/ PlayWithoutTask

Tick == TickAudioFailed \/ TickShows \/ TickSkips \/ TickEarly \/ TickFails

Worker ==
    \/ WorkerChecks \/ WorkerPauses \/ WorkerHeld \/ WorkerWrites \/ WorkerPublishes
    \/ WorkerFails \/ WorkerGives

AvNext == AfterStop \/ Play \/ Begin \/ TogglePause \/ Tick \/ Worker \/ Hear

\* Both tasks are scheduled and the driver plays what it has.
AvSpec ==
    /\ AvInit /\ [][AvNext]_avVars
    /\ WF_avVars(AfterStop) /\ WF_avVars(Worker) /\ WF_avVars(Hear)

-----------------------------------------------------------------------------
(* Properties.                                                              *)

\* The type invariant.
AvTypeOK ==
    /\ main_pc \in {"loop", "stop"} /\ job \in {"none", "play"}
    /\ position \in 0..Frames /\ frame_index \in 0..Frames /\ video_cycle \in Nat
    /\ decoded \in Nat
    /\ {video, audio_data, driver_installed, audio_task_running, stopping, paused,
        audio_failed, audio_done, i2s_on} \subseteq BOOLEAN
    /\ audio_pc \in {"none", "check", "pause", "held", "write", "publish", "give"}
    /\ input_offset \in 0..(Samples - 1) /\ submitted \in Nat /\ presented_samples \in Nat
    /\ dma \in 0..Queued /\ heard \in Nat
    /\ shown \in Nat \X (-1..(Frames - 1))

Alive == audio_pc # "none"

\* One worker at a time: it gives the semaphore once and stop takes it once, so
\* that no later stop returns early; the sound it reads and the driver it writes
\* to outlive it, whatever fails and whenever (stop, fail, start_audio).
JoinInStep ==
    /\ audio_task_running <=> (Alive \/ audio_done)
    /\ ~(Alive /\ audio_done)
    /\ Alive => audio_data /\ driver_installed /\ video
    /\ audio_done => stopping \/ audio_failed
    /\ main_pc = "loop" /\ video => audio_task_running /\ ~stopping

\* The length read next is that of the next frame: every way through tick that
\* keeps the file open leaves it at a frame's start, rewinds included.
InPosition == main_pc = "loop" /\ video => position = frame_index

\* The block written but not counted yet.
Unpublished == IF audio_pc = "publish" THEN Block ELSE 0

\* The pictures follow "the audio sample clock, accounting for queued DMA
\* samples" (README.md:205): none is drawn before the sound it belongs to, the
\* sound's own loop and the clock's cycles agree, and the clock lags by no more
\* than the buffers hold and the block being written, through any pauses.
NeverAhead ==
    audio_task_running =>
        /\ input_offset = (submitted + Unpublished) % Samples
        /\ presented_samples <= heard /\ heard <= presented_samples + Queued + Unpublished
        /\ shown[2] >= 0 => shown[1] * Samples * Fps + shown[2] * Rate <= heard * Fps

\* Within a playback the pictures only go forward, none is drawn twice.
PicturesGoForward ==
    [][decoded' > decoded =>
          \/ shown'[1] > shown[1]
          \/ shown'[1] = shown[1] /\ shown'[2] > shown[2]]_avVars

\* stop() always returns: also when paused, when the worker waits for room or
\* has failed on its own.
StopEnds == main_pc = "stop" ~> main_pc = "loop"
=============================================================================
