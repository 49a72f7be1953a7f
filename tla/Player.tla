------------------------------- MODULE Player -------------------------------
(***************************************************************************)
(* The receiver board's player                                              *)
(* (button_lcd_test/wireless_stream/src/player.cpp) over the shared clip    *)
(* memory (src/ram_clip.cpp): the main loop that owns playback and draws    *)
(* the frames, the audio worker it starts and joins, and the radio worker   *)
(* that fills the memory meanwhile and asks the main loop to replace it.    *)
(* What the radio worker does between the two is RadioTransfer's subject;   *)
(* here it may publish, finish, reject or begin again at any time.          *)
(*                                                                          *)
(* One unit of time is one block of audio handed to the I2S driver.  Every  *)
(* load of an atomic that another task may change in between is a step of   *)
(* its own where the code acts on two of them.                              *)
(***************************************************************************)
EXTENDS Integers, Sequences, FiniteSets

CONSTANTS
    Stream,             \* the clip's records, [kind, sample], in file order
    Samples,            \* blocks of audio in the clip
    Frames,             \* pictures in the clip
    FrameBlocks,        \* blocks of audio per picture
    RecordBlocks,       \* blocks an AAC record decodes to (none for the first)
    BufferBlocks,       \* buffer_samples
    QueuedBlocks,       \* queued_samples: what the DMA buffers hold
    Commands,           \* what the user may ask for
    Faults              \* "memory", "init", "audio", "video": what may fail

ASSUME PlayerConstants ==
    /\ Stream \in Seq([kind : {"audio", "video"}, sample : Nat])
    /\ \A n \in {Samples, Frames, FrameBlocks, RecordBlocks, BufferBlocks, QueuedBlocks} :
          n \in Nat \ {0}
    /\ Commands \subseteq {"play", "pause", "autoplay on", "autoplay off"}
    /\ Faults \subseteq {"memory", "init", "audio", "video"}

VARIABLES
    \* main loop: where it is, what it does once stop() returns and where then
    main_pc, job, resume,
    \* player: flags of the main loop, and what the LCD shows
    armed, playing, autoplay, screen,
    \* player: the video side
    video_cursor, have_video, pending_sample, decoded,
    \* shared with the audio worker
    stopping, paused, buffering, audio_failed, audio_ended, clock, done, task_running,
    \* audio worker: where it is, its locals
    audio_pc, audio_cursor, left, submitted, okay,
    \* ram_clip: which clip the memory belongs to (modulo 2), how much of it is
    \* published (0 nothing, 1 the header, 1 + k the header and k records), its
    \* playable horizon and whether it is verified
    clip, published, horizon, verified,
    \* radio worker and its handshake with the main loop
    radio_pc, player_request, player_result, lifecycle_done

mainVars == <<main_pc, job, resume>>
playerVars == <<armed, playing, autoplay, screen>>
videoVars == <<video_cursor, have_video, pending_sample, decoded>>
sharedVars == <<stopping, paused, buffering, audio_failed, audio_ended, clock, done,
                task_running>>
audioVars == <<audio_pc, audio_cursor, left, submitted, okay>>
clipVars == <<clip, published, horizon, verified>>
radioVars == <<radio_pc, player_request, player_result, lifecycle_done>>
vars == <<mainVars, playerVars, videoVars, sharedVars, audioVars, clipVars, radioVars>>

Init ==
    /\ main_pc = "poll" /\ job = "none" /\ resume = "poll"
    /\ armed = FALSE /\ playing = FALSE /\ autoplay = TRUE
    /\ screen = "Waiting for stream"
    /\ video_cursor = 1 /\ have_video = FALSE /\ pending_sample = 0 /\ decoded = 0
    /\ stopping = FALSE /\ paused = FALSE /\ buffering = TRUE
    /\ audio_failed = FALSE /\ audio_ended = FALSE /\ clock = 0
    /\ done = FALSE /\ task_running = FALSE
    /\ audio_pc = "none" /\ audio_cursor = 1 /\ left = 0 /\ submitted = 0 /\ okay = TRUE
    /\ clip = 0 /\ published = 0 /\ horizon = 0 /\ verified = FALSE
    /\ radio_pc = "idle" /\ player_request = "idle" /\ player_result = FALSE
    /\ lifecycle_done = FALSE

-----------------------------------------------------------------------------
(* ram_clip.                                                                *)

Records == Len(Stream)
Least(a, b) == IF a < b THEN a ELSE b

\* How many of the first n records are of a kind.
CountOf(kind, n) == Cardinality({i \in 1..n : Stream[i].kind = kind})

\* validator::buffered_samples: what both streams cover, counting no audio for
\* the decoder's first record.
Horizon(p) ==
    IF p = 0 THEN 0
    ELSE LET audios == CountOf("audio", p - 1)
             audio_end == IF audios > 0 THEN (audios - 1) * RecordBlocks ELSE 0
         IN Least(Samples, Least(CountOf("video", p - 1) * FrameBlocks, audio_end))

\* ram_clip::next: the next published record of a kind, if any, and where the
\* cursor is left.
Found(kind, cursor) == {i \in cursor..(published - 1) : Stream[i].kind = kind}
\* Mutant: skip to the latest record.
LatestRecord(kind, cursor) == CHOOSE i \in Found(kind, cursor) :
                                  \A j \in Found(kind, cursor) : i >= j

NextRecord(kind, cursor) == CHOOSE i \in Found(kind, cursor) :
                                \A j \in Found(kind, cursor) : i <= j
\* Mutant: the cursor moves on when nothing is found.
CursorBeyond(kind, cursor) ==
    IF Found(kind, cursor) # {} THEN NextRecord(kind, cursor) + 1 ELSE cursor + 1

CursorAfter(kind, cursor) ==
    IF Found(kind, cursor) # {} THEN NextRecord(kind, cursor) + 1
    ELSE IF cursor < published THEN published ELSE cursor

\* Enough to start: has_header and a full buffer, or the whole clip.
Playable == published > 0 /\ (verified \/ horizon >= BufferBlocks)

-----------------------------------------------------------------------------
(* Main loop: stop() and what follows it.                                   *)

\* stop(), up to its wait for the audio worker.
StopFor(what, then) ==
    /\ armed' = FALSE /\ playing' = FALSE
    /\ stopping' = (stopping \/ task_running)
    /\ job' = what /\ resume' = then
    /\ main_pc' = "join"
    /\ UNCHANGED <<autoplay, screen, paused, buffering, audio_failed, audio_ended, clock,
                   done, task_running>>

\* stop(), from its wait on: the worker has given done, or there is none.
Join ==
    /\ main_pc = "join" /\ (task_running => done)
    /\ done' = (done /\ ~task_running) /\ task_running' = FALSE
    /\ main_pc' = "job"
    /\ UNCHANGED <<job, resume, playerVars, videoVars, stopping, paused, buffering,
                   audio_failed, audio_ended, clock, audioVars, clipVars, radioVars>>

Job(what) == main_pc = "job" /\ job = what /\ main_pc' = resume /\ job' = "none" /\ resume' = "poll"

\* The rest of play(): decoders, driver, flags, and the worker.
JobPlay ==
    /\ Job("play")
    /\ video_cursor' = 1 /\ have_video' = FALSE /\ decoded' = 0
    /\ screen' = "playing" /\ playing' = TRUE
    /\ stopping' = FALSE /\ paused' = FALSE /\ buffering' = FALSE
    /\ audio_failed' = FALSE /\ audio_ended' = FALSE /\ clock' = 0
    /\ task_running' = TRUE
    /\ audio_pc' = "top" /\ audio_cursor' = 1 /\ left' = 0 /\ submitted' = 0 /\ okay' = TRUE
    /\ UNCHANGED <<armed, autoplay, pending_sample, done, clipVars, radioVars>>

\* A decoder, the I2S driver or the task cannot be had: fail(), whose stop()
\* finds no worker.  It may fail before the picture cursor is reset, after it, or
\* after the worker's flags are reset too.
JobPlayFails ==
    /\ "init" \in Faults /\ Job("play")
    /\ screen' = "init failed"
    /\ \/ UNCHANGED <<videoVars, sharedVars>>
       \/ /\ video_cursor' = 1 /\ have_video' = FALSE /\ decoded' = 0
          /\ UNCHANGED pending_sample
          /\ \/ UNCHANGED sharedVars
             \/ /\ stopping' = FALSE /\ paused' = FALSE /\ buffering' = FALSE
                /\ audio_failed' = FALSE /\ audio_ended' = FALSE /\ clock' = 0
                /\ UNCHANGED <<done, task_running>>
    /\ UNCHANGED <<armed, playing, autoplay, audioVars, clipVars, radioVars>>

Reasons == {"AAC/PDM playback failed", "Missing video frame", "H264 decode failed"}

\* fail(), after stop().
JobFail(reason) ==
    /\ Job(reason)
    /\ screen' = reason
    /\ UNCHANGED <<armed, playing, autoplay, videoVars, sharedVars, audioVars, clipVars,
                   radioVars>>

\* set_autoplay(false), after stop().
JobStopped ==
    /\ Job("stopped")
    /\ UNCHANGED <<playerVars, videoVars, sharedVars, audioVars, clipVars, radioVars>>

\* Mutant: the semaphore is not given.
GiveNothing ==
    /\ player_request' = "idle"
    /\ UNCHANGED <<radio_pc, lifecycle_done>>

GiveAnswer ==
    /\ player_request' = "idle" /\ lifecycle_done' = TRUE
    /\ UNCHANGED radio_pc

\* radio_transfer::tick after stop(): ram_clip::begin, armed if it has memory,
\* and the answer.
JobBegin(allocated) ==
    /\ Job("begin")
    /\ clip' = 1 - clip /\ published' = 0 /\ horizon' = 0 /\ verified' = FALSE
    /\ armed' = (allocated /\ autoplay)
    /\ screen' = IF allocated /\ autoplay THEN "Buffering stream..." ELSE screen
    /\ player_result' = allocated
    /\ GiveAnswer
    /\ UNCHANGED <<playing, autoplay, videoVars, sharedVars, audioVars>>

\* radio_transfer::tick after stop(): ram_clip::clear and the answer.
JobClear ==
    /\ Job("clear")
    /\ clip' = 1 - clip /\ published' = 0 /\ horizon' = 0 /\ verified' = FALSE
    /\ screen' = "Stream failed"
    /\ player_result' = TRUE
    /\ GiveAnswer
    /\ UNCHANGED <<armed, playing, autoplay, videoVars, sharedVars, audioVars>>

-----------------------------------------------------------------------------
(* Main loop: commands and the button, then the radio's request, then tick. *)

PollNothing ==
    /\ main_pc = "poll" /\ main_pc' = "radio"
    /\ UNCHANGED <<job, resume, playerVars, videoVars, sharedVars, audioVars, clipVars,
                   radioVars>>

CommandPlay ==
    /\ "play" \in Commands /\ main_pc = "poll" /\ Playable
    /\ StopFor("play", "radio")
    /\ UNCHANGED <<videoVars, audioVars, clipVars, radioVars>>

TogglePause ==
    /\ "pause" \in Commands /\ main_pc = "poll" /\ playing
    /\ paused' = ~paused /\ main_pc' = "radio"
    /\ UNCHANGED <<job, resume, playerVars, videoVars, stopping, buffering, audio_failed,
                   audio_ended, clock, done, task_running, audioVars, clipVars, radioVars>>

AutoplayOn ==
    /\ "autoplay on" \in Commands /\ main_pc = "poll"
    /\ autoplay' = TRUE /\ main_pc' = "radio"
    /\ UNCHANGED <<job, resume, armed, playing, screen, videoVars, sharedVars, audioVars,
                   clipVars, radioVars>>

AutoplayOff ==
    /\ "autoplay off" \in Commands /\ main_pc = "poll"
    /\ autoplay' = FALSE
    /\ armed' = FALSE /\ playing' = FALSE
    /\ stopping' = (stopping \/ task_running)
    /\ job' = "stopped" /\ resume' = "radio" /\ main_pc' = "join"
    /\ UNCHANGED <<screen, paused, buffering, audio_failed, audio_ended, clock, done,
                   task_running, videoVars, audioVars, clipVars, radioVars>>

\* Mutant: the memory is replaced without stop().
RadioTickUnstopped ==
    /\ main_pc = "radio"
    /\ IF player_request # "idle"
       THEN main_pc' = "job" /\ job' = player_request /\ resume' = "tick"
       ELSE main_pc' = "tick" /\ UNCHANGED <<job, resume>>
    /\ UNCHANGED <<playerVars, sharedVars, videoVars, audioVars, clipVars, radioVars>>

RadioTick ==
    /\ main_pc = "radio"
    /\ IF player_request # "idle"
       THEN StopFor(player_request, "tick")
       ELSE main_pc' = "tick" /\ UNCHANGED <<job, resume, playerVars, sharedVars>>
    /\ UNCHANGED <<videoVars, audioVars, clipVars, radioVars>>

-----------------------------------------------------------------------------
(* Main loop: player::tick.                                                 *)

Goto(pc) == main_pc' = pc /\ UNCHANGED <<job, resume>>

TickArmed ==
    /\ main_pc = "tick"
    /\ IF armed /\ Playable
       THEN StopFor("play", "gate")
       ELSE Goto("gate") /\ UNCHANGED <<playerVars, sharedVars>>
    /\ UNCHANGED <<videoVars, audioVars, clipVars, radioVars>>

\* The buffer is full again: no subtraction below zero.
Refilled == verified \/ (horizon >= clock /\ horizon - clock >= BufferBlocks)

\* Nothing to show: not playing, paused, or waiting for the buffer.
TickHolds ==
    /\ main_pc = "gate"
    /\ \/ ~playing
       \/ ~audio_failed /\ (paused \/ (buffering /\ ~Refilled))
    /\ Goto("poll")
    /\ UNCHANGED <<playerVars, videoVars, sharedVars, audioVars, clipVars, radioVars>>

TickAudioFailed ==
    /\ main_pc = "gate" /\ playing /\ audio_failed
    /\ StopFor("AAC/PDM playback failed", "poll")
    /\ UNCHANGED <<videoVars, audioVars, clipVars, radioVars>>

TickRuns ==
    /\ main_pc = "gate" /\ playing /\ ~audio_failed /\ ~paused
    /\ buffering => Refilled
    /\ buffering' = FALSE
    /\ Goto("video")
    /\ UNCHANGED <<playerVars, videoVars, stopping, paused, audio_failed, audio_ended,
                   clock, done, task_running, audioVars, clipVars, radioVars>>

\* Fetch the next picture unless one is pending or all are decoded.
TickFetches ==
    /\ main_pc = "video"
    /\ IF have_video \/ decoded = Frames
       THEN Goto("show") /\ UNCHANGED <<video_cursor, have_video, pending_sample>>
       ELSE /\ video_cursor' = CursorAfter("video", video_cursor)
            /\ IF Found("video", video_cursor) # {}
               THEN /\ have_video' = TRUE
                    /\ pending_sample' = Stream[NextRecord("video", video_cursor)].sample
                    /\ Goto("show")
               ELSE Goto("starved") /\ UNCHANGED <<have_video, pending_sample>>
    /\ UNCHANGED <<playerVars, decoded, sharedVars, audioVars, clipVars, radioVars>>

\* No picture: an error if the clip is complete by now, else hold everything.
TickStarved ==
    /\ main_pc = "starved"
    /\ IF verified
       THEN StopFor("Missing video frame", "poll")
       ELSE /\ buffering' = TRUE /\ Goto("poll")
            /\ UNCHANGED <<playerVars, stopping, paused, audio_failed, audio_ended, clock,
                           done, task_running>>
    /\ UNCHANGED <<videoVars, audioVars, clipVars, radioVars>>

PictureDue == have_video /\ pending_sample <= clock

\* Decode the pending picture once its time has come.
TickShows ==
    /\ main_pc = "show"
    /\ IF PictureDue THEN decoded' = decoded + 1 /\ have_video' = FALSE
                     ELSE UNCHANGED <<decoded, have_video>>
    /\ Goto("loop")
    /\ UNCHANGED <<playerVars, video_cursor, pending_sample, sharedVars, audioVars,
                   clipVars, radioVars>>

TickDecodeFails ==
    /\ "video" \in Faults /\ main_pc = "show" /\ PictureDue
    /\ StopFor("H264 decode failed", "poll")
    /\ UNCHANGED <<videoVars, audioVars, clipVars, radioVars>>

\* All heard and all shown: play it again.
TickLoops ==
    /\ main_pc = "loop"
    /\ IF audio_ended /\ decoded = Frames /\ verified
       THEN StopFor("play", "poll")
       ELSE Goto("poll") /\ UNCHANGED <<playerVars, sharedVars>>
    /\ UNCHANGED <<videoVars, audioVars, clipVars, radioVars>>

-----------------------------------------------------------------------------
(* Audio worker.                                                            *)

AudioRest == UNCHANGED <<mainVars, playerVars, videoVars, clipVars, radioVars, stopping,
                         paused, task_running>>
AudioFlags == UNCHANGED <<audio_failed, audio_ended, done>>

\* audio_gate lets the worker through.
GateOpen == ~stopping /\ ~paused /\ ~buffering

AudioEnters ==
    /\ audio_pc = "top" /\ submitted < Samples /\ GateOpen
    /\ audio_pc' = "next"
    /\ UNCHANGED <<audio_cursor, left, submitted, okay, buffering, clock>>
    /\ AudioFlags /\ AudioRest

\* Mutant: the gate does not look at stopping.
AudioLeavesAtEnd ==
    /\ audio_pc = "top" /\ submitted >= Samples
    /\ audio_pc' = "drain"
    /\ UNCHANGED <<audio_cursor, left, submitted, okay, buffering, clock>>
    /\ AudioFlags /\ AudioRest

AudioLeaves ==
    /\ audio_pc = "top" /\ (stopping \/ submitted >= Samples)
    /\ audio_pc' = "drain"
    /\ UNCHANGED <<audio_cursor, left, submitted, okay, buffering, clock>>
    /\ AudioFlags /\ AudioRest

AudioFetches ==
    /\ audio_pc = "next"
    /\ audio_cursor' = CursorAfter("audio", audio_cursor)
    /\ IF Found("audio", audio_cursor) # {}
       THEN /\ audio_pc' = "write"
            /\ left' = IF CountOf("audio", NextRecord("audio", audio_cursor) - 1) = 0
                       THEN 0 ELSE RecordBlocks
       ELSE audio_pc' = "check" /\ UNCHANGED left
    /\ UNCHANGED <<submitted, okay, buffering, clock>> /\ AudioFlags /\ AudioRest

\* No record: an error if the clip is complete by now, else hold everything.
AudioChecks ==
    /\ audio_pc = "check"
    /\ okay' = ~verified
    /\ audio_pc' = IF verified THEN "end" ELSE "starve"
    /\ UNCHANGED <<audio_cursor, left, submitted, buffering, clock>>
    /\ AudioFlags /\ AudioRest

AudioStarves ==
    /\ audio_pc = "starve"
    /\ buffering' = TRUE
    /\ audio_pc' = "top"
    /\ UNCHANGED <<audio_cursor, left, submitted, okay, clock>> /\ AudioFlags /\ AudioRest

\* The audio clock after n blocks: what has left the DMA buffers.
ClockAt(n) == Least(Samples, IF n > QueuedBlocks THEN n - QueuedBlocks ELSE 0)

\* write_pcm: one block through the gate and into the driver; a block of
\* decoded sound, or of the silence that drains it.
AudioWrites ==
    /\ GateOpen
    /\ \/ audio_pc = "write" /\ left > 0 /\ submitted < Samples /\ left' = left - 1
       \/ audio_pc = "drain" /\ submitted < Samples + QueuedBlocks /\ UNCHANGED left
    /\ submitted' = submitted + 1
    /\ clock' = ClockAt(submitted + 1)
    /\ UNCHANGED <<audio_pc, audio_cursor, okay, buffering>> /\ AudioFlags /\ AudioRest

AudioWritten ==
    /\ audio_pc = "write" /\ (left = 0 \/ submitted >= Samples \/ stopping)
    /\ audio_pc' = "top" /\ left' = 0
    /\ UNCHANGED <<audio_cursor, submitted, okay, buffering, clock>>
    /\ AudioFlags /\ AudioRest

\* Mutant: the worker does not drain the DMA buffers.
AudioUndrained ==
    /\ audio_pc = "drain"
    /\ audio_pc' = "end"
    /\ UNCHANGED <<audio_cursor, left, submitted, okay, buffering, clock>>
    /\ AudioFlags /\ AudioRest

AudioDrained ==
    /\ audio_pc = "drain" /\ (stopping \/ submitted >= Samples + QueuedBlocks)
    /\ audio_pc' = "end"
    /\ UNCHANGED <<audio_cursor, left, submitted, okay, buffering, clock>>
    /\ AudioFlags /\ AudioRest

\* The decoder or the I2S driver reports an error.
AudioFault ==
    /\ "audio" \in Faults /\ audio_pc \in {"top", "write", "drain"} /\ ~stopping
    /\ okay' = FALSE
    /\ audio_pc' = "end"
    /\ UNCHANGED <<audio_cursor, left, submitted, buffering, clock>>
    /\ AudioFlags /\ AudioRest

AudioEnds ==
    /\ audio_pc = "end"
    /\ IF stopping THEN UNCHANGED <<audio_failed, audio_ended>>
                   ELSE audio_failed' = ~okay /\ audio_ended' = okay
    /\ audio_pc' = "give"
    /\ UNCHANGED <<audio_cursor, left, submitted, okay, buffering, clock, done>>
    /\ AudioRest

\* xSemaphoreGive, which fails if done has not been taken since; the worker's
\* locals go with it.
AudioGives ==
    /\ audio_pc = "give"
    /\ done' = TRUE
    /\ audio_failed' = (audio_failed \/ done)
    /\ audio_pc' = "none"
    /\ audio_cursor' = 1 /\ left' = 0 /\ submitted' = 0 /\ okay' = TRUE
    /\ UNCHANGED <<buffering, clock, audio_ended>> /\ AudioRest

-----------------------------------------------------------------------------
(* Radio worker: what the rest of radio_transfer.cpp does to the player.    *)

RadioRest == UNCHANGED <<mainVars, playerVars, videoVars, sharedVars, audioVars>>

\* service_player, up to its wait: a new transfer begins, over anything.
RadioBegins ==
    /\ radio_pc \in {"idle", "receiving"}
    /\ player_request' = "begin" /\ radio_pc' = "begin"
    /\ UNCHANGED <<player_result, lifecycle_done, clipVars>> /\ RadioRest

\* reject, up to its wait: a bad record, a bad finish, or ten silent seconds.
RadioRejects ==
    /\ radio_pc = "receiving"
    /\ player_request' = "clear" /\ radio_pc' = "clear"
    /\ UNCHANGED <<player_result, lifecycle_done, clipVars>> /\ RadioRest

RadioAnswered ==
    /\ radio_pc \in {"begin", "clear"} /\ lifecycle_done
    /\ lifecycle_done' = FALSE
    /\ IF radio_pc = "begin" /\ ~player_result
       THEN player_request' = "clear" /\ radio_pc' = "clear"
       ELSE /\ radio_pc' = IF radio_pc = "begin" THEN "receiving" ELSE "idle"
            /\ UNCHANGED player_request
    /\ UNCHANGED <<player_result, clipVars>> /\ RadioRest

\* ram_clip::append: a packet completes some records, published first ...
RadioPublishes ==
    /\ radio_pc = "receiving"
    /\ \E p \in (published + 1)..(Records + 1) : published' = p
    /\ radio_pc' = "horizon"
    /\ UNCHANGED <<player_request, player_result, lifecycle_done, clip, horizon, verified>>
    /\ RadioRest

\* ... and then counted as playable.
RadioCounts ==
    /\ radio_pc = "horizon"
    /\ horizon' = Horizon(published)
    /\ radio_pc' = "receiving"
    /\ UNCHANGED <<player_request, player_result, lifecycle_done, clip, published, verified>>
    /\ RadioRest

\* ram_clip::finish.
RadioFinishes ==
    /\ radio_pc = "receiving" /\ published = Records + 1
    /\ verified' = TRUE
    /\ radio_pc' = "idle"
    /\ UNCHANGED <<player_request, player_result, lifecycle_done, clip, published, horizon>>
    /\ RadioRest

-----------------------------------------------------------------------------

Poll == PollNothing \/ CommandPlay \/ TogglePause \/ AutoplayOn \/ AutoplayOff

Tick ==
    \/ TickArmed \/ TickHolds \/ TickAudioFailed \/ TickRuns \/ TickFetches
    \/ TickStarved \/ TickShows \/ TickDecodeFails \/ TickLoops

Jobs ==
    \/ JobPlay \/ JobPlayFails \/ JobStopped \/ JobClear
    \/ \E reason \in Reasons : JobFail(reason)
    \/ \E allocated \in {TRUE} \cup {"memory" \notin Faults} : JobBegin(allocated)

MainLoop == Poll \/ RadioTick \/ Tick \/ Join \/ Jobs

AudioWorker ==
    \/ AudioEnters \/ AudioLeaves \/ AudioFetches \/ AudioChecks \/ AudioStarves
    \/ AudioWrites \/ AudioWritten \/ AudioDrained \/ AudioFault \/ AudioEnds \/ AudioGives

RadioWorker ==
    \/ RadioBegins \/ RadioRejects \/ RadioAnswered
    \/ RadioPublishes \/ RadioCounts \/ RadioFinishes

Next == MainLoop \/ AudioWorker \/ RadioWorker

Spec == Init /\ [][Next]_vars

-----------------------------------------------------------------------------
(* Fairness.  loop() runs for ever, every task is scheduled, and i2s_write  *)
(* returns within its second.  A transfer goes on or is given up, which is  *)
(* what RadioTransfer shows (Settles); only BufferingEnds needs it.         *)

TasksRun == WF_vars(MainLoop) /\ WF_vars(AudioWorker) /\ WF_vars(RadioAnswered)

TransferGoesOn == WF_vars(RadioPublishes \/ RadioCounts \/ RadioFinishes)

FairSpec == Spec /\ TasksRun /\ TransferGoesOn

-----------------------------------------------------------------------------
(* Properties.                                                              *)

\* The type invariant of the main loop, the player, the workers and the memory.
TypeOK ==
    /\ main_pc \in {"poll", "radio", "tick", "gate", "video", "starved", "show", "loop",
                    "join", "job"}
    /\ job \in {"none", "play", "begin", "clear", "stopped"} \cup Reasons
    /\ resume \in {"poll", "radio", "tick", "gate"}
    /\ screen \in {"Waiting for stream", "Buffering stream...", "playing", "init failed",
                   "Stream failed"} \cup Reasons
    /\ {armed, playing, autoplay, have_video, stopping, paused, buffering, audio_failed,
        audio_ended, done, task_running, okay, verified, player_result,
        lifecycle_done} \subseteq BOOLEAN
    /\ {video_cursor, audio_cursor} \subseteq 1..(Records + 1)
    /\ pending_sample \in Nat /\ decoded \in 0..Frames /\ clock \in 0..Samples
    /\ audio_pc \in {"none", "top", "next", "check", "starve", "write", "drain", "end", "give"}
    /\ left \in 0..RecordBlocks /\ submitted \in 0..(Samples + QueuedBlocks)
    /\ clip \in {0, 1} /\ published \in 0..(Records + 1) /\ horizon \in 0..Samples
    /\ radio_pc \in {"idle", "receiving", "horizon", "begin", "clear"}
    /\ player_request \in {"idle", "begin", "clear"}

\* The clip memory is freed or replaced (radio_transfer::tick) only when no task
\* can still read it: the audio worker has been joined, whatever it was blocked
\* in, and the main loop plays nothing.
ClipOutlivesReaders == [][clip' # clip => audio_pc = "none" /\ ~playing]_vars

\* start_audio, stop() and the worker agree on who is alive: done is given once
\* per worker and taken once, so no worker is left unjoined, none is joined
\* twice, and a stale done never lets stop() return early.
JoinInStep ==
    /\ task_running <=> audio_pc # "none" \/ done
    /\ audio_pc = "none" \/ ~done
    /\ playing => task_running

\* Both readers stay inside the published part of the clip now in memory, and
\* no more sound is submitted than its records hold: a cursor or a clock that
\* outlived its clip would break this (player::play, ram_clip::next).
ReadersWithinPublished ==
    /\ playing => video_cursor <= published
    /\ audio_pc # "none" =>
          /\ audio_cursor <= published
          /\ submitted <= Samples =>
                submitted + left <= (CountOf("audio", audio_cursor - 1) - 1) * RecordBlocks
                \/ submitted + left = 0

\* Every picture is decoded once and in order, however often playback is held:
\* H.264 references survive buffering, pauses and late frames.
PicturesOnce ==
    playing => CountOf("video", video_cursor - 1) = decoded + (IF have_video THEN 1 ELSE 0)

\* audio_ended means heard: the DMA buffers are drained and the clock has
\* reached the end, so the last pictures are due and the clip can loop.
EndedIsHeard == audio_ended => clock = Samples

\* stop() always returns: the worker sees stopping wherever it waits, paused
\* or starved.
StopReturns == main_pc = "join" ~> main_pc = "job"

\* The radio worker never waits for ever in service_player.
RadioIsServed == radio_pc \in {"begin", "clear"} ~> radio_pc \notin {"begin", "clear"}

\* A verified clip that is being played and not paused is heard and shown to
\* its end, where it loops, unless playback is stopped.
PlaysToTheEnd ==
    playing /\ verified ~> \/ audio_ended /\ decoded = Frames
                           \/ paused \/ ~playing

\* README.md: "If reception falls behind, audio and video pause until the buffer
\* refills."  Without any fault, falling behind never ends playback.
FallingBehindOnlyHolds ==
    screen \notin {"Missing video frame", "AAC/PDM playback failed"}
=============================================================================
