--------------------------- MODULE AvPlayerProofs ---------------------------
(***************************************************************************)
(* The wireless_av player's worker outlives nothing it uses, and its        *)
(* pictures follow the sound, for every clip, block, depth of the DMA       *)
(* buffers and choice of commands and faults.                               *)
(***************************************************************************)
EXTENDS AvPlayer, TLAPS

\* What stop has asked for, and why a worker gives the semaphore.
StopAsked ==
    /\ main_pc = "stop" /\ audio_task_running => stopping
    /\ audio_pc = "give" => stopping \/ audio_failed

\* What is submitted was heard or is in the buffers, and the clock is made of it.
SoundAdds ==
    audio_task_running =>
        /\ heard + dma = submitted + Unpublished
        /\ presented_samples = ClockAfter(submitted)
        /\ input_offset = (submitted + Unpublished) % Samples

\* The last picture drawn belongs to sound that was heard, and lies behind the file's
\* position; the pictures' cycle is not ahead of the clock's.
PicturesFollow ==
    /\ audio_task_running =>
          /\ video_cycle <= Cycle
          /\ shown[2] >= 0 => (shown[1] * Samples) * Fps + shown[2] * Rate <= heard * Fps
    /\ main_pc = "loop" /\ video /\ shown # NoPicture =>
          /\ shown[1] <= video_cycle
          /\ shown[1] = video_cycle => shown[2] < position

IInv == AvTypeOK /\ JoinInStep /\ StopAsked /\ InPosition /\ SoundAdds /\ PicturesFollow

-----------------------------------------------------------------------------
(* Arithmetic.                                                              *)

LEMMA ConstantsUsed ==
    /\ Frames \in Nat \ {0} /\ Fps \in Nat \ {0} /\ Rate \in Nat \ {0} /\ Block \in Nat \ {0}
    /\ Queued \in Nat \ {0} /\ Samples \in Nat \ {0} /\ Block <= Queued
  BY AvPlayerConstants

LEMMA DivMod ==
    ASSUME NEW x \in Nat, NEW y \in Nat \ {0}
    PROVE  x \div y \in Nat /\ x % y \in 0..(y - 1) /\ x = y * (x \div y) + (x % y)
  OBVIOUS

LEMMA DivGrows ==
    ASSUME NEW x \in Nat, NEW z \in Nat, NEW y \in Nat \ {0}, x <= z
    PROVE  x \div y <= z \div y
  OBVIOUS

\* A remainder is unique.
LEMMA OneRemainder ==
    ASSUME NEW y \in Nat \ {0}, NEW a \in Int, NEW b \in Int,
           NEW r \in 0..(y - 1), NEW s \in 0..(y - 1), y * a + r = y * b + s
    PROVE  r = s
  <1>1. CASE a = b
    BY <1>1
  <1>2. CASE a < b
    <2>1. y * (b - a) >= y
      BY <1>2
    <2> QED BY <2>1
  <1>3. CASE b < a
    <2>1. y * (a - b) >= y
      BY <1>3
    <2> QED BY <2>1
  <1> QED BY <1>1, <1>2, <1>3

\* The offset may be reduced as it grows.
LEMMA ModAdds ==
    ASSUME NEW x \in Nat, NEW n \in Nat, NEW y \in Nat \ {0}
    PROVE  ((x % y) + n) % y = (x + n) % y
  <1> DEFINE q1 == x \div y         r1 == x % y
             q2 == (r1 + n) \div y  r2 == (r1 + n) % y
             q3 == (x + n) \div y   r3 == (x + n) % y
  <1>1. q1 \in Nat /\ r1 \in 0..(y - 1) /\ x = y * q1 + r1
    BY DivMod
  <1>2. q2 \in Nat /\ r2 \in 0..(y - 1) /\ r1 + n = y * q2 + r2
    <2>1. r1 + n \in Nat
      BY <1>1
    <2> HIDE DEF r1
    <2> QED BY <2>1, DivMod
  <1>3. q3 \in Nat /\ r3 \in 0..(y - 1) /\ x + n = y * q3 + r3
    <2>1. x + n \in Nat
      OBVIOUS
    <2> QED BY <2>1, DivMod
  <1> HIDE DEF q1, r1, q2, r2, q3, r3
  <1>4. y * (q1 + q2) + r2 = y * q3 + r3
    BY <1>1, <1>2, <1>3
  <1>5. r2 = r3
    <2> DEFINE e == q1 + q2
    <2>1. e \in Int /\ y * e + r2 = y * q3 + r3
      BY <1>1, <1>2, <1>4
    <2> HIDE DEF e
    <2>2. q3 \in Int
      BY <1>3
    <2> QED BY <1>2, <1>3, <2>1, <2>2, OneRemainder
  <1> QED BY <1>5 DEF r1, r2, r3

LEMMA ZeroMod == 0 % Samples = 0
  BY ConstantsUsed

\* The clock only goes forward, and never beyond what has left the buffers.
LEMMA ClockGrows ==
    ASSUME NEW s \in Nat, NEW t \in Nat, s <= t
    PROVE  /\ ClockAfter(s) \in Nat /\ ClockAfter(s) <= ClockAfter(t)
           /\ ClockAfter(s) <= s /\ s <= ClockAfter(s) + Queued
           /\ ClockAfter(s) = 0 \/ ClockAfter(s) = s - Queued
  BY ConstantsUsed DEF ClockAfter

\* The picture that is due belongs to the sound up to the clock.
LEMMA TargetIsHeard ==
    ASSUME presented_samples \in Nat
    PROVE  /\ target_frame \in 0..(Frames - 1) /\ Cycle \in Nat
           /\ (Cycle * Samples) * Fps + target_frame * Rate <= presented_samples * Fps
  <1> USE ConstantsUsed
  <1> DEFINE rest == presented_samples % Samples
             due == (rest * Fps) \div Rate
  <1>1. Cycle \in Nat /\ rest \in Nat /\ presented_samples = Samples * Cycle + rest
    BY DivMod DEF Cycle
  <1> HIDE DEF rest
  <1>2. due \in Nat /\ due * Rate <= rest * Fps
    <2> DEFINE product == rest * Fps
    <2>1. product \in Nat
      BY <1>1
    <2> HIDE DEF product
    <2>2. due \in Nat /\ product % Rate \in 0..(Rate - 1)
          /\ product = Rate * (product \div Rate) + (product % Rate)
      BY <2>1, DivMod DEF product
    <2>3. product \div Rate = due
      BY DEF product
    <2> HIDE DEF due
    <2> QED BY <2>1, <2>2, <2>3 DEF product
  <1>3. target_frame = Lesser(Frames - 1, due)
    BY DEF target_frame, rest
  <1> HIDE DEF due
  <1>4. target_frame \in 0..(Frames - 1) /\ target_frame <= due
    BY <1>2, <1>3 DEF Lesser
  <1> HIDE DEF Cycle
  <1>5. target_frame * Rate <= due * Rate
    BY <1>2, <1>4
  <1>6. (Cycle * Samples) * Fps + rest * Fps = presented_samples * Fps
    BY <1>1
  <1>7. target_frame * Rate \in Int /\ due * Rate \in Int /\ rest * Fps \in Int
        /\ (Cycle * Samples) * Fps \in Int /\ presented_samples * Fps \in Int
    BY <1>1, <1>2, <1>4
  <1>8. (Cycle * Samples) * Fps + target_frame * Rate <= presented_samples * Fps
    BY <1>2, <1>5, <1>6, <1>7
  <1> QED BY <1>1, <1>4, <1>8

-----------------------------------------------------------------------------
(* The main loop's steps.                                                   *)

LEMMA InitIInv == AvInit => IInv
  <1> SUFFICES ASSUME AvInit PROVE IInv
    OBVIOUS
  <1>1. AvTypeOK
    <2>1. {video, audio_data, driver_installed, audio_task_running, stopping, paused,
           audio_failed, audio_done, i2s_on} \subseteq BOOLEAN
      BY DEF AvInit
    <2>2. shown \in Nat \X (-1..(Frames - 1))
      BY ConstantsUsed DEF AvInit, NoPicture
    <2> QED BY <2>1, <2>2, ConstantsUsed DEF AvInit, AvTypeOK
  <1>2. JoinInStep /\ StopAsked /\ InPosition /\ SoundAdds
    BY DEF AvInit, JoinInStep, Alive, StopAsked, InPosition, SoundAdds
  <1>3. PicturesFollow
    BY DEF AvInit, PicturesFollow
  <1> QED BY <1>1, <1>2, <1>3 DEF IInv

\* stop() is entered: nothing that the main loop keeps is promised until it returns.
LEMMA StopForKeeps ==
    ASSUME IInv, NEW what \in {"none", "play"}, main_pc = "loop", StopFor(what),
           position' = position, shown' = shown, video' = video, decoded' = decoded,
           video_cycle' = video_cycle \/ video_cycle' = Cycle, frame_index' \in 0..Frames,
           UNCHANGED <<audioVars, paused, audio_failed, presented_samples, audio_done,
                       workerVars, outputVars>>
    PROVE  IInv'
  <1> USE DEF StopFor, audioVars, workerVars, outputVars
  <1>1. Cycle \in Nat
    BY ConstantsUsed, DivMod DEF Cycle, IInv, AvTypeOK
  <1>2. AvTypeOK'
    <2>1. stopping' \in BOOLEAN
      BY DEF IInv, AvTypeOK
    <2> QED BY <1>1, <2>1 DEF IInv, AvTypeOK
  <1>3. JoinInStep' /\ StopAsked' /\ InPosition' /\ SoundAdds'
    BY DEF IInv, JoinInStep, Alive, StopAsked, InPosition, SoundAdds, Unpublished
  <1>4. PicturesFollow'
    BY <1>1 DEF IInv, AvTypeOK, PicturesFollow, Cycle
  <1> QED BY <1>2, <1>3, <1>4 DEF IInv

LEMMA AsksKeep == IInv /\ (Play \/ Begin \/ TickAudioFailed) => IInv'
  <1>1. ASSUME IInv, Play PROVE IInv'
    BY <1>1, StopForKeeps DEF Play, AskStop, videoVars, IInv, AvTypeOK
  <1>2. ASSUME IInv, Begin PROVE IInv'
    BY <1>2, StopForKeeps DEF Begin, AskStop, videoVars, IInv, AvTypeOK
  <1>3. ASSUME IInv, TickAudioFailed PROVE IInv'
    BY <1>3, StopForKeeps DEF TickAudioFailed, TickOnly, videoVars, IInv, AvTypeOK
  <1> QED BY <1>1, <1>2, <1>3

\* What a picture side that is open may count on.
LEMMA TicksFrom ==
    ASSUME IInv, Ticks
    PROVE  /\ audio_task_running /\ ~stopping /\ position = frame_index
           /\ NextFrame = Rewound /\ NextFrame \in 0..Frames
           /\ target_frame \in 0..(Frames - 1) /\ Cycle \in Nat /\ video_cycle <= Cycle
  BY TargetIsHeard, ConstantsUsed
  DEF Ticks, IInv, AvTypeOK, JoinInStep, InPosition, PicturesFollow, NextFrame, Rewound

LEMMA TickFailsKeeps == IInv /\ TickFails => IInv'
  <1> SUFFICES ASSUME IInv, TickFails PROVE IInv'
    OBVIOUS
  <1>1. frame_index' \in 0..Frames /\ (video_cycle' = video_cycle \/ video_cycle' = Cycle)
    BY TicksFrom, ConstantsUsed DEF TickFails, IInv, AvTypeOK
  <1> QED BY <1>1, StopForKeeps DEF TickFails, Ticks, TickOnly

\* The other ticks leave everything but the picture side alone.
LEMMA TickShowsKeeps == IInv /\ (TickShows \/ TickSkips \/ TickEarly) => IInv'
  <1> SUFFICES ASSUME IInv, TickShows \/ TickSkips \/ TickEarly PROVE IInv'
    OBVIOUS
  <1> USE DEF TickOnly, mainVars, audioVars, workerVars, outputVars
  <1>1. Ticks /\ video_cycle' = Cycle
        /\ UNCHANGED <<main_pc, job, video, stopping, audio_data, driver_installed,
                       audio_task_running, paused, audio_failed, presented_samples, audio_done,
                       audio_pc, input_offset, submitted, i2s_on, dma, heard>>
    BY DEF TickShows, TickSkips, TickEarly
  <1>2. /\ audio_task_running /\ ~stopping /\ position = frame_index /\ NextFrame = Rewound
        /\ NextFrame \in 0..Frames /\ target_frame \in 0..(Frames - 1) /\ Cycle \in Nat
        /\ video_cycle <= Cycle
    BY <1>1, TicksFrom
  <1>3. position' = frame_index' /\ position' \in 0..Frames /\ position' >= Rewound
    <2>1. \/ position' = Rewound + 1 /\ frame_index' = NextFrame + 1 /\ NextFrame <= target_frame
          \/ position' = Rewound /\ frame_index' = NextFrame
      <3>1. (TickShows \/ TickSkips) => position' = Rewound + 1 /\ frame_index' = NextFrame + 1
                                        /\ (NextFrame = target_frame \/ NextFrame < target_frame)
        BY DEF TickShows, TickSkips
      <3>2. TickEarly => position' = Rewound /\ frame_index' = NextFrame
        BY DEF TickEarly
      <3> QED BY <1>2, <3>1, <3>2
    <2> QED BY <1>2, <2>1, ConstantsUsed
  <1>4. \/ shown' = <<Cycle, Rewound>> /\ Rewound = target_frame /\ position' = Rewound + 1
           /\ decoded' = decoded + 1
        \/ shown' = shown /\ decoded' = decoded
    BY <1>2 DEF TickShows, TickSkips, TickEarly
  <1>5. AvTypeOK'
    BY <1>1, <1>2, <1>3, <1>4, ConstantsUsed DEF IInv, AvTypeOK
  <1>6. JoinInStep' /\ StopAsked' /\ SoundAdds'
    BY <1>1 DEF IInv, JoinInStep, Alive, StopAsked, SoundAdds, Unpublished
  <1>7. InPosition'
    BY <1>3 DEF InPosition
  <1>8. PicturesFollow'
    <2> HIDE DEF Cycle, Rewound, target_frame
    <2>1. Cycle' = Cycle
      BY <1>1 DEF Cycle
    <2>2. shown'[2] >= 0 => (shown'[1] * Samples) * Fps + shown'[2] * Rate <= heard' * Fps
      <3>1. CASE shown' = shown
        BY <1>1, <1>2, <3>1 DEF IInv, PicturesFollow
      <3>2. CASE shown' = <<Cycle, Rewound>> /\ Rewound = target_frame
        <4>1. presented_samples \in Nat /\ heard \in Nat /\ presented_samples <= heard
          BY <1>2, ClockGrows, ConstantsUsed, SMTT(30) DEF IInv, AvTypeOK, SoundAdds, Unpublished
        <4>2. presented_samples * Fps <= heard * Fps
          BY <4>1, ConstantsUsed
        <4>3. (Cycle * Samples) * Fps + target_frame * Rate <= presented_samples * Fps
          BY <4>1, TargetIsHeard
        <4>4. (Cycle * Samples) * Fps + target_frame * Rate \in Int
              /\ presented_samples * Fps \in Int /\ heard * Fps \in Int
          BY <1>2, <4>1, ConstantsUsed
        <4>5. (Cycle * Samples) * Fps + target_frame * Rate <= heard * Fps
          BY <4>2, <4>3, <4>4
        <4> QED BY <1>1, <3>2, <4>5
      <3> QED BY <1>4, <3>1, <3>2
    <2>3. shown' # NoPicture => shown'[1] <= video_cycle'
                                /\ (shown'[1] = video_cycle' => shown'[2] < position')
      <3>1. CASE shown' = <<Cycle, Rewound>> /\ position' = Rewound + 1
        BY <1>1, <1>2, <3>1
      <3>2. CASE shown' = shown
        <4>1. shown # NoPicture => shown[1] <= video_cycle
                                   /\ (shown[1] = video_cycle => shown[2] < position)
          BY <1>1 DEF Ticks, IInv, PicturesFollow
        <4>2. Cycle = video_cycle => Rewound = position
          BY DEF Rewound
        <4>3. shown[1] \in Nat /\ shown[2] \in Int /\ video_cycle \in Nat
              /\ position \in Int /\ position' \in Int
          BY <1>3 DEF IInv, AvTypeOK
        <4> QED BY <1>1, <1>2, <1>3, <3>2, <4>1, <4>2, <4>3
      <3> QED BY <1>4, <3>1, <3>2
    <2>4. video_cycle' <= Cycle'
      BY <1>1, <1>2, <2>1
    <2> QED BY <2>2, <2>3, <2>4 DEF PicturesFollow
  <1> QED BY <1>5, <1>6, <1>7, <1>8 DEF IInv

LEMMA TogglePauseKeeps == IInv /\ TogglePause => IInv'
  <1> SUFFICES ASSUME IInv, TogglePause PROVE IInv'
    OBVIOUS
  <1> USE DEF TogglePause, mainVars, videoVars, audioVars, workerVars, outputVars
  <1>1. AvTypeOK'
    <2>1. paused' \in BOOLEAN
      OBVIOUS
    <2> QED BY <2>1 DEF IInv, AvTypeOK
  <1>2. JoinInStep' /\ StopAsked' /\ InPosition' /\ SoundAdds'
    BY DEF IInv, JoinInStep, Alive, StopAsked, InPosition, SoundAdds, Unpublished
  <1>3. PicturesFollow'
    BY DEF IInv, PicturesFollow, Cycle
  <1> QED BY <1>1, <1>2, <1>3 DEF IInv

\* When stop returns there is no worker, and no semaphore is left to be taken.
LEMMA ReturnsAlone ==
    ASSUME IInv, NEW what, Returns(what)
    PROVE  ~Alive /\ main_pc' = "loop" /\ job' = "none" /\ audio_done' = FALSE
  BY DEF Returns, Joined, TakeDone, IInv, AvTypeOK, JoinInStep, Alive

\* No playback: nothing is promised but the types.
LEMMA ClosedKeeps ==
    ASSUME IInv, ~Alive, Closed, main_pc' = "loop", job' = "none", audio_done' = FALSE,
           UNCHANGED workerVars, position' \in 0..Frames, frame_index' \in 0..Frames,
           video_cycle' \in Nat, decoded' \in Nat, shown' \in Nat \X (-1..(Frames - 1)),
           stopping' \in BOOLEAN, paused' \in BOOLEAN, audio_failed' \in BOOLEAN,
           presented_samples' \in Nat, heard' \in Nat
    PROVE  IInv'
  <1> USE DEF Closed, workerVars
  <1>1. AvTypeOK'
    <2>1. dma' \in 0..Queued
      BY ConstantsUsed
    <2>2. {video, audio_data, driver_installed, audio_task_running, stopping, paused,
           audio_failed, audio_done, i2s_on}' \subseteq BOOLEAN
      OBVIOUS
    <2> QED BY <2>1, <2>2 DEF IInv, AvTypeOK
  <1>2. audio_pc' = "none"
    BY DEF Alive
  <1>3. JoinInStep' /\ StopAsked' /\ InPosition' /\ SoundAdds' /\ PicturesFollow'
    BY <1>2 DEF JoinInStep, Alive, StopAsked, InPosition, SoundAdds, PicturesFollow
  <1> QED BY <1>1, <1>3 DEF IInv

LEMMA StopReturnsKeeps == IInv /\ (StopReturns \/ PlayRefused) => IInv'
  <1> SUFFICES ASSUME IInv, StopReturns \/ PlayRefused PROVE IInv'
    OBVIOUS
  <1>1. Closed /\ UNCHANGED <<position, shown, stopping, paused, audio_failed,
                              presented_samples, workerVars, heard>>
    BY DEF StopReturns, PlayRefused
  <1>2. frame_index' \in 0..Frames /\ video_cycle' \in Nat /\ decoded' \in Nat
    BY ConstantsUsed DEF StopReturns, PlayRefused, IInv, AvTypeOK
  <1>3. ~Alive /\ main_pc' = "loop" /\ job' = "none" /\ audio_done' = FALSE
    BY ReturnsAlone DEF StopReturns, PlayRefused
  <1> QED BY <1>1, <1>2, <1>3, ClosedKeeps DEF IInv, AvTypeOK

\* What a playback starts from.
LEMMA ResetTypes ==
    ASSUME PlayResets
    PROVE  /\ position' \in 0..Frames /\ frame_index' \in 0..Frames
           /\ video_cycle' \in Nat /\ decoded' \in Nat /\ shown' \in Nat \X (-1..(Frames - 1))
           /\ stopping' \in BOOLEAN /\ paused' \in BOOLEAN /\ audio_failed' \in BOOLEAN
           /\ presented_samples' \in Nat /\ heard' \in Nat
  <1>1. shown' \in Nat \X (-1..(Frames - 1))
    BY ConstantsUsed DEF PlayResets, NoPicture
  <1>2. stopping' \in BOOLEAN /\ paused' \in BOOLEAN /\ audio_failed' \in BOOLEAN
    BY DEF PlayResets
  <1> QED BY <1>1, <1>2, ConstantsUsed DEF PlayResets

LEMMA PlayWithoutTaskKeeps == IInv /\ PlayWithoutTask => IInv'
  BY ReturnsAlone, ResetTypes, ClosedKeeps DEF PlayWithoutTask

LEMMA PlayStartsKeeps == IInv /\ PlayStarts => IInv'
  <1> SUFFICES ASSUME IInv, PlayStarts PROVE IInv'
    OBVIOUS
  <1>1. ~Alive /\ main_pc' = "loop" /\ job' = "none" /\ audio_done' = FALSE
    BY ReturnsAlone DEF PlayStarts
  <1>2. /\ video' = TRUE /\ audio_data' = TRUE /\ driver_installed' = TRUE /\ i2s_on' = TRUE
        /\ dma' = 0 /\ audio_task_running' = TRUE /\ audio_pc' = "check" /\ input_offset' = 0
        /\ submitted' = 0 /\ position' = 0 /\ frame_index' = 0 /\ video_cycle' = 0
        /\ shown' = NoPicture /\ stopping' = FALSE /\ audio_failed' = FALSE
        /\ presented_samples' = 0 /\ heard' = 0
    BY DEF PlayStarts, PlayResets
  <1>3. AvTypeOK'
    <2>1. dma' \in 0..Queued /\ input_offset' \in 0..(Samples - 1)
      BY <1>2, ConstantsUsed
    <2>2. {video, audio_data, driver_installed, audio_task_running, stopping, paused,
           audio_failed, audio_done, i2s_on}' \subseteq BOOLEAN
      BY <1>1, <1>2, ResetTypes DEF PlayStarts
    <2> QED BY <1>1, <1>2, <2>1, <2>2, ResetTypes DEF PlayStarts, AvTypeOK
  <1>4. JoinInStep' /\ StopAsked' /\ InPosition'
    BY <1>1, <1>2 DEF JoinInStep, Alive, StopAsked, InPosition
  <1>5. SoundAdds'
    <2>1. ClockAfter(0) = 0
      BY ConstantsUsed DEF ClockAfter
    <2> QED BY <1>2, <2>1, ZeroMod DEF SoundAdds, Unpublished
  <1>6. PicturesFollow'
    <2>1. Cycle' \in Nat
      BY <1>2, ConstantsUsed, DivMod DEF Cycle
    <2> QED BY <1>2, <2>1 DEF PicturesFollow, NoPicture
  <1> QED BY <1>3, <1>4, <1>5, <1>6 DEF IInv

-----------------------------------------------------------------------------
(* The worker's and the driver's.                                           *)

\* A step that neither submits nor publishes.
LEMMA WorkerMovesKeep ==
    ASSUME IInv, MainUntouched, Alive, audio_pc # "publish",
           audio_pc' \in {"check", "pause", "held", "write", "give"},
           UNCHANGED <<presented_samples, audio_done, input_offset, submitted, dma, heard>>,
           audio_failed' \in BOOLEAN, i2s_on' \in BOOLEAN, audio_failed => audio_failed',
           audio_pc' = "give" => stopping \/ audio_failed'
    PROVE  IInv'
  <1> USE DEF MainUntouched, mainVars, videoVars, audioVars
  <1>1. AvTypeOK'
    <2>1. {video, audio_data, driver_installed, audio_task_running, stopping, paused,
           audio_failed, audio_done, i2s_on}' \subseteq BOOLEAN
      BY DEF IInv, AvTypeOK
    <2> QED BY <2>1 DEF IInv, AvTypeOK
  <1>2. JoinInStep' /\ StopAsked' /\ InPosition' /\ SoundAdds'
    BY DEF IInv, JoinInStep, Alive, StopAsked, InPosition, SoundAdds, Unpublished
  <1>3. PicturesFollow'
    BY DEF IInv, PicturesFollow, Cycle
  <1> QED BY <1>1, <1>2, <1>3 DEF IInv

LEMMA WorkerStepsKeep ==
    IInv /\ (WorkerChecks \/ WorkerPauses \/ WorkerHeld \/ WorkerFails) => IInv'
  <1>1. ASSUME IInv, WorkerChecks PROVE IInv'
    BY <1>1, WorkerMovesKeep DEF WorkerChecks, outputVars, Alive, IInv, AvTypeOK
  <1>2. ASSUME IInv, WorkerPauses PROVE IInv'
    BY <1>2, WorkerMovesKeep DEF WorkerPauses, Alive, IInv, AvTypeOK
  <1>3. ASSUME IInv, WorkerHeld PROVE IInv'
    BY <1>3, WorkerMovesKeep DEF WorkerHeld, Alive, IInv, AvTypeOK
  <1>4. ASSUME IInv, WorkerFails PROVE IInv'
    BY <1>4, WorkerMovesKeep DEF WorkerFails, outputVars, Alive, IInv, AvTypeOK
  <1> QED BY <1>1, <1>2, <1>3, <1>4

LEMMA WorkerWritesKeeps == IInv /\ WorkerWrites => IInv'
  <1> SUFFICES ASSUME IInv, WorkerWrites PROVE IInv'
    OBVIOUS
  <1> USE DEF MainUntouched, mainVars, videoVars, audioVars
  <1>1. /\ audio_pc = "write" /\ audio_pc' = "publish" /\ dma + Block <= Queued
        /\ dma' = dma + Block /\ input_offset' = (input_offset + Block) % Samples
        /\ UNCHANGED <<mainVars, videoVars, audioVars, stopping, paused, audio_failed,
                       presented_samples, audio_done, submitted, i2s_on, heard>>
    BY DEF WorkerWrites, Room
  <1>2. AvTypeOK'
    <2>1. input_offset' \in 0..(Samples - 1)
      <3> DEFINE next == input_offset + Block
      <3>1. next \in Nat
        BY ConstantsUsed DEF IInv, AvTypeOK
      <3> HIDE DEF next
      <3>2. next % Samples \in 0..(Samples - 1)
        BY <3>1, ConstantsUsed, DivMod
      <3> QED BY <1>1, <3>2 DEF next
    <2>2. dma' \in 0..Queued
      BY <1>1, ConstantsUsed DEF IInv, AvTypeOK
    <2> QED BY <1>1, <2>1, <2>2 DEF IInv, AvTypeOK
  <1>3. JoinInStep' /\ StopAsked' /\ InPosition'
    BY <1>1 DEF IInv, JoinInStep, Alive, StopAsked, InPosition
  <1>4. SoundAdds'
    <2> SUFFICES ASSUME audio_task_running
                 PROVE  /\ heard + dma + Block = submitted + Block
                        /\ presented_samples = ClockAfter(submitted)
                        /\ input_offset' = (submitted + Block) % Samples
      BY <1>1, ConstantsUsed DEF SoundAdds, Unpublished, IInv, AvTypeOK
    <2>1. heard + dma = submitted /\ presented_samples = ClockAfter(submitted)
          /\ input_offset = submitted % Samples
      BY <1>1 DEF IInv, AvTypeOK, SoundAdds, Unpublished
    <2>2. input_offset' = (submitted + Block) % Samples
      <3>1. submitted \in Nat /\ Block \in Nat /\ Samples \in Nat \ {0}
        BY ConstantsUsed DEF IInv, AvTypeOK
      <3>2. ((submitted % Samples) + Block) % Samples = (submitted + Block) % Samples
        BY <3>1, ModAdds
      <3> QED BY <1>1, <2>1, <3>2
    <2> QED BY <2>1, <2>2
  <1>5. PicturesFollow'
    BY <1>1 DEF IInv, PicturesFollow, Cycle
  <1> QED BY <1>2, <1>3, <1>4, <1>5 DEF IInv

LEMMA WorkerPublishesKeeps == IInv /\ WorkerPublishes => IInv'
  <1> SUFFICES ASSUME IInv, WorkerPublishes PROVE IInv'
    OBVIOUS
  <1> USE DEF MainUntouched, mainVars, videoVars, audioVars, outputVars
  <1>1. /\ audio_pc = "publish" /\ audio_pc' = "check" /\ submitted' = submitted + Block
        /\ presented_samples' = ClockAfter(submitted')
        /\ UNCHANGED <<mainVars, videoVars, audioVars, stopping, paused, audio_failed,
                       audio_done, input_offset, outputVars>>
    BY DEF WorkerPublishes
  <1>2. submitted \in Nat /\ submitted' \in Nat /\ submitted <= submitted'
    BY <1>1, ConstantsUsed DEF IInv, AvTypeOK
  <1>3. presented_samples' \in Nat
    BY <1>1, <1>2, ClockGrows
  <1>4. AvTypeOK'
    BY <1>1, <1>2, <1>3 DEF IInv, AvTypeOK
  <1>5. JoinInStep' /\ StopAsked' /\ InPosition'
    BY <1>1 DEF IInv, JoinInStep, Alive, StopAsked, InPosition
  <1>6. SoundAdds'
    BY <1>1, <1>2 DEF IInv, SoundAdds, Unpublished
  <1>7. PicturesFollow'
    <2>1. audio_task_running => Cycle <= Cycle'
      <3>1. audio_task_running => presented_samples = ClockAfter(submitted)
        BY DEF IInv, SoundAdds
      <3>2. audio_task_running => presented_samples <= presented_samples'
        BY <1>1, <1>2, <3>1, ClockGrows
      <3>3. presented_samples \in Nat
        BY DEF IInv, AvTypeOK
      <3> QED BY <1>3, <3>2, <3>3, ConstantsUsed, DivGrows DEF Cycle
    <2>2. Cycle \in Nat /\ Cycle' \in Nat
      BY <1>3, ConstantsUsed, DivMod DEF Cycle, IInv, AvTypeOK
    <2>3. audio_task_running => video_cycle <= Cycle'
      BY <2>1, <2>2 DEF IInv, AvTypeOK, PicturesFollow
    <2> QED BY <1>1, <2>3 DEF IInv, PicturesFollow
  <1> QED BY <1>4, <1>5, <1>6, <1>7 DEF IInv

LEMMA WorkerGivesKeeps == IInv /\ WorkerGives => IInv'
  <1> SUFFICES ASSUME IInv, WorkerGives PROVE IInv'
    OBVIOUS
  <1> USE DEF WorkerGives, MainUntouched, mainVars, videoVars, audioVars, outputVars
  <1>1. AvTypeOK'
    BY DEF IInv, AvTypeOK
  <1>2. JoinInStep' /\ StopAsked' /\ InPosition' /\ SoundAdds'
    BY DEF IInv, JoinInStep, Alive, StopAsked, InPosition, SoundAdds, Unpublished
  <1>3. PicturesFollow'
    BY DEF IInv, PicturesFollow, Cycle
  <1> QED BY <1>1, <1>2, <1>3 DEF IInv

LEMMA HearKeeps == IInv /\ Hear => IInv'
  <1> SUFFICES ASSUME IInv, Hear PROVE IInv'
    OBVIOUS
  <1> USE DEF mainVars, videoVars, audioVars, sharedVars, workerVars
  <1>1. dma > 0 /\ dma' = dma - 1 /\ heard' = heard + 1
        /\ UNCHANGED <<mainVars, videoVars, audioVars, sharedVars, workerVars, i2s_on>>
    BY DEF Hear
  <1>2. AvTypeOK'
    BY <1>1, ConstantsUsed DEF IInv, AvTypeOK
  <1>3. JoinInStep' /\ StopAsked' /\ InPosition'
    BY <1>1 DEF IInv, JoinInStep, Alive, StopAsked, InPosition
  <1>4. SoundAdds'
    BY <1>1, ConstantsUsed DEF IInv, AvTypeOK, SoundAdds, Unpublished
  <1>5. PicturesFollow'
    <2>1. heard * Fps <= heard' * Fps
      BY <1>1, ConstantsUsed DEF IInv, AvTypeOK
    <2>2. (shown[1] * Samples) * Fps + shown[2] * Rate \in Int /\ heard * Fps \in Int
          /\ heard' * Fps \in Int
      BY <1>1, ConstantsUsed DEF IInv, AvTypeOK
    <2>3. (shown[1] * Samples) * Fps + shown[2] * Rate <= heard * Fps =>
             (shown[1] * Samples) * Fps + shown[2] * Rate <= heard' * Fps
      BY <2>1, <2>2
    <2>4. Cycle' = Cycle
      BY <1>1 DEF Cycle
    <2> QED BY <1>1, <2>3, <2>4 DEF IInv, PicturesFollow
  <1> QED BY <1>2, <1>3, <1>4, <1>5 DEF IInv

LEMMA AvStepKeeps == IInv /\ [AvNext]_avVars => IInv'
  <1>1. IInv /\ UNCHANGED avVars => IInv'
    BY DEF IInv, AvTypeOK, JoinInStep, Alive, StopAsked, InPosition, SoundAdds, Unpublished,
           PicturesFollow, Cycle, avVars, mainVars, videoVars, audioVars, sharedVars,
           workerVars, outputVars
  <1>2. IInv /\ AfterStop => IInv'
    BY StopReturnsKeeps, PlayStartsKeeps, PlayWithoutTaskKeeps DEF AfterStop
  <1>3. IInv /\ (Play \/ Begin \/ TogglePause \/ Tick) => IInv'
    BY AsksKeep, TogglePauseKeeps, TickShowsKeeps, TickFailsKeeps DEF Tick
  <1>4. IInv /\ Worker => IInv'
    BY WorkerStepsKeep, WorkerWritesKeeps, WorkerPublishesKeeps, WorkerGivesKeeps DEF Worker
  <1> QED BY <1>1, <1>2, <1>3, <1>4, HearKeeps DEF AvNext

LEMMA Invariant == AvSpec => []IInv
  BY InitIInv, AvStepKeeps, PTL DEF AvSpec

-----------------------------------------------------------------------------
(* The theorems.                                                            *)

\* The type invariant: the DMA buffers are never overfilled.
THEOREM TypeCorrect == AvSpec => []AvTypeOK
  BY Invariant, PTL DEF IInv

\* One worker at a time, one semaphore for each, and what it uses outlives it.
THEOREM WorkersAreJoined == AvSpec => []JoinInStep
  BY Invariant, PTL DEF IInv

\* The file is at the next frame's length, through every skip and rewind.
THEOREM FileInPosition == AvSpec => []InPosition
  BY Invariant, PTL DEF IInv

\* No picture is drawn before the sound it belongs to, and the clock lags by no more
\* than the buffers hold and the block being written.
THEOREM PicturesNeverAhead == AvSpec => []NeverAhead
  <1>1. IInv => NeverAhead
    <2> SUFFICES ASSUME IInv, audio_task_running PROVE NeverAhead
      BY DEF NeverAhead
    <2>1. heard + dma = submitted + Unpublished /\ presented_samples = ClockAfter(submitted)
          /\ input_offset = (submitted + Unpublished) % Samples
      BY DEF IInv, SoundAdds
    <2>2. heard \in Nat /\ dma \in 0..Queued /\ submitted \in Nat /\ Unpublished \in Nat
      BY ConstantsUsed DEF IInv, AvTypeOK, Unpublished
    <2>3. presented_samples <= heard /\ heard <= presented_samples + Queued + Unpublished
      BY <2>1, <2>2, ClockGrows, ConstantsUsed
    <2>4. shown[2] >= 0 => (shown[1] * Samples) * Fps + shown[2] * Rate <= heard * Fps
      BY DEF IInv, PicturesFollow
    <2> QED BY <2>1, <2>3, <2>4 DEF NeverAhead
  <1> QED BY <1>1, Invariant, PTL

\* Within a playback the pictures only go forward, none is drawn twice.
THEOREM PicturesInOrder == AvSpec => PicturesGoForward
  <1>1. IInv /\ [AvNext]_avVars =>
          [decoded' > decoded => \/ shown'[1] > shown[1]
                                 \/ shown'[1] = shown[1] /\ shown'[2] > shown[2]]_avVars
    <2>1. ASSUME IInv, TickShows
          PROVE  shown'[1] > shown[1] \/ (shown'[1] = shown[1] /\ shown'[2] > shown[2])
      <3>1. /\ Rewound \in 0..Frames /\ Cycle \in Nat /\ video_cycle <= Cycle
            /\ shown' = <<Cycle, Rewound>> /\ main_pc = "loop" /\ video
        BY <2>1, TicksFrom DEF TickShows, Ticks
      <3>2. shown # NoPicture => shown[1] <= video_cycle
                                 /\ (shown[1] = video_cycle => shown[2] < position)
        BY <2>1, <3>1 DEF IInv, PicturesFollow
      <3>3. shown = NoPicture => shown[1] = 0 /\ shown[2] = -1
        BY DEF NoPicture
      <3>4. shown[1] \in Nat /\ shown[2] \in Int /\ video_cycle \in Nat /\ position \in Nat
        BY <2>1, ConstantsUsed DEF IInv, AvTypeOK
      <3>5. Cycle = video_cycle => Rewound = position
        BY DEF Rewound
      <3>6. shown'[1] = Cycle /\ shown'[2] = Rewound
        BY <3>1
      <3> HIDE DEF Cycle, Rewound
      <3> QED BY <3>1, <3>2, <3>3, <3>4, <3>5, <3>6, ConstantsUsed
    <2>2. ASSUME IInv, [AvNext]_avVars, decoded' > decoded PROVE TickShows
      <3>1. decoded \in Nat
        BY <2>2 DEF IInv, AvTypeOK
      <3>2. \/ TickShows \/ decoded' = decoded \/ decoded' = 0
        BY <2>2
        DEF AvNext, AfterStop, StopReturns, PlayRefused, PlayStarts, PlayWithoutTask, PlayResets,
            Play, Begin, AskStop, TogglePause, Tick, TickAudioFailed, TickSkips, TickEarly,
            TickFails, Worker, WorkerChecks, WorkerPauses, WorkerHeld, WorkerWrites,
            WorkerPublishes, WorkerFails, WorkerGives, MainUntouched, Hear, avVars, videoVars
      <3> QED BY <2>2, <3>1, <3>2
    <2> QED BY <2>1, <2>2
  <1> QED BY <1>1, Invariant, PTL DEF AvSpec, PicturesGoForward
=============================================================================
