---------------------------- MODULE PlayerProofs ----------------------------
(***************************************************************************)
(* The player is safe for every clip, every buffer size and every command   *)
(* and fault: the tasks that share the clip agree on who is alive, the clip *)
(* outlives its readers, the readers stay inside what is published,         *)
(* pictures come once and in order, and "ended" means heard.                *)
(***************************************************************************)
EXTENDS Player, TLAPS, FiniteSetTheorems, SequenceTheorems,
        WellFoundedInduction

LEMMA Constants ==
    /\ Samples \in Nat \ {0} /\ Frames \in Nat \ {0} /\ FrameBlocks \in Nat \ {0}
    /\ RecordBlocks \in Nat \ {0} /\ BufferBlocks \in Nat \ {0}
    /\ QueuedBlocks \in Nat \ {0}
    /\ Records \in Nat
    /\ \A i \in 1..Records : Stream[i].kind \in {"audio", "video"} /\ Stream[i].sample \in Nat
  <1>1. \A n \in {Samples, Frames, FrameBlocks, RecordBlocks, BufferBlocks, QueuedBlocks} :
           n \in Nat \ {0}
    BY PlayerConstants
  <1>2. Stream \in Seq([kind : {"audio", "video"}, sample : Nat])
    BY PlayerConstants
  <1>3. \A i \in 1..Len(Stream) : Stream[i] \in [kind : {"audio", "video"}, sample : Nat]
    BY <1>2, ElementOfSeq
  <1>4. Records \in Nat
    BY <1>2 DEF Records
  <1> QED BY <1>1, <1>3, <1>4 DEF Records

\* Where the cursors and the counters start is in their range.
LEMMA Starts ==
    /\ 1 \in 1..(Records + 1) /\ 0 \in 0..(Records + 1)
    /\ 0 \in 0..Frames /\ 0 \in 0..Samples /\ 0 \in 0..RecordBlocks
    /\ 0 \in 0..(Samples + QueuedBlocks) /\ 0 \in Nat
    /\ 0 \in {0, 1}
  BY Constants

-----------------------------------------------------------------------------
(* Records, counts and cursors.                                             *)

\* A set of natural numbers has a least element.
LEMMA LeastExists ==
    ASSUME NEW S \in SUBSET Nat, S # {}
    PROVE  \E i \in S : \A j \in S : i <= j
  <1> DEFINE R == {ss \in Nat \X Nat : ss[1] < ss[2]}
  <1>1. IsWellFoundedOn(R, Nat)
    BY NatLessThanWellFounded DEF OpToRel
  <1>2. \E i \in S : \A j \in S : ~ (<<j, i>> \in R)
    <2> HIDE DEF R
    <2> QED BY <1>1, WFMin
  <1>3. PICK i \in S : \A j \in S : ~ (<<j, i>> \in R)
    BY <1>2
  <1>4. ASSUME NEW j \in S PROVE i <= j
    <2>1. i \in Nat /\ j \in Nat
      OBVIOUS
    <2>2. <<j, i>> \in R <=> j < i
      BY <2>1
    <2> QED BY <2>1, <2>2, <1>3
  <1> QED BY <1>4

LEMMA CountType ==
    ASSUME NEW kind, NEW n \in Nat
    PROVE  CountOf(kind, n) \in Nat
  <1>1. IsFiniteSet(1..n)
    BY FS_Interval
  <1>2. IsFiniteSet({i \in 1..n : Stream[i].kind = kind})
    BY <1>1, FS_Subset
  <1> QED BY <1>2, FS_CardinalityType DEF CountOf

LEMMA CountNone ==
    ASSUME NEW kind
    PROVE  CountOf(kind, 0) = 0
  <1>1. {i \in 1..0 : Stream[i].kind = kind} = {}
    OBVIOUS
  <1> QED BY <1>1, FS_EmptySet DEF CountOf

\* A stretch without a record of the kind adds nothing.
LEMMA CountSame ==
    ASSUME NEW kind, NEW m \in Nat, NEW n \in Nat, m <= n,
           \A i \in (m + 1)..n : Stream[i].kind # kind
    PROVE  CountOf(kind, n) = CountOf(kind, m)
  <1>1. {i \in 1..n : Stream[i].kind = kind} = {i \in 1..m : Stream[i].kind = kind}
    OBVIOUS
  <1> QED BY <1>1 DEF CountOf

\* A record of the kind adds one.
LEMMA CountNext ==
    ASSUME NEW kind, NEW i \in Nat \ {0}, Stream[i].kind = kind
    PROVE  CountOf(kind, i) = CountOf(kind, i - 1) + 1
  <1> DEFINE S == {k \in 1..(i - 1) : Stream[k].kind = kind}
  <1>1. IsFiniteSet(S)
    <2>1. IsFiniteSet(1..(i - 1))
      BY FS_Interval
    <2> QED BY <2>1, FS_Subset
  <1>2. {k \in 1..i : Stream[k].kind = kind} = S \cup {i}
    OBVIOUS
  <1>3. i \notin S
    OBVIOUS
  <1>4. Cardinality(S \cup {i}) = Cardinality(S) + 1
    BY <1>1, <1>3, FS_AddElement
  <1> QED BY <1>2, <1>4 DEF CountOf

\* ram_clip::next: the record found is the first one from the cursor on.
LEMMA NextIsFirst ==
    ASSUME NEW kind, NEW cursor \in Nat \ {0}, published \in Nat,
           Found(kind, cursor) # {}
    PROVE  /\ NextRecord(kind, cursor) \in cursor..(published - 1)
           /\ Stream[NextRecord(kind, cursor)].kind = kind
           /\ \A j \in cursor..(NextRecord(kind, cursor) - 1) : Stream[j].kind # kind
  <1>1. Found(kind, cursor) \in SUBSET Nat
    BY DEF Found
  <1>2. \E i \in Found(kind, cursor) : \A j \in Found(kind, cursor) : i <= j
    BY <1>1, LeastExists
  <1>3. /\ NextRecord(kind, cursor) \in Found(kind, cursor)
        /\ \A j \in Found(kind, cursor) : NextRecord(kind, cursor) <= j
    BY <1>2 DEF NextRecord
  <1>4. /\ NextRecord(kind, cursor) \in cursor..(published - 1)
        /\ Stream[NextRecord(kind, cursor)].kind = kind
    BY <1>3 DEF Found
  <1>5. ASSUME NEW j \in cursor..(NextRecord(kind, cursor) - 1)
        PROVE  Stream[j].kind # kind
    <2>1. j \in cursor..(published - 1) /\ ~(NextRecord(kind, cursor) <= j)
      BY <1>4
    <2> QED BY <2>1, <1>3 DEF Found
  <1> QED BY <1>4, <1>5

\* What a call of next does to the cursor and to the records behind it.
LEMMA CursorStep ==
    ASSUME NEW kind, NEW cursor \in Nat \ {0}, published \in Nat, cursor <= published
    PROVE  /\ CursorAfter(kind, cursor) \in cursor..published
           /\ Found(kind, cursor) # {} =>
                 /\ CountOf(kind, NextRecord(kind, cursor) - 1) = CountOf(kind, cursor - 1)
                 /\ CountOf(kind, CursorAfter(kind, cursor) - 1)
                       = CountOf(kind, cursor - 1) + 1
           /\ Found(kind, cursor) = {} =>
                 CountOf(kind, CursorAfter(kind, cursor) - 1) = CountOf(kind, cursor - 1)
  <1>1. CASE Found(kind, cursor) # {}
    <2> DEFINE next == NextRecord(kind, cursor)
    <2>1. /\ next \in cursor..(published - 1) /\ Stream[next].kind = kind
          /\ \A j \in cursor..(next - 1) : Stream[j].kind # kind
      BY <1>1, NextIsFirst
    <2>2. CursorAfter(kind, cursor) = next + 1
      BY <1>1 DEF CursorAfter
    <2> HIDE DEF next
    <2>3. /\ next - 1 \in Nat /\ cursor - 1 \in Nat /\ cursor - 1 <= next - 1
          /\ next \in Nat \ {0} /\ next + 1 \in cursor..published
          /\ (cursor - 1) + 1 = cursor /\ (next + 1) - 1 = next
      BY <2>1
    <2>4. CountOf(kind, next - 1) = CountOf(kind, cursor - 1)
      BY <2>1, <2>3, CountSame
    <2>5. CountOf(kind, next) = CountOf(kind, next - 1) + 1
      BY <2>1, <2>3, CountNext
    <2> QED BY <1>1, <2>2, <2>3, <2>4, <2>5 DEF next
  <1>2. CASE Found(kind, cursor) = {}
    <2>1. CursorAfter(kind, cursor) = published
      BY <1>2 DEF CursorAfter
    <2>2. /\ published - 1 \in Nat /\ cursor - 1 \in Nat /\ cursor - 1 <= published - 1
          /\ (cursor - 1) + 1 = cursor
      OBVIOUS
    <2>3. \A j \in cursor..(published - 1) : Stream[j].kind # kind
      BY <1>2 DEF Found
    <2>4. CountOf(kind, published - 1) = CountOf(kind, cursor - 1)
      BY <2>2, <2>3, CountSame
    <2> QED BY <1>2, <2>1, <2>4
  <1> QED BY <1>1, <1>2

\* The cursor stays on the clip wherever it was.
LEMMA CursorType ==
    ASSUME NEW kind, NEW cursor \in 1..(Records + 1), published \in 0..(Records + 1)
    PROVE  CursorAfter(kind, cursor) \in 1..(Records + 1)
  <1>1. Records \in Nat
    BY Constants
  <1>2. CASE Found(kind, cursor) # {}
    <2>1. NextRecord(kind, cursor) \in cursor..(published - 1)
      BY <1>1, <1>2, NextIsFirst
    <2> QED BY <1>1, <1>2, <2>1 DEF CursorAfter
  <1>3. CASE Found(kind, cursor) = {}
    BY <1>1, <1>3 DEF CursorAfter
  <1> QED BY <1>2, <1>3

\* The clock counts what has left the DMA buffers, up to the whole clip.
LEMMA ClockType ==
    ASSUME NEW n \in Nat
    PROVE  /\ ClockAt(n) \in 0..Samples
           /\ n = 0 => ClockAt(n) = 0
           /\ n >= Samples + QueuedBlocks => ClockAt(n) = Samples
  BY Constants DEF ClockAt, Least

\* The horizon never exceeds the clip.
LEMMA HorizonType ==
    ASSUME NEW p \in Nat
    PROVE  Horizon(p) \in 0..Samples
  <1>1. CASE p = 0
    BY <1>1, Constants DEF Horizon
  <1>2. CASE p # 0
    <2> DEFINE audios == CountOf("audio", p - 1)
               videos == CountOf("video", p - 1)
               audio_end == IF audios > 0 THEN (audios - 1) * RecordBlocks ELSE 0
    <2>1. p - 1 \in Nat
      BY <1>2
    <2>2. audios \in Nat /\ videos \in Nat
      BY <2>1, CountType
    <2>3. videos * FrameBlocks \in Nat
      BY <2>2, Constants
    <2>4. audio_end \in Nat
      BY <2>2, Constants
    <2>5. Horizon(p) = Least(Samples, Least(videos * FrameBlocks, audio_end))
      BY <1>2 DEF Horizon
    <2> HIDE DEF audio_end, videos
    <2> QED BY <2>3, <2>4, <2>5, Constants DEF Least
  <1> QED BY <1>1, <1>2

-----------------------------------------------------------------------------
(* The inductive invariant, in parts.                                       *)

MainOK ==
    /\ main_pc \in {"poll", "radio", "tick", "gate", "video", "starved", "show", "loop",
                    "join", "job"}
    /\ job \in {"none", "play", "begin", "clear", "stopped"} \cup Reasons
    /\ resume \in {"poll", "radio", "tick", "gate"}

PlayerOK ==
    /\ armed \in BOOLEAN /\ playing \in BOOLEAN /\ autoplay \in BOOLEAN
    /\ screen \in {"Waiting for stream", "Buffering stream...", "playing", "init failed",
                   "Stream failed"} \cup Reasons

VideoOK ==
    /\ video_cursor \in 1..(Records + 1) /\ have_video \in BOOLEAN
    /\ pending_sample \in Nat /\ decoded \in 0..Frames

\* A picture is fetched only while one is missing.
Missing == have_video => decoded < Frames

SharedOK ==
    /\ stopping \in BOOLEAN /\ paused \in BOOLEAN /\ buffering \in BOOLEAN
    /\ audio_failed \in BOOLEAN /\ audio_ended \in BOOLEAN
    /\ clock \in 0..Samples /\ done \in BOOLEAN /\ task_running \in BOOLEAN

AudioOK ==
    /\ audio_pc \in {"none", "top", "next", "check", "starve", "write", "drain", "end", "give"}
    /\ audio_cursor \in 1..(Records + 1) /\ left \in 0..RecordBlocks
    /\ submitted \in 0..(Samples + QueuedBlocks) /\ okay \in BOOLEAN

ClipOK ==
    /\ clip \in {0, 1} /\ published \in 0..(Records + 1) /\ horizon \in 0..Samples
    /\ verified \in BOOLEAN

RadioOK ==
    /\ radio_pc \in {"idle", "receiving", "horizon", "begin", "clear"}
    /\ player_request \in {"idle", "begin", "clear"}
    /\ player_result \in BOOLEAN /\ lifecycle_done \in BOOLEAN

Types == MainOK /\ PlayerOK /\ VideoOK /\ SharedOK /\ AudioOK /\ ClipOK /\ RadioOK

\* Between stop()'s first half and its end nothing plays; after it no worker runs.
Joined ==
    /\ JoinInStep
    /\ main_pc \in {"join", "job"} => ~playing
    /\ main_pc = "job" => ~task_running

\* The worker reports the end only after the drain, unless it is being stopped.
Heard ==
    /\ audio_ended => clock = Samples /\ audio_pc \in {"give", "none"}
    /\ audio_pc = "end" => ~okay \/ stopping \/ clock = Samples
    /\ audio_pc # "none" => clock = ClockAt(submitted)

SoundHeld(cursor, n) ==
    submitted <= Samples =>
        submitted + n <= (CountOf("audio", cursor - 1) - 1) * RecordBlocks \/ submitted + n = 0

\* Only a complete clip is verified.
Whole == verified => published = Records + 1

\* The clip is there when play() goes on after stop().
PlayHasClip == main_pc \in {"join", "job"} /\ job = "play" => published > 0

VideoWithin == playing => video_cursor <= published

\* Sound is held back between records, and silence follows only the whole clip.
AudioWithin ==
    /\ audio_pc # "none" => audio_cursor <= published /\ SoundHeld(audio_cursor, left)
    /\ audio_pc \in {"top", "next", "check", "starve"} => left = 0
    /\ audio_pc = "drain" => stopping \/ submitted >= Samples

IInv ==
    /\ Types /\ Missing /\ Joined /\ Heard
    /\ Whole /\ PlayHasClip /\ VideoWithin /\ AudioWithin /\ PicturesOnce

-----------------------------------------------------------------------------
(* What the steps leave alone.                                              *)

AnyJobFail == \E reason \in Reasons : JobFail(reason)
AnyJobBegin == \E allocated \in {TRUE} \cup {"memory" \notin Faults} : JobBegin(allocated)


LEMMA Untouched ==
    /\ Poll \/ RadioTick \/ Join => UNCHANGED <<videoVars, audioVars, clipVars, radioVars>>
    /\ Tick => UNCHANGED <<audioVars, clipVars, radioVars>>
    /\ AudioWorker => UNCHANGED <<mainVars, playerVars, videoVars, clipVars, radioVars>>
    /\ RadioWorker => UNCHANGED <<mainVars, playerVars, videoVars, sharedVars, audioVars>>
  <1>1. Poll \/ RadioTick \/ Join => UNCHANGED <<videoVars, audioVars, clipVars, radioVars>>
    BY DEF Poll, PollNothing, CommandPlay, TogglePause, AutoplayOn, AutoplayOff, RadioTick,
       Join
  <1>2. Tick => UNCHANGED <<audioVars, clipVars, radioVars>>
    BY DEF Tick, TickArmed, TickHolds, TickAudioFailed, TickRuns, TickFetches, TickStarved,
       TickShows, TickDecodeFails, TickLoops
  <1>3. AudioWorker => UNCHANGED <<mainVars, playerVars, videoVars, clipVars, radioVars>>
    BY DEF AudioWorker, AudioEnters, AudioLeaves, AudioFetches, AudioChecks, AudioStarves,
       AudioWrites, AudioWritten, AudioDrained, AudioFault, AudioEnds, AudioGives, AudioRest
  <1>4. RadioWorker => UNCHANGED <<mainVars, playerVars, videoVars, sharedVars, audioVars>>
    BY DEF RadioWorker, RadioBegins, RadioRejects, RadioAnswered, RadioPublishes,
       RadioCounts, RadioFinishes, RadioRest
  <1> QED BY <1>1, <1>2, <1>3, <1>4

-----------------------------------------------------------------------------
(* The initial state and the types.                                         *)

LEMMA InitIInv == Init => IInv
  <1> SUFFICES ASSUME Init PROVE IInv
    OBVIOUS
  <1>1. MainOK /\ PlayerOK /\ RadioOK
    BY DEF Init, MainOK, PlayerOK, RadioOK
  <1>2. VideoOK /\ SharedOK
    BY Starts DEF Init, VideoOK, SharedOK
  <1>5. AudioOK /\ ClipOK
    BY Starts DEF Init, AudioOK, ClipOK
  <1>3. Missing /\ Joined /\ Heard
    BY DEF Init, Missing, Joined, JoinInStep, Heard
  <1>4. /\ Whole /\ PlayHasClip /\ VideoWithin /\ AudioWithin /\ PicturesOnce
    BY DEF Init, Whole, PlayHasClip, VideoWithin, AudioWithin, PicturesOnce
  <1> QED BY <1>1, <1>2, <1>3, <1>4, <1>5 DEF IInv, Types

\* Every step keeps the type of the main loop's place.
LEMMA MainTyped ==
    ASSUME MainOK, RadioOK, [Next]_vars
    PROVE  MainOK'
  <1>1. CASE Poll
    BY <1>1 DEF Poll, PollNothing, CommandPlay, TogglePause, AutoplayOn, AutoplayOff,
       StopFor, Playable, mainVars, MainOK, Reasons
  <1>2. CASE RadioTick
    BY <1>2 DEF RadioTick, StopFor, RadioOK, MainOK
  <1>3. CASE Tick
    BY <1>3 DEF Tick, TickArmed, TickHolds, TickAudioFailed, TickRuns, TickFetches,
       TickStarved, TickShows, TickDecodeFails, TickLoops, StopFor, Goto, mainVars,
       MainOK, Reasons
  <1>4. CASE Join
    BY <1>4 DEF Join, mainVars, MainOK, Reasons
  <1>5. CASE Jobs
    BY <1>5 DEF Jobs, JobPlay, JobPlayFails, JobStopped, JobClear, JobFail, JobBegin,
       Job, GiveAnswer, mainVars, MainOK, Reasons
  <1>6. CASE AudioWorker
    BY <1>6, Untouched DEF mainVars, MainOK
  <1>7. CASE RadioWorker
    BY <1>7, Untouched DEF mainVars, MainOK
  <1>8. CASE UNCHANGED vars
    BY <1>8 DEF vars, mainVars, MainOK
  <1> QED BY <1>1, <1>2, <1>3, <1>4, <1>5, <1>6, <1>7, <1>8 DEF Next, MainLoop

\* Every step keeps the type of the player's flags.
LEMMA PlayerTyped ==
    ASSUME PlayerOK, [Next]_vars
    PROVE  PlayerOK'
  <1>1. CASE Poll
    BY <1>1 DEF Poll, PollNothing, CommandPlay, TogglePause, AutoplayOn, AutoplayOff,
       StopFor, Playable, playerVars, PlayerOK, Reasons
  <1>2. CASE RadioTick
    BY <1>2 DEF RadioTick, StopFor, playerVars, PlayerOK, Reasons
  <1>3. CASE Tick
    BY <1>3 DEF Tick, TickArmed, TickHolds, TickAudioFailed, TickRuns, TickFetches,
       TickStarved, TickShows, TickDecodeFails, TickLoops, StopFor, Goto, playerVars,
       PlayerOK, Reasons
  <1>4. CASE Join
    BY <1>4 DEF Join, playerVars, PlayerOK, Reasons
  <1>5. CASE Jobs
    BY <1>5 DEF Jobs, JobPlay, JobPlayFails, JobStopped, JobClear, JobFail, JobBegin,
       Job, GiveAnswer, playerVars, PlayerOK, Reasons
  <1>6. CASE AudioWorker
    BY <1>6, Untouched DEF playerVars, PlayerOK
  <1>7. CASE RadioWorker
    BY <1>7, Untouched DEF playerVars, PlayerOK
  <1>8. CASE UNCHANGED vars
    BY <1>8 DEF vars, playerVars, PlayerOK
  <1> QED BY <1>1, <1>2, <1>3, <1>4, <1>5, <1>6, <1>7, <1>8 DEF Next, MainLoop

\* Every step keeps the type of the video side.
LEMMA VideoTyped ==
    ASSUME VideoOK, Missing, ClipOK, [Next]_vars
    PROVE  VideoOK'
  <1>1. CASE Poll
    BY <1>1, Untouched DEF videoVars, VideoOK
  <1>2. CASE RadioTick
    BY <1>2, Untouched DEF videoVars, VideoOK
  <1>3. CASE Tick
    <2>1. CASE \/ TickArmed \/ TickHolds \/ TickAudioFailed \/ TickRuns \/ TickStarved
               \/ TickDecodeFails \/ TickLoops
      BY <2>1 DEF TickArmed, TickHolds, TickAudioFailed, TickRuns, TickStarved,
         TickDecodeFails, TickLoops, StopFor, Goto, videoVars, VideoOK
    <2>2. CASE TickFetches
      <3>1. CASE have_video \/ decoded = Frames
        BY <2>2, <3>1 DEF TickFetches, VideoOK
      <3>2. CASE ~(have_video \/ decoded = Frames) /\ Found("video", video_cursor) = {}
        <4>1. CursorAfter("video", video_cursor) \in 1..(Records + 1)
          BY CursorType DEF VideoOK, ClipOK
        <4> QED BY <2>2, <3>2, <4>1 DEF TickFetches, VideoOK
      <3>3. CASE ~(have_video \/ decoded = Frames) /\ Found("video", video_cursor) # {}
        <4>1. CursorAfter("video", video_cursor) \in 1..(Records + 1)
          BY CursorType DEF VideoOK, ClipOK
        <4>2. NextRecord("video", video_cursor) \in 1..Records
          BY <3>3, Constants, NextIsFirst DEF VideoOK, ClipOK
        <4>3. Stream[NextRecord("video", video_cursor)].sample \in Nat
          BY <4>2, Constants
        <4> QED BY <2>2, <3>3, <4>1, <4>3 DEF TickFetches, VideoOK
      <3> QED BY <3>1, <3>2, <3>3
    <2>3. CASE TickShows
      <3>1. CASE PictureDue
        <4>1. decoded + 1 \in 0..Frames
          BY <3>1, Constants DEF PictureDue, VideoOK, Missing
        <4> QED BY <2>3, <3>1, <4>1 DEF TickShows, VideoOK
      <3>2. CASE ~PictureDue
        BY <2>3, <3>2 DEF TickShows, VideoOK
      <3> QED BY <3>1, <3>2
    <2> QED BY <1>3, <2>1, <2>2, <2>3 DEF Tick
  <1>4. CASE Join
    BY <1>4, Untouched DEF videoVars, VideoOK
  <1>5. CASE Jobs
    <2>1. CASE JobStopped \/ JobClear \/ AnyJobFail \/ AnyJobBegin
      BY <2>1 DEF JobStopped, JobClear, AnyJobFail, JobFail, AnyJobBegin, JobBegin, Job,
         GiveAnswer, videoVars, VideoOK
    <2>2. CASE JobPlay
      BY <2>2, Starts DEF JobPlay, VideoOK
    <2>3. CASE JobPlayFails
      BY <2>3, Starts DEF JobPlayFails, videoVars, VideoOK
    <2> QED BY <1>5, <2>1, <2>2, <2>3 DEF Jobs, AnyJobFail, AnyJobBegin
  <1>6. CASE AudioWorker
    BY <1>6, Untouched DEF videoVars, VideoOK
  <1>7. CASE RadioWorker
    BY <1>7, Untouched DEF videoVars, VideoOK
  <1>8. CASE UNCHANGED vars
    BY <1>8 DEF vars, videoVars, VideoOK
  <1> QED BY <1>1, <1>2, <1>3, <1>4, <1>5, <1>6, <1>7, <1>8 DEF Next, MainLoop

\* Every step keeps the type of what player and audio worker share.
LEMMA SharedTyped ==
    ASSUME SharedOK, AudioOK, [Next]_vars
    PROVE  SharedOK'
  <1>1. CASE Poll
    BY <1>1 DEF Poll, PollNothing, CommandPlay, TogglePause, AutoplayOn, AutoplayOff,
       StopFor, Playable, sharedVars, SharedOK
  <1>2. CASE RadioTick
    BY <1>2 DEF RadioTick, StopFor, sharedVars, SharedOK
  <1>3. CASE Tick
    BY <1>3 DEF Tick, TickArmed, TickHolds, TickAudioFailed, TickRuns, TickFetches,
       TickStarved, TickShows, TickDecodeFails, TickLoops, StopFor, Goto, sharedVars,
       SharedOK
  <1>4. CASE Join
    BY <1>4 DEF Join, sharedVars, SharedOK
  <1>5. CASE Jobs
    <2>1. CASE JobStopped \/ JobClear \/ AnyJobFail \/ AnyJobBegin
      BY <2>1 DEF JobStopped, JobClear, AnyJobFail, JobFail, AnyJobBegin, JobBegin, Job,
         GiveAnswer, sharedVars, SharedOK
    <2>2. CASE JobPlay
      BY <2>2, Starts DEF JobPlay, SharedOK
    <2>3. CASE JobPlayFails
      BY <2>3, Starts DEF JobPlayFails, sharedVars, SharedOK
    <2> QED BY <1>5, <2>1, <2>2, <2>3 DEF Jobs, AnyJobFail, AnyJobBegin
  <1>6. CASE AudioWorker
    <2>1. CASE \/ AudioEnters \/ AudioLeaves \/ AudioFetches \/ AudioChecks
               \/ AudioStarves \/ AudioWritten \/ AudioDrained \/ AudioFault
               \/ AudioGives
      BY <2>1 DEF AudioEnters, AudioLeaves, AudioFetches, AudioChecks, AudioStarves,
         AudioWritten, AudioDrained, AudioFault, AudioGives, AudioRest, AudioFlags,
         sharedVars, SharedOK
    <2>2. CASE AudioWrites
      <3>1. submitted + 1 \in Nat
        BY Constants DEF AudioOK
      <3>2. ClockAt(submitted + 1) \in 0..Samples
        BY <3>1, ClockType
      <3> QED BY <2>2, <3>2 DEF AudioWrites, AudioFlags, AudioRest, SharedOK
    <2>3. CASE AudioEnds
      BY <2>3 DEF AudioEnds, AudioRest, AudioOK, SharedOK
    <2> QED BY <1>6, <2>1, <2>2, <2>3 DEF AudioWorker
  <1>7. CASE RadioWorker
    BY <1>7, Untouched DEF sharedVars, SharedOK
  <1>8. CASE UNCHANGED vars
    BY <1>8 DEF vars, sharedVars, SharedOK
  <1> QED BY <1>1, <1>2, <1>3, <1>4, <1>5, <1>6, <1>7, <1>8 DEF Next, MainLoop

\* Every step keeps the type of the audio worker's place and locals.
LEMMA AudioTyped ==
    ASSUME AudioOK, ClipOK, [Next]_vars
    PROVE  AudioOK'
  <1>1. CASE Poll
    BY <1>1, Untouched DEF audioVars, AudioOK
  <1>2. CASE RadioTick
    BY <1>2, Untouched DEF audioVars, AudioOK
  <1>3. CASE Tick
    BY <1>3, Untouched DEF audioVars, AudioOK
  <1>4. CASE Join
    BY <1>4, Untouched DEF audioVars, AudioOK
  <1>5. CASE Jobs
    <2>1. CASE JobPlayFails \/ JobStopped \/ JobClear \/ AnyJobFail \/ AnyJobBegin
      BY <2>1 DEF JobPlayFails, JobStopped, JobClear, AnyJobFail, JobFail, AnyJobBegin,
         JobBegin, Job, GiveAnswer, audioVars, AudioOK
    <2>2. CASE JobPlay
      BY <2>2, Starts DEF JobPlay, AudioOK
    <2> QED BY <1>5, <2>1, <2>2 DEF Jobs, AnyJobFail, AnyJobBegin
  <1>6. CASE AudioWorker
    <2>1. CASE \/ AudioEnters \/ AudioLeaves \/ AudioChecks \/ AudioStarves
               \/ AudioDrained \/ AudioFault \/ AudioEnds
      BY <2>1 DEF AudioEnters, AudioLeaves, AudioChecks, AudioStarves, AudioDrained,
         AudioFault, AudioEnds, AudioRest, AudioFlags, audioVars, AudioOK
    <2>2. CASE AudioFetches
      <3>1. CursorAfter("audio", audio_cursor) \in 1..(Records + 1)
        BY CursorType DEF AudioOK, ClipOK
      <3>2. left' \in 0..RecordBlocks
        BY <2>2, Constants DEF AudioFetches, AudioOK
      <3>3. audio_pc' \in {"write", "check"}
        BY <2>2 DEF AudioFetches
      <3> QED BY <2>2, <3>1, <3>2, <3>3 DEF AudioFetches, AudioOK
    <2>3. CASE AudioWrites
      BY <2>3, Constants DEF AudioWrites, AudioOK
    <2>4. CASE AudioWritten
      BY <2>4, Constants DEF AudioWritten, AudioOK
    <2>5. CASE AudioGives
      BY <2>5, Constants DEF AudioGives, AudioOK
    <2> QED BY <1>6, <2>1, <2>2, <2>3, <2>4, <2>5 DEF AudioWorker
  <1>7. CASE RadioWorker
    BY <1>7, Untouched DEF audioVars, AudioOK
  <1>8. CASE UNCHANGED vars
    BY <1>8 DEF vars, audioVars, AudioOK
  <1> QED BY <1>1, <1>2, <1>3, <1>4, <1>5, <1>6, <1>7, <1>8 DEF Next, MainLoop

\* Every step keeps the type of the clip memory.
LEMMA ClipTyped ==
    ASSUME ClipOK, [Next]_vars
    PROVE  ClipOK'
  <1>1. CASE Poll
    BY <1>1, Untouched DEF clipVars, ClipOK
  <1>2. CASE RadioTick
    BY <1>2, Untouched DEF clipVars, ClipOK
  <1>3. CASE Tick
    BY <1>3, Untouched DEF clipVars, ClipOK
  <1>4. CASE Join
    BY <1>4, Untouched DEF clipVars, ClipOK
  <1>5. CASE Jobs
    <2>1. CASE JobPlay \/ JobPlayFails \/ JobStopped \/ AnyJobFail
      BY <2>1 DEF JobPlay, JobPlayFails, JobStopped, AnyJobFail, JobFail, Job,
         GiveAnswer, clipVars, ClipOK
    <2>2. CASE JobClear
      <3>1. 1 - clip \in {0, 1}
        BY DEF ClipOK
      <3> QED BY <2>2, <3>1, Starts DEF JobClear, ClipOK
    <2>3. CASE AnyJobBegin
      <3>1. 1 - clip \in {0, 1}
        BY DEF ClipOK
      <3> QED BY <2>3, <3>1, Starts DEF AnyJobBegin, JobBegin, ClipOK
    <2> QED BY <1>5, <2>1, <2>2, <2>3 DEF Jobs, AnyJobFail, AnyJobBegin
  <1>6. CASE AudioWorker
    BY <1>6, Untouched DEF clipVars, ClipOK
  <1>7. CASE RadioWorker
    <2>1. CASE RadioBegins \/ RadioRejects \/ RadioAnswered \/ RadioFinishes
      BY <2>1 DEF RadioBegins, RadioRejects, RadioAnswered, RadioFinishes, RadioRest,
         clipVars, ClipOK
    <2>2. CASE RadioPublishes
      BY <2>2, Constants DEF RadioPublishes, ClipOK
    <2>3. CASE RadioCounts
      <3>1. Horizon(published) \in 0..Samples
        BY HorizonType, Constants DEF ClipOK
      <3> QED BY <2>3, <3>1 DEF RadioCounts, ClipOK
    <2> QED BY <1>7, <2>1, <2>2, <2>3 DEF RadioWorker
  <1>8. CASE UNCHANGED vars
    BY <1>8 DEF vars, clipVars, ClipOK
  <1> QED BY <1>1, <1>2, <1>3, <1>4, <1>5, <1>6, <1>7, <1>8 DEF Next, MainLoop

\* Every step keeps the type of the radio worker and its handshake.
LEMMA RadioTyped ==
    ASSUME RadioOK, [Next]_vars
    PROVE  RadioOK'
  <1>1. CASE Poll
    BY <1>1, Untouched DEF radioVars, RadioOK
  <1>2. CASE RadioTick
    BY <1>2, Untouched DEF radioVars, RadioOK
  <1>3. CASE Tick
    BY <1>3, Untouched DEF radioVars, RadioOK
  <1>4. CASE Join
    BY <1>4, Untouched DEF radioVars, RadioOK
  <1>5. CASE Jobs
    BY <1>5 DEF Jobs, JobPlay, JobPlayFails, JobStopped, JobClear, JobFail, JobBegin,
       Job, GiveAnswer, radioVars, RadioOK
  <1>6. CASE AudioWorker
    BY <1>6, Untouched DEF radioVars, RadioOK
  <1>7. CASE RadioWorker
    BY <1>7 DEF RadioWorker, RadioBegins, RadioRejects, RadioAnswered, RadioPublishes,
       RadioCounts, RadioFinishes, RadioRest, radioVars, RadioOK
  <1>8. CASE UNCHANGED vars
    BY <1>8 DEF vars, radioVars, RadioOK
  <1> QED BY <1>1, <1>2, <1>3, <1>4, <1>5, <1>6, <1>7, <1>8 DEF Next, MainLoop

\* A picture is fetched only while one is missing.
LEMMA MissingStep ==
    ASSUME VideoOK, Missing, [Next]_vars
    PROVE  Missing'
  <1>1. CASE Poll
    BY <1>1, Untouched DEF videoVars, Missing
  <1>2. CASE RadioTick
    BY <1>2, Untouched DEF videoVars, Missing
  <1>3. CASE Tick
    <2>1. CASE \/ TickArmed \/ TickHolds \/ TickAudioFailed \/ TickRuns \/ TickStarved
               \/ TickDecodeFails \/ TickLoops
      BY <2>1 DEF TickArmed, TickHolds, TickAudioFailed, TickRuns, TickStarved,
         TickDecodeFails, TickLoops, StopFor, Goto, videoVars, Missing
    <2>2. CASE TickFetches
      <3>1. decoded \in Nat /\ decoded <= Frames
        BY Constants DEF VideoOK
      <3>2. CASE have_video \/ decoded = Frames
        BY <2>2, <3>2 DEF TickFetches, Missing
      <3>3. CASE ~(have_video \/ decoded = Frames)
        <4>1. decoded < Frames
          BY <3>1, <3>3, Constants
        <4> QED BY <2>2, <4>1 DEF TickFetches, Missing
      <3> QED BY <3>2, <3>3
    <2>3. CASE TickShows
      BY <2>3 DEF TickShows, Missing
    <2> QED BY <1>3, <2>1, <2>2, <2>3 DEF Tick
  <1>4. CASE Join
    BY <1>4, Untouched DEF videoVars, Missing
  <1>5. CASE Jobs
    <2>1. CASE JobStopped \/ JobClear \/ AnyJobFail \/ AnyJobBegin
      BY <2>1 DEF JobStopped, JobClear, AnyJobFail, JobFail, AnyJobBegin, JobBegin, Job,
         GiveAnswer, videoVars, Missing
    <2>2. CASE JobPlay
      BY <2>2 DEF JobPlay, Missing
    <2>3. CASE JobPlayFails
      BY <2>3 DEF JobPlayFails, videoVars, Missing
    <2> QED BY <1>5, <2>1, <2>2, <2>3 DEF Jobs, AnyJobFail, AnyJobBegin
  <1>6. CASE AudioWorker
    BY <1>6, Untouched DEF videoVars, Missing
  <1>7. CASE RadioWorker
    BY <1>7, Untouched DEF videoVars, Missing
  <1>8. CASE UNCHANGED vars
    BY <1>8 DEF vars, videoVars, Missing
  <1> QED BY <1>1, <1>2, <1>3, <1>4, <1>5, <1>6, <1>7, <1>8 DEF Next, MainLoop

\* Start, stop and the worker keep agreeing on who is alive.
LEMMA JoinedStep ==
    ASSUME MainOK, Joined, [Next]_vars
    PROVE  Joined'
  <1>1. CASE Poll
    <2>1. /\ UNCHANGED <<audio_pc, done, task_running>>
          /\ \/ playing' = playing /\ main_pc' \notin {"join", "job"}
             \/ ~playing' /\ main_pc' = "join"
      BY <1>1 DEF Poll, PollNothing, CommandPlay, TogglePause, AutoplayOn, AutoplayOff,
         StopFor, Playable, mainVars, playerVars, sharedVars, audioVars
    <2> QED BY <2>1 DEF Joined, JoinInStep
  <1>2. CASE RadioTick
    <2>1. /\ UNCHANGED <<audio_pc, done, task_running>>
          /\ \/ playing' = playing /\ main_pc' \notin {"join", "job"}
             \/ ~playing' /\ main_pc' = "join"
      BY <1>2 DEF RadioTick, StopFor, mainVars, playerVars, sharedVars, audioVars
    <2> QED BY <2>1 DEF Joined, JoinInStep
  <1>3. CASE Tick
    <2>1. /\ UNCHANGED <<audio_pc, done, task_running>>
          /\ \/ playing' = playing /\ main_pc' \notin {"join", "job"}
             \/ ~playing' /\ main_pc' = "join"
      BY <1>3 DEF Tick, TickArmed, TickHolds, TickAudioFailed, TickRuns, TickFetches,
         TickStarved, TickShows, TickDecodeFails, TickLoops, StopFor, Goto, mainVars,
         playerVars, sharedVars, audioVars
    <2> QED BY <2>1 DEF Joined, JoinInStep
  <1>4. CASE Join
    BY <1>4 DEF Join, mainVars, playerVars, sharedVars, audioVars, Joined, JoinInStep,
       Reasons
  <1>5. CASE Jobs
    <2>1. CASE JobStopped \/ JobClear \/ AnyJobFail \/ AnyJobBegin
      <3>1. /\ main_pc = "job" /\ main_pc' = resume
            /\ UNCHANGED <<playing, done, task_running, audio_pc>>
        BY <2>1 DEF JobStopped, JobClear, AnyJobFail, JobFail, AnyJobBegin, JobBegin,
           Job, GiveAnswer, mainVars, playerVars, sharedVars, audioVars
      <3> QED BY <3>1 DEF MainOK, Joined, JoinInStep
    <2>2. CASE JobPlay
      BY <2>2 DEF JobPlay, Job, MainOK, Joined, JoinInStep
    <2>3. CASE JobPlayFails
      <3>1. /\ main_pc = "job" /\ main_pc' = resume
            /\ UNCHANGED <<playing, done, task_running, audio_pc>>
        BY <2>3 DEF JobPlayFails, Job, sharedVars, audioVars
      <3> QED BY <3>1 DEF MainOK, Joined, JoinInStep
    <2> QED BY <1>5, <2>1, <2>2, <2>3 DEF Jobs, AnyJobFail, AnyJobBegin
  <1>6. CASE AudioWorker
    <2>1. CASE \/ AudioEnters \/ AudioLeaves \/ AudioFetches \/ AudioChecks
               \/ AudioStarves \/ AudioWrites \/ AudioWritten \/ AudioDrained
               \/ AudioFault \/ AudioEnds
      <3>1. /\ UNCHANGED <<main_pc, playing, done, task_running>>
            /\ audio_pc # "none" /\ audio_pc' # "none"
        BY <2>1 DEF AudioEnters, AudioLeaves, AudioFetches, AudioChecks, AudioStarves,
           AudioWrites, AudioWritten, AudioDrained, AudioFault, AudioEnds, AudioRest,
           AudioFlags, mainVars, playerVars
      <3> QED BY <3>1 DEF Joined, JoinInStep
    <2>2. CASE AudioGives
      BY <2>2 DEF AudioGives, AudioRest, mainVars, playerVars, Joined, JoinInStep
    <2> QED BY <1>6, <2>1, <2>2 DEF AudioWorker
  <1>7. CASE RadioWorker
    BY <1>7, Untouched DEF mainVars, playerVars, sharedVars, audioVars, Joined,
       JoinInStep
  <1>8. CASE UNCHANGED vars
    BY <1>8 DEF vars, mainVars, playerVars, sharedVars, audioVars, Joined, JoinInStep
  <1> QED BY <1>1, <1>2, <1>3, <1>4, <1>5, <1>6, <1>7, <1>8 DEF Next, MainLoop

\* The end is reported only once heard.
LEMMA HeardStep ==
    ASSUME SharedOK, AudioOK, Joined, Heard, [Next]_vars
    PROVE  Heard'
  <1>1. CASE Poll
    <2>1. /\ UNCHANGED <<audio_ended, clock, audio_pc, submitted, okay>>
          /\ stopping' = stopping \/ stopping' = (stopping \/ task_running)
      BY <1>1 DEF Poll, PollNothing, CommandPlay, TogglePause, AutoplayOn, AutoplayOff,
         StopFor, Playable, sharedVars, audioVars
    <2> QED BY <2>1 DEF Heard
  <1>2. CASE RadioTick
    <2>1. /\ UNCHANGED <<audio_ended, clock, audio_pc, submitted, okay>>
          /\ stopping' = stopping \/ stopping' = (stopping \/ task_running)
      BY <1>2 DEF RadioTick, StopFor, sharedVars, audioVars
    <2> QED BY <2>1 DEF Heard
  <1>3. CASE Tick
    <2>1. /\ UNCHANGED <<audio_ended, clock, audio_pc, submitted, okay>>
          /\ stopping' = stopping \/ stopping' = (stopping \/ task_running)
      BY <1>3 DEF Tick, TickArmed, TickHolds, TickAudioFailed, TickRuns, TickFetches,
         TickStarved, TickShows, TickDecodeFails, TickLoops, StopFor, Goto, sharedVars,
         audioVars
    <2> QED BY <2>1 DEF Heard
  <1>4. CASE Join
    <2>1. UNCHANGED <<audio_ended, clock, audio_pc, submitted, okay, stopping>>
      BY <1>4 DEF Join, sharedVars, audioVars
    <2> QED BY <2>1 DEF Heard
  <1>5. CASE Jobs
    <2>1. CASE JobStopped \/ JobClear \/ AnyJobFail \/ AnyJobBegin
      <3>1. UNCHANGED <<audio_ended, clock, audio_pc, submitted, okay, stopping>>
        BY <2>1 DEF JobStopped, JobClear, AnyJobFail, JobFail, AnyJobBegin, JobBegin,
           Job, GiveAnswer, sharedVars, audioVars
      <3> QED BY <3>1 DEF Heard
    <2>2. CASE JobPlay
      <3>1. ClockAt(0) = 0
        BY ClockType
      <3> QED BY <2>2, <3>1 DEF JobPlay, Heard
    <2>3. CASE JobPlayFails
      <3>1. audio_pc = "none" /\ UNCHANGED audio_pc
        BY <2>3 DEF JobPlayFails, Job, audioVars, Joined, JoinInStep
      <3>2. audio_ended' = FALSE \/ UNCHANGED <<audio_ended, clock>>
        BY <2>3 DEF JobPlayFails, sharedVars
      <3> QED BY <3>1, <3>2 DEF Heard
    <2> QED BY <1>5, <2>1, <2>2, <2>3 DEF Jobs, AnyJobFail, AnyJobBegin
  <1>6. CASE AudioWorker
    <2>1. CASE \/ AudioEnters \/ AudioLeaves \/ AudioFetches \/ AudioStarves
               \/ AudioWritten \/ AudioFault
      <3>1. /\ UNCHANGED <<audio_ended, clock, submitted, stopping>>
            /\ audio_pc \notin {"none", "give", "end"} /\ audio_pc' \notin {"none", "give"}
            /\ audio_pc' = "end" => ~okay'
        BY <2>1 DEF AudioEnters, AudioLeaves, AudioFetches, AudioStarves, AudioWritten,
           AudioFault, AudioRest, AudioFlags
      <3> QED BY <3>1 DEF Heard
    <2>2. CASE AudioChecks
      BY <2>2 DEF AudioChecks, AudioRest, AudioFlags, Heard
    <2>3. CASE AudioWrites
      BY <2>3 DEF AudioWrites, AudioRest, AudioFlags, Heard
    <2>4. CASE AudioDrained
      <3>1. submitted \in Nat /\ Samples + QueuedBlocks \in Nat
        BY Constants DEF AudioOK
      <3>2. submitted >= Samples + QueuedBlocks => clock = Samples
        BY <2>4, <3>1, ClockType DEF AudioDrained, Heard
      <3> QED BY <2>4, <3>2 DEF AudioDrained, AudioRest, AudioFlags, Heard
    <2>5. CASE AudioEnds
      BY <2>5 DEF AudioEnds, AudioRest, Heard, AudioOK, SharedOK
    <2>6. CASE AudioGives
      BY <2>6 DEF AudioGives, AudioRest, Heard
    <2> QED BY <1>6, <2>1, <2>2, <2>3, <2>4, <2>5, <2>6 DEF AudioWorker
  <1>7. CASE RadioWorker
    BY <1>7, Untouched DEF sharedVars, audioVars, Heard
  <1>8. CASE UNCHANGED vars
    BY <1>8 DEF vars, sharedVars, audioVars, Heard
  <1> QED BY <1>1, <1>2, <1>3, <1>4, <1>5, <1>6, <1>7, <1>8 DEF Next, MainLoop

\* Only a complete clip is verified.
LEMMA WholeStep ==
    ASSUME ClipOK, Whole, [Next]_vars
    PROVE  Whole'
  <1>1. CASE Poll
    BY <1>1, Untouched DEF clipVars, Whole
  <1>2. CASE RadioTick
    BY <1>2, Untouched DEF clipVars, Whole
  <1>3. CASE Tick
    BY <1>3, Untouched DEF clipVars, Whole
  <1>4. CASE Join
    BY <1>4, Untouched DEF clipVars, Whole
  <1>5. CASE Jobs
    <2>1. CASE JobPlay \/ JobPlayFails \/ JobStopped \/ AnyJobFail
      <3>1. UNCHANGED <<verified, published>>
        BY <2>1 DEF JobPlay, JobPlayFails, JobStopped, AnyJobFail, JobFail, Job,
           GiveAnswer, clipVars
      <3> QED BY <3>1 DEF Whole
    <2>2. CASE JobClear
      BY <2>2 DEF JobClear, Whole
    <2>3. CASE AnyJobBegin
      BY <2>3 DEF AnyJobBegin, JobBegin, Whole
    <2> QED BY <1>5, <2>1, <2>2, <2>3 DEF Jobs, AnyJobFail, AnyJobBegin
  <1>6. CASE AudioWorker
    BY <1>6, Untouched DEF clipVars, Whole
  <1>7. CASE RadioWorker
    <2>1. CASE RadioBegins \/ RadioRejects \/ RadioAnswered \/ RadioCounts
      <3>1. UNCHANGED <<verified, published>>
        BY <2>1 DEF RadioBegins, RadioRejects, RadioAnswered, RadioCounts, RadioRest,
           clipVars
      <3> QED BY <3>1 DEF Whole
    <2>2. CASE RadioPublishes
      BY <2>2, Constants DEF RadioPublishes, ClipOK, Whole
    <2>3. CASE RadioFinishes
      BY <2>3 DEF RadioFinishes, Whole
    <2> QED BY <1>7, <2>1, <2>2, <2>3 DEF RadioWorker
  <1>8. CASE UNCHANGED vars
    BY <1>8 DEF vars, clipVars, Whole
  <1> QED BY <1>1, <1>2, <1>3, <1>4, <1>5, <1>6, <1>7, <1>8 DEF Next, MainLoop

\* play() goes on only with a clip.
LEMMA PlayHasClipStep ==
    ASSUME MainOK, RadioOK, ClipOK, Whole, PlayHasClip, [Next]_vars
    PROVE  PlayHasClip'
  <1>1. CASE Poll
    <2>1. /\ UNCHANGED published
          /\ main_pc' \notin {"join", "job"} \/ job' # "play" \/ published > 0
      BY <1>1 DEF Poll, PollNothing, CommandPlay, TogglePause, AutoplayOn, AutoplayOff,
         StopFor, Playable, mainVars, clipVars, Reasons
    <2> QED BY <2>1 DEF PlayHasClip
  <1>2. CASE RadioTick
    BY <1>2 DEF RadioTick, StopFor, RadioOK, PlayHasClip
  <1>3. CASE Tick
    <2>1. CASE TickHolds \/ TickRuns \/ TickFetches \/ TickShows
      <3>1. /\ UNCHANGED published
            /\ main_pc' \notin {"join", "job"} \/ job' # "play" \/ published > 0
        BY <2>1 DEF TickHolds, TickRuns, TickFetches, TickShows, StopFor, Goto,
           mainVars, clipVars, Reasons
      <3> QED BY <3>1 DEF PlayHasClip
    <2>2. CASE TickArmed
      BY <2>2 DEF TickArmed, StopFor, Goto, Playable, clipVars, PlayHasClip
    <2>3. CASE TickAudioFailed
      BY <2>3 DEF TickAudioFailed, StopFor, PlayHasClip
    <2>4. CASE TickStarved
      BY <2>4 DEF TickStarved, StopFor, Goto, PlayHasClip
    <2>5. CASE TickDecodeFails
      BY <2>5 DEF TickDecodeFails, StopFor, PlayHasClip
    <2>6. CASE TickLoops
      <3>1. verified => published > 0
        BY Constants DEF Whole
      <3> QED BY <2>6, <3>1 DEF TickLoops, StopFor, Goto, clipVars, PlayHasClip
    <2> QED BY <1>3, <2>1, <2>2, <2>3, <2>4, <2>5, <2>6 DEF Tick
  <1>4. CASE Join
    BY <1>4 DEF Join, clipVars, PlayHasClip
  <1>5. CASE Jobs
    <2>1. main_pc' = resume
      BY <1>5 DEF Jobs, JobPlay, JobPlayFails, JobStopped, JobClear, JobFail, JobBegin,
         Job, GiveAnswer
    <2> QED BY <2>1 DEF PlayHasClip, MainOK
  <1>6. CASE AudioWorker
    BY <1>6, Untouched DEF mainVars, clipVars, PlayHasClip
  <1>7. CASE RadioWorker
    <2>1. CASE \/ RadioBegins \/ RadioRejects \/ RadioAnswered \/ RadioCounts
               \/ RadioFinishes
      <3>1. UNCHANGED <<main_pc, job, published>>
        BY <2>1 DEF RadioBegins, RadioRejects, RadioAnswered, RadioCounts,
           RadioFinishes, RadioRest, mainVars, clipVars
      <3> QED BY <3>1 DEF PlayHasClip
    <2>2. CASE RadioPublishes
      <3>1. published' > 0
        BY <2>2, Constants DEF RadioPublishes, ClipOK
      <3> QED BY <3>1 DEF PlayHasClip
    <2> QED BY <1>7, <2>1, <2>2 DEF RadioWorker
  <1>8. CASE UNCHANGED vars
    BY <1>8 DEF vars, mainVars, clipVars, PlayHasClip
  <1> QED BY <1>1, <1>2, <1>3, <1>4, <1>5, <1>6, <1>7, <1>8 DEF Next, MainLoop

\* The main loop reads what is published.
LEMMA VideoWithinStep ==
    ASSUME VideoOK, ClipOK, Joined, PlayHasClip, VideoWithin, [Next]_vars
    PROVE  VideoWithin'
  <1>1. CASE Poll
    <2>1. /\ UNCHANGED <<video_cursor, published>>
          /\ playing' = playing \/ ~playing'
      BY <1>1 DEF Poll, PollNothing, CommandPlay, TogglePause, AutoplayOn, AutoplayOff,
         StopFor, Playable, playerVars, videoVars, clipVars
    <2> QED BY <2>1 DEF VideoWithin
  <1>2. CASE RadioTick
    <2>1. /\ UNCHANGED <<video_cursor, published>>
          /\ playing' = playing \/ ~playing'
      BY <1>2 DEF RadioTick, StopFor, playerVars, videoVars, clipVars
    <2> QED BY <2>1 DEF VideoWithin
  <1>3. CASE Tick
    <2>1. CASE \/ TickArmed \/ TickHolds \/ TickAudioFailed \/ TickRuns \/ TickStarved
               \/ TickShows \/ TickDecodeFails \/ TickLoops
      <3>1. /\ UNCHANGED <<video_cursor, published>>
            /\ playing' = playing \/ ~playing'
        BY <2>1 DEF TickArmed, TickHolds, TickAudioFailed, TickRuns, TickStarved,
           TickShows, TickDecodeFails, TickLoops, StopFor, Goto, playerVars, videoVars,
           clipVars
      <3> QED BY <3>1 DEF VideoWithin
    <2>2. CASE TickFetches
      <3>1. /\ UNCHANGED <<playing, published>>
            /\ video_cursor' \in {video_cursor, CursorAfter("video", video_cursor)}
        BY <2>2 DEF TickFetches, playerVars, clipVars
      <3>2. video_cursor <= published =>
                CursorAfter("video", video_cursor) \in video_cursor..published
        BY Constants, CursorStep DEF VideoOK, ClipOK
      <3>3. video_cursor <= published => CursorAfter("video", video_cursor) <= published
        BY <3>2, Constants DEF VideoOK, ClipOK
      <3> QED BY <3>1, <3>3 DEF VideoWithin
    <2> QED BY <1>3, <2>1, <2>2 DEF Tick
  <1>4. CASE Join
    <2>1. UNCHANGED <<playing, video_cursor, published>>
      BY <1>4 DEF Join, playerVars, videoVars, clipVars
    <2> QED BY <2>1 DEF VideoWithin
  <1>5. CASE Jobs
    <2>1. CASE JobPlayFails \/ JobStopped \/ JobClear \/ AnyJobFail \/ AnyJobBegin
      <3>1. main_pc = "job" /\ UNCHANGED playing
        BY <2>1 DEF JobPlayFails, JobStopped, JobClear, AnyJobFail, JobFail,
           AnyJobBegin, JobBegin, Job, GiveAnswer, playerVars
      <3> QED BY <3>1 DEF Joined, VideoWithin
    <2>2. CASE JobPlay
      <3>1. published \in Nat /\ published > 0
        BY <2>2, Constants DEF JobPlay, Job, ClipOK, PlayHasClip
      <3>2. 1 <= published
        BY <3>1
      <3> QED BY <2>2, <3>2 DEF JobPlay, clipVars, VideoWithin
    <2> QED BY <1>5, <2>1, <2>2 DEF Jobs, AnyJobFail, AnyJobBegin
  <1>6. CASE AudioWorker
    BY <1>6, Untouched DEF playerVars, videoVars, clipVars, VideoWithin
  <1>7. CASE RadioWorker
    <2>1. CASE \/ RadioBegins \/ RadioRejects \/ RadioAnswered \/ RadioCounts
               \/ RadioFinishes
      <3>1. UNCHANGED <<playing, video_cursor, published>>
        BY <2>1 DEF RadioBegins, RadioRejects, RadioAnswered, RadioCounts,
           RadioFinishes, RadioRest, playerVars, videoVars, clipVars
      <3> QED BY <3>1 DEF VideoWithin
    <2>2. CASE RadioPublishes
      <3>1. published' >= published /\ published' \in Nat
        BY <2>2, Constants DEF RadioPublishes, ClipOK
      <3>2. video_cursor <= published => video_cursor <= published'
        BY <3>1, Constants DEF VideoOK, ClipOK
      <3> QED BY <2>2, <3>2 DEF RadioPublishes, RadioRest, playerVars, videoVars,
                            VideoWithin
    <2> QED BY <1>7, <2>1, <2>2 DEF RadioWorker
  <1>8. CASE UNCHANGED vars
    BY <1>8 DEF vars, playerVars, videoVars, clipVars, VideoWithin
  <1> QED BY <1>1, <1>2, <1>3, <1>4, <1>5, <1>6, <1>7, <1>8 DEF Next, MainLoop

\* The audio worker reads what is published, and submits no more than that.
LEMMA AudioWithinStep ==
    ASSUME AudioOK, ClipOK, Joined, PlayHasClip, AudioWithin, [Next]_vars
    PROVE  AudioWithin'
  <1>1. CASE Poll
    <2>1. /\ UNCHANGED <<audio_pc, audio_cursor, left, submitted, published>>
          /\ stopping' = stopping \/ stopping' = (stopping \/ task_running)
      BY <1>1 DEF Poll, PollNothing, CommandPlay, TogglePause, AutoplayOn, AutoplayOff,
         StopFor, Playable, sharedVars, audioVars, clipVars
    <2> QED BY <2>1 DEF AudioWithin, SoundHeld
  <1>2. CASE RadioTick
    <2>1. /\ UNCHANGED <<audio_pc, audio_cursor, left, submitted, published>>
          /\ stopping' = stopping \/ stopping' = (stopping \/ task_running)
      BY <1>2 DEF RadioTick, StopFor, sharedVars, audioVars, clipVars
    <2> QED BY <2>1 DEF AudioWithin, SoundHeld
  <1>3. CASE Tick
    <2>1. /\ UNCHANGED <<audio_pc, audio_cursor, left, submitted, published>>
          /\ stopping' = stopping \/ stopping' = (stopping \/ task_running)
      BY <1>3 DEF Tick, TickArmed, TickHolds, TickAudioFailed, TickRuns, TickFetches,
         TickStarved, TickShows, TickDecodeFails, TickLoops, StopFor, Goto, sharedVars,
         audioVars, clipVars
    <2> QED BY <2>1 DEF AudioWithin, SoundHeld
  <1>4. CASE Join
    <2>1. UNCHANGED <<audio_pc, audio_cursor, left, submitted, published, stopping>>
      BY <1>4 DEF Join, sharedVars, audioVars, clipVars
    <2> QED BY <2>1 DEF AudioWithin, SoundHeld
  <1>5. CASE Jobs
    <2>1. CASE JobPlayFails \/ JobStopped \/ JobClear \/ AnyJobFail \/ AnyJobBegin
      <3>1. main_pc = "job" /\ UNCHANGED audio_pc
        BY <2>1 DEF JobPlayFails, JobStopped, JobClear, AnyJobFail, JobFail,
           AnyJobBegin, JobBegin, Job, GiveAnswer, audioVars
      <3> QED BY <3>1 DEF Joined, JoinInStep, AudioWithin
    <2>2. CASE JobPlay
      <3>1. published \in Nat /\ published > 0
        BY <2>2, Constants DEF JobPlay, Job, ClipOK, PlayHasClip
      <3>2. 1 <= published /\ 0 + 0 = 0
        BY <3>1
      <3> QED BY <2>2, <3>2 DEF JobPlay, clipVars, AudioWithin, SoundHeld
    <2> QED BY <1>5, <2>1, <2>2 DEF Jobs, AnyJobFail, AnyJobBegin
  <1>6. CASE AudioWorker
    <2>1. CASE \/ AudioEnters \/ AudioLeaves \/ AudioChecks \/ AudioStarves
               \/ AudioDrained \/ AudioFault \/ AudioEnds
      <3>1. /\ UNCHANGED <<audio_cursor, left, submitted, published, stopping>>
            /\ audio_pc # "none"
            /\ audio_pc' \in {"top", "next", "check", "starve"} =>
                  audio_pc \in {"top", "next", "check", "starve"}
            /\ audio_pc' = "drain" => stopping \/ submitted >= Samples
        BY <2>1 DEF AudioEnters, AudioLeaves, AudioChecks, AudioStarves, AudioDrained,
           AudioFault, AudioEnds, AudioRest, AudioFlags, clipVars
      <3> QED BY <3>1 DEF AudioWithin, SoundHeld
    <2>2. CASE AudioFetches
      <3> DEFINE count == CountOf("audio", audio_cursor - 1)
                 after == CursorAfter("audio", audio_cursor)
      <3>1. /\ audio_pc = "next" /\ audio_pc' \in {"write", "check"} /\ left = 0
            /\ audio_cursor <= published /\ SoundHeld(audio_cursor, 0)
        BY <2>2 DEF AudioFetches, AudioWithin
      <3>2. UNCHANGED <<submitted, published>> /\ audio_cursor' = after
        BY <2>2 DEF AudioFetches, AudioRest, clipVars
      <3>3. audio_cursor \in Nat \ {0} /\ published \in Nat /\ submitted \in Nat
        BY Constants DEF AudioOK, ClipOK
      <3>4. count \in Nat
        BY <3>3, CountType
      <3>5. after <= published
        BY <3>1, <3>3, CursorStep
      <3>6. CASE Found("audio", audio_cursor) = {}
        <4>1. CountOf("audio", after - 1) = count /\ left' = 0 /\ audio_pc' = "check"
          BY <2>2, <3>1, <3>3, <3>6, CursorStep DEF AudioFetches
        <4> HIDE DEF after
        <4> QED BY <3>1, <3>2, <3>5, <4>1 DEF AudioWithin, SoundHeld
      <3>7. CASE Found("audio", audio_cursor) # {}
        <4>1. /\ CountOf("audio", after - 1) = count + 1
              /\ CountOf("audio", NextRecord("audio", audio_cursor) - 1) = count
          BY <3>1, <3>3, <3>7, CursorStep
        <4>2. audio_pc' = "write" /\ left' = IF count = 0 THEN 0 ELSE RecordBlocks
          BY <2>2, <3>7, <4>1 DEF AudioFetches
        <4>3. submitted <= Samples =>
                  submitted <= (count - 1) * RecordBlocks \/ submitted = 0
          BY <3>1, <3>3 DEF SoundHeld
        <4> HIDE DEF after, count
        <4>4. count * RecordBlocks = (count - 1) * RecordBlocks + RecordBlocks
          BY <3>4, Constants
        <4>5. submitted <= Samples =>
                  submitted + left' <= ((count + 1) - 1) * RecordBlocks
                  \/ submitted + left' = 0
          <5>1. CASE count = 0
            <6>1. (count - 1) * RecordBlocks < 0
              BY <5>1, Constants
            <6> QED BY <3>3, <4>2, <4>3, <5>1, <6>1, Constants
          <5>2. CASE count # 0
            <6>1. (count - 1) * RecordBlocks \in Nat /\ (count + 1) - 1 = count
              BY <3>4, <5>2, Constants
            <6> QED BY <3>3, <4>2, <4>3, <4>4, <5>2, <6>1, Constants
          <5> QED BY <5>1, <5>2
        <4> QED BY <3>2, <3>5, <4>1, <4>2, <4>5 DEF AudioWithin, SoundHeld
      <3> QED BY <3>6, <3>7
    <2>3. CASE AudioWrites
      <3>1. /\ UNCHANGED <<audio_pc, audio_cursor, published, stopping>> /\ ~stopping
            /\ submitted' = submitted + 1
            /\ \/ audio_pc = "write" /\ submitted < Samples /\ left' = left - 1
               \/ audio_pc = "drain" /\ left' = left
        BY <2>3 DEF AudioWrites, AudioRest, GateOpen, clipVars
      <3>2. submitted \in Nat /\ left \in Nat /\ Samples \in Nat
        BY Constants DEF AudioOK
      <3>3. CASE audio_pc = "write"
        <4>1. submitted + 1 + (left - 1) = submitted + left /\ submitted <= Samples
          BY <3>1, <3>2, <3>3
        <4> QED BY <3>1, <3>3, <4>1 DEF AudioWithin, SoundHeld
      <3>4. CASE audio_pc = "drain"
        <4>1. submitted >= Samples
          BY <3>1, <3>4 DEF AudioWithin
        <4>2. ~(submitted + 1 <= Samples) /\ submitted + 1 >= Samples
          BY <3>2, <4>1
        <4> QED BY <3>1, <3>4, <4>2 DEF AudioWithin, SoundHeld
      <3> QED BY <3>1, <3>3, <3>4
    <2>4. CASE AudioWritten
      <3>1. SoundHeld(audio_cursor, left) => SoundHeld(audio_cursor, 0)
        <4> DEFINE held == (CountOf("audio", audio_cursor - 1) - 1) * RecordBlocks
        <4>1. audio_cursor - 1 \in Nat
          BY Constants DEF AudioOK
        <4>2. CountOf("audio", audio_cursor - 1) \in Nat
          BY <4>1, CountType
        <4>3. held \in Int /\ submitted \in Nat /\ left \in Nat
          BY <4>2, Constants DEF AudioOK
        <4> HIDE DEF held
        <4>4. /\ submitted + left <= held => submitted + 0 <= held
              /\ submitted + left = 0 => submitted + 0 = 0
          BY <4>3
        <4> QED BY <4>4 DEF SoundHeld, held
      <3>2. /\ UNCHANGED <<audio_cursor, submitted, published>>
            /\ left' = 0 /\ audio_pc = "write" /\ audio_pc' = "top"
        BY <2>4 DEF AudioWritten, AudioRest, clipVars
      <3> QED BY <3>1, <3>2 DEF AudioWithin, SoundHeld
    <2>5. CASE AudioGives
      BY <2>5 DEF AudioGives, AudioWithin
    <2> QED BY <1>6, <2>1, <2>2, <2>3, <2>4, <2>5 DEF AudioWorker
  <1>7. CASE RadioWorker
    <2>1. CASE \/ RadioBegins \/ RadioRejects \/ RadioAnswered \/ RadioCounts
               \/ RadioFinishes
      <3>1. UNCHANGED <<audio_pc, audio_cursor, left, submitted, published, stopping>>
        BY <2>1 DEF RadioBegins, RadioRejects, RadioAnswered, RadioCounts,
           RadioFinishes, RadioRest, sharedVars, audioVars, clipVars
      <3> QED BY <3>1 DEF AudioWithin, SoundHeld
    <2>2. CASE RadioPublishes
      <3>1. published' >= published /\ published' \in Nat
        BY <2>2, Constants DEF RadioPublishes, ClipOK
      <3>2. audio_cursor <= published => audio_cursor <= published'
        BY <3>1, Constants DEF AudioOK, ClipOK
      <3>3. UNCHANGED <<audio_pc, audio_cursor, left, submitted, stopping>>
        BY <2>2 DEF RadioPublishes, RadioRest, audioVars, sharedVars
      <3> QED BY <3>2, <3>3 DEF AudioWithin, SoundHeld
    <2> QED BY <1>7, <2>1, <2>2 DEF RadioWorker
  <1>8. CASE UNCHANGED vars
    BY <1>8 DEF vars, sharedVars, audioVars, clipVars, AudioWithin, SoundHeld
  <1> QED BY <1>1, <1>2, <1>3, <1>4, <1>5, <1>6, <1>7, <1>8 DEF Next, MainLoop

\* Every picture is fetched and decoded once.
LEMMA PicturesOnceStep ==
    ASSUME VideoOK, ClipOK, Joined, VideoWithin, PicturesOnce, [Next]_vars
    PROVE  PicturesOnce'
  <1>1. CASE Poll
    <2>1. /\ UNCHANGED <<video_cursor, have_video, decoded>>
          /\ playing' = playing \/ ~playing'
      BY <1>1 DEF Poll, PollNothing, CommandPlay, TogglePause, AutoplayOn, AutoplayOff,
         StopFor, Playable, playerVars, videoVars
    <2> QED BY <2>1 DEF PicturesOnce
  <1>2. CASE RadioTick
    <2>1. /\ UNCHANGED <<video_cursor, have_video, decoded>>
          /\ playing' = playing \/ ~playing'
      BY <1>2 DEF RadioTick, StopFor, playerVars, videoVars
    <2> QED BY <2>1 DEF PicturesOnce
  <1>3. CASE Tick
    <2>1. CASE \/ TickArmed \/ TickHolds \/ TickAudioFailed \/ TickRuns \/ TickStarved
               \/ TickDecodeFails \/ TickLoops
      <3>1. /\ UNCHANGED <<video_cursor, have_video, decoded>>
            /\ playing' = playing \/ ~playing'
        BY <2>1 DEF TickArmed, TickHolds, TickAudioFailed, TickRuns, TickStarved,
           TickDecodeFails, TickLoops, StopFor, Goto, playerVars, videoVars
      <3> QED BY <3>1 DEF PicturesOnce
    <2>2. CASE TickFetches
      <3> DEFINE count == CountOf("video", video_cursor - 1)
                 after == CursorAfter("video", video_cursor)
      <3>1. UNCHANGED <<playing, decoded>>
        BY <2>2 DEF TickFetches, playerVars
      <3>2. CASE have_video \/ decoded = Frames
        BY <2>2, <3>1, <3>2 DEF TickFetches, PicturesOnce
      <3>3. CASE playing /\ ~(have_video \/ decoded = Frames)
        <4>1. /\ video_cursor \in Nat \ {0} /\ published \in Nat
              /\ video_cursor <= published /\ decoded \in Nat
          BY <3>3, Constants DEF VideoOK, ClipOK, VideoWithin
        <4>2. video_cursor' = after /\ count = decoded + 0
          BY <2>2, <3>3 DEF TickFetches, PicturesOnce
        <4>3. CASE Found("video", video_cursor) = {}
          <5>1. CountOf("video", after - 1) = count
            BY <4>1, <4>3, CursorStep
          <5>2. have_video' = have_video
            BY <2>2, <3>3, <4>3 DEF TickFetches
          <5> HIDE DEF after, count
          <5> QED BY <3>1, <3>3, <4>2, <5>1, <5>2 DEF PicturesOnce
        <4>4. CASE Found("video", video_cursor) # {}
          <5>1. CountOf("video", after - 1) = count + 1
            BY <4>1, <4>4, CursorStep
          <5>2. have_video' = TRUE
            BY <2>2, <3>3, <4>4 DEF TickFetches
          <5> HIDE DEF after, count
          <5>3. count + 1 = decoded + 1
            BY <4>1, <4>2
          <5> QED BY <3>1, <4>2, <5>1, <5>2, <5>3 DEF PicturesOnce
        <4> QED BY <4>3, <4>4
      <3>4. CASE ~playing
        BY <3>1, <3>4 DEF PicturesOnce
      <3> QED BY <3>2, <3>3, <3>4
    <2>3. CASE TickShows
      <3>1. UNCHANGED <<playing, video_cursor>>
        BY <2>3 DEF TickShows, playerVars
      <3>2. CASE PictureDue
        <4>1. have_video /\ decoded' = decoded + 1 /\ have_video' = FALSE /\ decoded \in Nat
          BY <2>3, <3>2, Constants DEF TickShows, PictureDue, VideoOK
        <4> QED BY <3>1, <4>1 DEF PicturesOnce
      <3>3. CASE ~PictureDue
        BY <2>3, <3>1, <3>3 DEF TickShows, PicturesOnce
      <3> QED BY <3>2, <3>3
    <2> QED BY <1>3, <2>1, <2>2, <2>3 DEF Tick
  <1>4. CASE Join
    <2>1. UNCHANGED <<playing, video_cursor, have_video, decoded>>
      BY <1>4 DEF Join, playerVars, videoVars
    <2> QED BY <2>1 DEF PicturesOnce
  <1>5. CASE Jobs
    <2>1. CASE JobStopped \/ JobClear \/ AnyJobFail \/ AnyJobBegin
      <3>1. UNCHANGED <<playing, video_cursor, have_video, decoded>>
        BY <2>1 DEF JobStopped, JobClear, AnyJobFail, JobFail, AnyJobBegin, JobBegin,
           Job, GiveAnswer, playerVars, videoVars
      <3> QED BY <3>1 DEF PicturesOnce
    <2>2. CASE JobPlay
      <3>1. CountOf("video", 1 - 1) = 0
        BY CountNone
      <3>2. video_cursor' = 1 /\ decoded' = 0 /\ have_video' = FALSE
        BY <2>2 DEF JobPlay
      <3> QED BY <3>1, <3>2 DEF PicturesOnce
    <2>3. CASE JobPlayFails
      <3>1. ~playing'
        BY <2>3 DEF JobPlayFails, Job, Joined
      <3> QED BY <3>1 DEF PicturesOnce
    <2> QED BY <1>5, <2>1, <2>2, <2>3 DEF Jobs, AnyJobFail, AnyJobBegin
  <1>6. CASE AudioWorker
    <2>1. UNCHANGED <<playing, video_cursor, have_video, decoded>>
      BY <1>6, Untouched DEF playerVars, videoVars
    <2> QED BY <2>1 DEF PicturesOnce
  <1>7. CASE RadioWorker
    <2>1. UNCHANGED <<playing, video_cursor, have_video, decoded>>
      BY <1>7, Untouched DEF playerVars, videoVars
    <2> QED BY <2>1 DEF PicturesOnce
  <1>8. CASE UNCHANGED vars
    BY <1>8 DEF vars, playerVars, videoVars, PicturesOnce
  <1> QED BY <1>1, <1>2, <1>3, <1>4, <1>5, <1>6, <1>7, <1>8 DEF Next, MainLoop
-----------------------------------------------------------------------------
(* The invariant and the theorems.                                          *)

LEMMA StepIInv == IInv /\ [Next]_vars => IInv'
  <1> SUFFICES ASSUME IInv, [Next]_vars PROVE IInv'
    OBVIOUS
  <1> USE DEF IInv, Types
  <1>1. MainOK' /\ PlayerOK' /\ VideoOK' /\ SharedOK'
    BY MainTyped, PlayerTyped, VideoTyped, SharedTyped
  <1>2. AudioOK' /\ ClipOK' /\ RadioOK'
    BY AudioTyped, ClipTyped, RadioTyped
  <1>3. Missing' /\ Joined' /\ Heard'
    BY MissingStep, JoinedStep, HeardStep
  <1>4. Whole' /\ PlayHasClip' /\ VideoWithin' /\ AudioWithin'
    BY WholeStep, PlayHasClipStep, VideoWithinStep, AudioWithinStep
  <1>5. PicturesOnce'
    BY PicturesOnceStep
  <1> QED BY <1>1, <1>2, <1>3, <1>4, <1>5

\* Whatever the clip, the buffer, the commands and the faults, the player stays
\* inside the inductive invariant.
THEOREM PlayerInvariant == Spec => []IInv
  BY InitIInv, StepIInv, PTL DEF Spec

\* The variables of the main loop, the two workers and the clip memory keep
\* their types (player.cpp, ram_clip.cpp, radio_transfer.cpp's handshake).
THEOREM PlayerTypeOK == Spec => []TypeOK
  <1>1. IInv => TypeOK
    <2> SUFFICES ASSUME IInv PROVE TypeOK
      OBVIOUS
    <2>1. MainOK /\ RadioOK /\ PlayerOK
      BY DEF IInv, Types
    <2>2. VideoOK /\ SharedOK
      BY DEF IInv, Types
    <2>3. AudioOK /\ ClipOK
      BY DEF IInv, Types
    <2>4. {armed, playing, autoplay, have_video, stopping, paused, buffering, audio_failed,
           audio_ended, done, task_running, okay, verified, player_result,
           lifecycle_done} \subseteq BOOLEAN
      BY <2>1, <2>2, <2>3 DEF PlayerOK, VideoOK, SharedOK, AudioOK, ClipOK, RadioOK
    <2>5. {video_cursor, audio_cursor} \subseteq 1..(Records + 1)
      BY <2>2, <2>3 DEF VideoOK, AudioOK
    <2> QED BY <2>1, <2>2, <2>3, <2>4, <2>5
            DEF TypeOK, MainOK, PlayerOK, VideoOK, SharedOK, AudioOK, ClipOK, RadioOK
  <1> QED BY <1>1, PlayerInvariant, PTL

\* start_audio, stop() and the audio worker agree on who is alive: no worker is
\* left unjoined or joined twice (player.cpp).
THEOREM WorkersAreJoined == Spec => []JoinInStep
  <1>1. IInv => JoinInStep
    BY DEF IInv, Joined
  <1> QED BY <1>1, PlayerInvariant, PTL

\* Both readers stay inside what ram_clip has published of the clip now in
\* memory, and the worker submits no more sound than those records hold.
THEOREM ReadersStayWithin == Spec => []ReadersWithinPublished
  <1>1. IInv => ReadersWithinPublished
    BY DEF IInv, VideoWithin, AudioWithin, SoundHeld, ReadersWithinPublished
  <1> QED BY <1>1, PlayerInvariant, PTL

\* player::tick decodes every picture once and in order, however often playback
\* is held.
THEOREM PicturesComeOnce == Spec => []PicturesOnce
  <1>1. IInv => PicturesOnce
    BY DEF IInv
  <1> QED BY <1>1, PlayerInvariant, PTL

\* The worker reports the end only when the audio clock has reached it.
THEOREM EndMeansHeard == Spec => []EndedIsHeard
  <1>1. IInv => EndedIsHeard
    BY DEF IInv, Heard, EndedIsHeard
  <1> QED BY <1>1, PlayerInvariant, PTL

\* Only radio_transfer::tick, after stop(), replaces the clip memory.
LEMMA OnlyJobsReplace == ASSUME [Next]_vars, clip' # clip PROVE main_pc = "job"
  <1>1. CASE Poll \/ RadioTick \/ Tick \/ Join \/ AudioWorker
    BY <1>1, Untouched DEF clipVars
  <1>2. CASE Jobs
    BY <1>2 DEF Jobs, JobPlay, JobPlayFails, JobStopped, JobClear, JobFail, JobBegin, Job
  <1>3. CASE RadioWorker
    BY <1>3 DEF RadioWorker, RadioBegins, RadioRejects, RadioAnswered, RadioPublishes,
       RadioCounts, RadioFinishes, clipVars
  <1>4. CASE UNCHANGED vars
    BY <1>4 DEF vars, clipVars
  <1> QED BY <1>1, <1>2, <1>3, <1>4 DEF Next, MainLoop

\* The clip memory is replaced only when no worker is alive and the main loop
\* plays nothing.
THEOREM ClipOutlives == Spec => ClipOutlivesReaders
  <1>1. IInv /\ [Next]_vars => [clip' # clip => audio_pc = "none" /\ ~playing]_vars
    <2> SUFFICES ASSUME IInv, [Next]_vars, clip' # clip
                 PROVE  audio_pc = "none" /\ ~playing
      OBVIOUS
    <2>1. main_pc = "job"
      BY OnlyJobsReplace
    <2> QED BY <2>1 DEF IInv, Joined, JoinInStep
  <1> QED BY <1>1, PlayerInvariant, PTL DEF Spec, ClipOutlivesReaders
=============================================================================
