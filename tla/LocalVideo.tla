----------------------------- MODULE LocalVideo -----------------------------
(***************************************************************************)
(* The silent player of a clip on the board's own card                      *)
(* (button_lcd_test/src/main.cpp): one loop that takes commands, polls the  *)
(* button (Debounce) and shows at most one picture a turn, on a schedule in *)
(* micros(), a counter that wraps.  The clip is put on the card over USB.   *)
(* What the source calls video, paused, position and frame_index has        *)
(* the prefix local_ here: AvPlayer has variables of these names.           *)
(***************************************************************************)
EXTENDS WrappingClock

CONSTANTS
    LocalFrames,    \* frame_count
    Period,         \* frame_period_us
    TurnMax,        \* how long a turn may take that draws nothing
    DecodeMax,      \* and one that does
    Clips,          \* contents that may be uploaded
    LocalFaults,    \* what may fail
    CountWrap       \* 2^32: where the counters of status start again

ASSUME LocalVideoConstants ==
    /\ {LocalFrames, Period, TurnMax, DecodeMax} \subseteq Nat \ {0}
    /\ TurnMax < Period /\ TurnMax <= DecodeMax
    /\ 2 * (Period + DecodeMax) <= Wrap
    /\ CountWrap \in Nat \ {0}
    /\ LocalFaults \subseteq {"mount", "card", "picture", "usb"}
    /\ {"none", "torn", "refused"} \cap Clips = {}

VARIABLES
    mounted, local_pc,           \* "loop", or where receive_video is
    now_us,
    \* playback
    local_video, local_paused, local_position, local_index, next_frame_us,
    decoded_frames, skipped_frames, completed_loops,
    \* the card, the upload being received, and what the sender was told of the last
    clip, staging, expected, answer,
    \* history: how late the next picture is, in time that does not wrap and ends at Wrap
    late

countVars == <<decoded_frames, skipped_frames, completed_loops>>
playVars ==
    <<local_video, local_paused, local_position, local_index, next_frame_us, countVars, late>>
cardVars == <<clip, staging, expected, answer>>
localVars == <<mounted, local_pc, now_us, playVars, cardVars>>

Playing == local_video /\ ~local_paused

\* now_us - next_frame_us, in unsigned arithmetic.
Behind == Elapsed(now_us, next_frame_us)

-----------------------------------------------------------------------------
(* play_video, and setup.                                                   *)

VideoStarts ==
    /\ clip # "none"
    /\ local_video' = TRUE /\ local_paused' = FALSE /\ local_position' = 0 /\ local_index' = 0
    /\ decoded_frames' = 0 /\ skipped_frames' = 0 /\ completed_loops' = 0
    /\ next_frame_us' = now_us' /\ late' = 0

\* There is none, it cannot be read, or its header is not a video's.
VideoUnplayable ==
    /\ clip = "none" \/ LocalFaults \cap {"card", "picture"} # {}
    /\ local_video' = FALSE /\ local_paused' = FALSE
    /\ UNCHANGED <<local_position, local_index, next_frame_us, countVars, late>>

PlayVideo == VideoStarts \/ VideoUnplayable

Stopped ==
    /\ local_pc = "loop" /\ local_video = FALSE /\ local_paused = FALSE
    /\ local_position = 0 /\ local_index = 0
    /\ next_frame_us = 0 /\ decoded_frames = 0 /\ skipped_frames = 0 /\ completed_loops = 0
    /\ late = 0 /\ expected = "none"

MayMount == IF "mount" \in LocalFaults THEN BOOLEAN ELSE {TRUE}

\* An empty card.
LocalInit ==
    /\ now_us = 0 /\ Stopped
    /\ mounted \in MayMount
    /\ clip = "none" /\ staging = "none" /\ answer = "none"

\* A reset, wherever the program is; setup plays what is on the card.
Reset ==
    /\ now_us' = 0 /\ local_pc' = "loop" /\ expected' = "none"
    /\ mounted' \in MayMount
    /\ IF mounted' /\ clip # "none" THEN PlayVideo
       ELSE /\ local_video' = FALSE /\ local_paused' = FALSE
            /\ UNCHANGED <<local_position, local_index, next_frame_us, countVars, late>>
    /\ UNCHANGED <<clip, staging, answer>>

-----------------------------------------------------------------------------
(* Commands and the button.                                                 *)

Commanded == local_pc = "loop" /\ mounted

PlayCommand ==
    /\ Commanded
    /\ UNCHANGED <<mounted, local_pc, now_us, cardVars>>
    /\ PlayVideo

\* Mutant: the schedule waits while paused, in a counter that does not.
ToggleKeepsSchedule ==
    /\ local_pc = "loop" /\ local_video
    /\ local_paused' = ~local_paused
    /\ late' = 0
    /\ UNCHANGED <<mounted, local_pc, now_us, local_video, local_position, local_index,
                   next_frame_us, countVars, cardVars>>

\* The pause command, and a press of the button.
ToggleVideo ==
    /\ local_pc = "loop" /\ local_video
    /\ local_paused' = ~local_paused
    /\ next_frame_us' = now_us /\ late' = 0
    /\ UNCHANGED <<mounted, local_pc, now_us, local_video, local_position, local_index,
                   countVars, cardVars>>

Closes == local_video' = FALSE
CloseOnly == UNCHANGED <<local_paused, local_position, local_index, next_frame_us, countVars, late>>

\* put's size or hash is none, the card holds a video already, or the staging file does not open.
PutRefused(content) ==
    /\ Commanded /\ Closes /\ CloseOnly
    /\ answer' \in (IF clip = content THEN {content} ELSE {})
                   \cup (IF clip # content \/ "card" \in LocalFaults THEN {"refused"} ELSE {})
    /\ UNCHANGED <<mounted, local_pc, now_us, clip, staging, expected>>

\* The staging file is opened, and emptied.
PutStarts(content) ==
    /\ Commanded /\ clip = "none"
    /\ Closes /\ CloseOnly
    /\ staging' = "torn" /\ expected' = content /\ answer' = "none" /\ local_pc' = "receive"
    /\ UNCHANGED <<mounted, now_us, clip>>

Uploading(pc) == local_pc = pc /\ UNCHANGED <<mounted, now_us, playVars>>

Ends(told) == local_pc' = "loop" /\ expected' = "none" /\ answer' = told

\* All bytes came and were written: the content, unless the line or the card changed it.
PutReceived ==
    /\ Uploading("receive")
    /\ staging' \in {expected} \cup {"torn" : f \in LocalFaults \cap {"usb", "card"}}
    /\ local_pc' = "verify"
    /\ UNCHANGED <<clip, expected, answer>>

PutInterrupted ==
    /\ Uploading("receive") /\ LocalFaults \cap {"usb", "card"} # {}
    /\ Ends("refused")
    /\ UNCHANGED <<clip, staging>>

\* Mutant: the file is not read back.
VerifiesAnything == TRUE

\* check_hash of the staging file, closed and opened again.
Verifies == staging = expected

PutVerified ==
    /\ Uploading("verify") /\ Verifies
    /\ local_pc' = "rename"
    /\ UNCHANGED cardVars

PutMismatched ==
    /\ Uploading("verify") /\ (~Verifies \/ "card" \in LocalFaults)
    /\ Ends("refused")
    /\ UNCHANGED <<clip, staging>>

PutSaved ==
    /\ Uploading("rename")
    /\ clip' = staging /\ staging' = "none"
    /\ Ends(expected)

PutNotRenamed ==
    /\ Uploading("rename") /\ "card" \in LocalFaults
    /\ Ends("refused")
    /\ UNCHANGED <<clip, staging>>

-----------------------------------------------------------------------------
(* tick_video, with which a turn of the loop ends.                          *)

TickVideo(gap) ==
    /\ local_pc = "loop"
    /\ now_us' = Later(now_us, gap)
    /\ UNCHANGED <<mounted, local_pc, cardVars>>

VideoIdle(gap) ==
    /\ TickVideo(gap) /\ ~Playing
    /\ UNCHANGED playVars

\* Not static_cast<int32_t>(now_us - next_frame_us) < 0.
Due == 2 * Behind < Wrap

VideoEarly(gap) ==
    /\ TickVideo(gap) /\ Playing /\ ~Due
    /\ late' = Grown(late, gap)
    /\ UNCHANGED <<local_video, local_paused, local_position, local_index, next_frame_us,
                   countVars>>

AtEnd == local_index = LocalFrames

PositionRead == IF AtEnd THEN 0 ELSE local_position

Counted(count) == (count + 1) % CountWrap

\* At the end the file goes back to the first picture, and a loop is counted.
Rewinds ==
    completed_loops' = IF AtEnd THEN Counted(completed_loops) ELSE completed_loops

Index == IF AtEnd THEN 0 ELSE local_index

\* The next picture's turn is over, shown or not.
Advances ==
    /\ Rewinds
    /\ local_index' = Index + 1 /\ next_frame_us' = Later(next_frame_us, Period)

Overdue == Behind >= Period

VideoSkips(gap) ==
    /\ TickVideo(gap) /\ Playing /\ Due /\ Overdue
    /\ Advances /\ local_position' = PositionRead + 1
    /\ skipped_frames' = Counted(skipped_frames) /\ late' = Grown(late - Period, gap)
    /\ UNCHANGED <<local_video, local_paused, decoded_frames>>

VideoDraws(gap) ==
    /\ TickVideo(gap) /\ Playing /\ Due /\ ~Overdue
    /\ Advances /\ local_position' = PositionRead + 1
    /\ decoded_frames' = Counted(decoded_frames) /\ late' = Grown(late - Period, gap)
    /\ UNCHANGED <<local_video, local_paused, skipped_frames>>

\* The end is not the file's end, or the rewind fails; a length cannot be read or is
\* none; the skip, the picture or its decoding fails.
VideoBreaks(gap) ==
    /\ TickVideo(gap) /\ Playing /\ Due /\ LocalFaults \cap {"card", "picture"} # {}
    /\ \/ AtEnd /\ UNCHANGED <<local_index, next_frame_us, completed_loops>>
       \/ Rewinds /\ local_index' = Index /\ UNCHANGED next_frame_us
       \/ Advances
    /\ Closes
    /\ UNCHANGED <<local_paused, local_position, decoded_frames, skipped_frames, late>>

-----------------------------------------------------------------------------

Turn ==
    \/ \E gap \in 1..TurnMax : VideoIdle(gap) \/ VideoEarly(gap) \/ VideoSkips(gap)
    \/ \E gap \in 1..DecodeMax : VideoDraws(gap) \/ VideoBreaks(gap)

Upload ==
    \/ PutReceived \/ PutInterrupted \/ PutVerified \/ PutMismatched \/ PutSaved
    \/ PutNotRenamed

Command ==
    \/ PlayCommand \/ ToggleVideo
    \/ \E content \in Clips : PutRefused(content) \/ PutStarts(content)

LocalNext == Turn \/ Upload \/ Command \/ Reset

LocalSpec == LocalInit /\ [][LocalNext]_localVars

-----------------------------------------------------------------------------
(* Properties.                                                              *)

\* The type invariant.
LocalTypeOK ==
    /\ {mounted, local_video, local_paused} \subseteq BOOLEAN
    /\ local_pc \in {"loop", "receive", "verify", "rename"}
    /\ {now_us, next_frame_us} \subseteq 0..(Wrap - 1)
    /\ {local_position, local_index} \subseteq 0..LocalFrames
    /\ {decoded_frames, skipped_frames, completed_loops} \subseteq 0..(CountWrap - 1)
    /\ clip \in Clips \cup {"none"} /\ staging \in Clips \cup {"none", "torn"}
    /\ expected \in Clips \cup {"none"} /\ answer \in Clips \cup {"none", "refused"}
    /\ late \in (-Period)..Wrap

\* "It skips overdue frames to keep the intended playback duration" (README.md:111):
\* playback is never ahead by more than a picture and never behind by more than one
\* and the longest decoding, and the wrapping counters say exactly how late it is,
\* however long it was paused or stopped before.
OnSchedule ==
    Playing =>
        /\ -Period <= late /\ late < Period + DecodeMax
        /\ late = IF 2 * Behind < Wrap THEN Behind ELSE Behind - Wrap

\* Each picture is drawn in its own period: not before it is due, not when the next is.
DrawnInTime ==
    [][decoded_frames' # decoded_frames /\ local_position' # 0 =>
          0 <= late /\ late < Period]_localVars

\* "A different existing video is preserved" (README.md:76-77), and only a verified
\* upload becomes the video, whatever fails and whenever the board resets.
VideoPreserved == [][clip' # clip => clip = "none" /\ clip' = expected]_localVars

\* What the sender was told is so: saved, or there already.
AnswerIsTrue == answer \in Clips => clip = answer
=============================================================================
