----------------------------- MODULE PartsProofs -----------------------------
(***************************************************************************)
(* What holds of the parts that are modelled on their own, each proved of   *)
(* its own specification, for every value of its constants.                 *)
(***************************************************************************)
EXTENDS Parts, AvPlayerProofs, WireProtocolProofs, SequenceTheorems, FiniteSetTheorems,
        WellFoundedInduction

-----------------------------------------------------------------------------
(***************************************************************************)
(* The send window is correct for every payload size, clip size and window  *)
(* size and every set of acknowledgement offsets.  The inductive invariant  *)
(* is WindowOK with a window of at least one packet.                        *)
(***************************************************************************)

WindowIInv == WindowOK(window) /\ window.packets # 0

LEMMA WindowInitIInv == WindowInit => WindowIInv
  <1> SUFFICES ASSUME NEW total \in Totals, NEW packets \in Packets,
                      window = NewWindow(total, packets)
               PROVE  WindowIInv
    BY DEF WindowInit
  <1>1. total \in Nat /\ packets \in Nat \ {0}
    BY WindowConstants
  <1> QED BY <1>1, NewWindowOK DEF WindowIInv, NewWindow

\* What one step does to the window, by the case of the step.
LEMMA WindowStepIInv ==
    ASSUME WindowIInv, [WindowNext]_window
    PROVE  /\ WindowIInv'
           /\ window'.acknowledged >= window.acknowledged
           /\ window'.next >= window.acknowledged
  <1> USE DEF WindowIInv
  <1>0. /\ window.acknowledged \in Nat /\ window.next \in Nat
        /\ window.acknowledged <= window.next
    BY DEF WindowOK, WindowType, WindowOrdered
  <1>1. CASE Send
    <2>1. Count(window) \in Nat
      BY <1>1, CountBounds DEF Send
    <2> QED BY <1>0, <1>1, <2>1, SentOK DEF Send
  <1>2. CASE GoBack
    BY <1>0, <1>2, RetriedOK DEF GoBack
  <1>3. ASSUME NEW offset \in Offsets, Receive(offset)
        PROVE  /\ WindowIInv'
               /\ window'.acknowledged >= window.acknowledged
               /\ window'.next >= window.acknowledged
    <2>1. offset \in Nat /\ AckAccepted(window, offset) /\ window' = Acked(window, offset)
      BY <1>3, WindowConstants DEF Receive
    <2> QED BY <1>0, <2>1, AckedOK DEF Larger
  <1>4. CASE UNCHANGED window
    BY <1>0, <1>4
  <1> QED BY <1>1, <1>2, <1>3, <1>4 DEF WindowNext

THEOREM WindowInvariant == WindowSpec => []WindowIInv
  <1>1. WindowInit => WindowIInv
    BY WindowInitIInv
  <1>2. WindowIInv /\ [WindowNext]_window => WindowIInv'
    BY WindowStepIInv
  <1> QED BY <1>1, <1>2, PTL DEF WindowSpec

-----------------------------------------------------------------------------

\* The window is always a record of naturals (wire_protocol.h's unsigned fields
\* never go below zero).
THEOREM WindowTypeCorrect == WindowSpec => []WindowTypeOK
  <1>1. WindowIInv => WindowTypeOK
    BY DEF WindowIInv, WindowTypeOK, WindowOK
  <1> QED BY <1>1, WindowInvariant, PTL

\* Whatever the order of sends, rewinds and acknowledgements, the cursors are
\* ordered and no more than a window of bytes is outstanding.
THEOREM NeverBeyond == WindowSpec => []NeverBeyondWindow
  <1>1. WindowIInv => NeverBeyondWindow
    BY DEF WindowIInv, NeverBeyondWindow, WindowOK
  <1> QED BY <1>1, WindowInvariant, PTL

\* The cursors stay on packet boundaries or at the clip's end.
THEOREM AlwaysAligned == WindowSpec => []CursorsAligned
  <1>1. WindowIInv => CursorsAligned
    BY DEF WindowIInv, CursorsAligned, WindowOK
  <1> QED BY <1>1, WindowInvariant, PTL

\* An unfinished window can always send or has something to repeat.
THEOREM WindowNeverStuck == WindowSpec => []NeverStuck
  <1>1. WindowIInv => NeverStuck
    <2> SUFFICES ASSUME WindowIInv, window.acknowledged < window.total,
                        ~(window.high_water > window.acknowledged)
                 PROVE  Count(window) > 0
      BY DEF NeverStuck
    <2>1. /\ window.acknowledged \in Nat /\ window.next \in Nat /\ window.total \in Nat
          /\ window.high_water \in Nat /\ window.packets \in Nat \ {0}
          /\ PayloadSize \in Nat \ {0}
      BY PayloadAssumption DEF WindowIInv, WindowOK, WindowType
    <2>2. window.next = window.acknowledged
      BY <2>1 DEF WindowIInv, WindowOK, WindowOrdered
    <2>3. 1 * PayloadSize <= window.packets * PayloadSize
      BY <2>1, TimesMonotone
    <2> QED BY <2>1, <2>2, <2>3 DEF Count, Smaller
  <1> QED BY <1>1, WindowInvariant, PTL

\* Nothing that was acknowledged is taken back or offered again.
THEOREM NeverRewound == WindowSpec => NoRewindOfAcknowledged
  <1>1. WindowIInv /\ [WindowNext]_window =>
           [window'.acknowledged >= window.acknowledged
            /\ window'.next >= window.acknowledged]_window
    BY WindowStepIInv
  <1> QED BY <1>1, WindowInvariant, PTL DEF WindowSpec, NoRewindOfAcknowledged

-----------------------------------------------------------------------------
(***************************************************************************)
(* The debouncer is right for every debounce time, every width of millis()  *)
(* and every turn of loop() that is shorter than one round of the counter   *)
(* less the debounce time.                                                  *)
(***************************************************************************)

\* What the unsigned subtractions give, as long as less than a round has passed.
HeldExact ==
    /\ steady < Wrap => Elapsed(now_ms, raw_changed_ms) = steady
    /\ stable_pressed /\ press_count > 0 /\ held < Wrap =>
          Elapsed(now_ms, pressed_ms) = held

\* A button not seen released is the one the board started with.
StillHeld == ~seen_released => raw_pressed /\ (HeldCounts \/ stable_pressed)

ButtonIInv == ButtonTypeOK /\ HeldExact /\ NoneWaits /\ StillHeld

LEMMA ButtonConstantsUsed ==
    /\ DebounceMs \in Nat \ {0} /\ MaxGap \in Nat \ {0} /\ Wrap \in Nat
    /\ DebounceMs + MaxGap <= Wrap /\ HeldCounts \in BOOLEAN /\ MaxPresses \in Nat
  BY DebounceConstants, WrapAssumption

LEMMA ButtonInitIInv == ButtonInit => ButtonIInv
  <1> SUFFICES ASSUME NEW held_down \in BOOLEAN, Starts(held_down, held_down /\ ~HeldCounts)
               PROVE  ButtonIInv
    BY DEF ButtonInit
  <1>1. now_ms \in 0..(Wrap - 1) /\ raw_changed_ms = now_ms /\ pressed_ms \in 0..(Wrap - 1)
        /\ press_count = 0 /\ press_count \in 0..MaxPresses
        /\ steady = 0 /\ steady \in 0..Wrap /\ held \in 0..Wrap /\ 0 < DebounceMs
    BY ButtonConstantsUsed DEF Starts
  <1>2. raw_pressed = held_down /\ stable_pressed = (held_down /\ ~HeldCounts) /\ seen_released = ~held_down
    BY DEF Starts
  <1>3. raw_pressed \in BOOLEAN /\ stable_pressed \in BOOLEAN /\ seen_released \in BOOLEAN
    BY <1>2
  <1>4. HeldExact
    BY <1>1, ButtonConstantsUsed DEF HeldExact, Elapsed
  <1>5. NoneWaits /\ StillHeld
    BY <1>1, <1>2 DEF NoneWaits, StillHeld
  <1> QED BY <1>1, <1>3, <1>4, <1>5 DEF ButtonIInv, ButtonTypeOK

\* The counter moves on with time, from any instant it is compared with.
LEMMA ElapsedGrows ==
    ASSUME NEW ms \in 0..(Wrap - 1), NEW since \in 0..(Wrap - 1), NEW gap \in 1..MaxGap
    PROVE  /\ Later(ms, gap) \in 0..(Wrap - 1)
           /\ Elapsed(ms, since) + gap < Wrap =>
                 Elapsed(Later(ms, gap), since) = Elapsed(ms, since) + gap
  BY ButtonConstantsUsed DEF Later, Elapsed

LEMMA ElapsedStarts == ASSUME NEW ms \in 0..(Wrap - 1) PROVE Elapsed(ms, ms) = 0
  BY ButtonConstantsUsed DEF Elapsed

\* What every turn does: the time since the last change stays exact.
LEMMA SamplesKeep ==
    ASSUME ButtonIInv, NEW sampled \in BOOLEAN, NEW gap \in 1..MaxGap, Sampled(sampled, gap)
    PROVE  /\ now_ms' \in 0..(Wrap - 1) /\ raw_changed_ms' \in 0..(Wrap - 1)
           /\ raw_pressed' = sampled /\ seen_released' \in BOOLEAN /\ steady' \in 0..Wrap
           /\ steady' < Wrap => Elapsed(now_ms', raw_changed_ms') = steady'
           /\ raw_changed_ms' = ChangedAt(sampled, now_ms')
  <1>1. now_ms' = Later(now_ms, gap) /\ now_ms' \in 0..(Wrap - 1)
    BY ElapsedGrows DEF Sampled, ButtonIInv, ButtonTypeOK
  <1>2. CASE sampled # raw_pressed
    BY <1>1, <1>2, ButtonConstantsUsed DEF Sampled, ChangedAt, ButtonIInv, ButtonTypeOK, Elapsed
  <1>3. CASE sampled = raw_pressed
    <2>1. raw_changed_ms' = raw_changed_ms /\ steady' = Grown(steady, gap)
      BY <1>3 DEF Sampled, ChangedAt
    <2>2. steady' < Wrap => Elapsed(now_ms', raw_changed_ms') = steady'
      BY <1>1, <2>1, ElapsedGrows, ButtonConstantsUsed DEF ButtonIInv, ButtonTypeOK, HeldExact, Grown
    <2> QED BY <1>1, <1>3, <2>1, <2>2, ButtonConstantsUsed
         DEF Sampled, ChangedAt, ButtonIInv, ButtonTypeOK, Grown
  <1> QED BY <1>2, <1>3

\* As long as an edge waits, the counter tells how long.
LEMMA WaitIsExact ==
    ASSUME ButtonIInv, NEW sampled \in BOOLEAN, NEW gap \in 1..MaxGap, Sampled(sampled, gap),
           sampled # stable_pressed, sampled => press_count < MaxPresses
    PROVE  Accepts(sampled, now_ms') <=> steady' >= DebounceMs
  <1>1. steady' < Wrap
    <2>1. CASE sampled # raw_pressed
      BY <2>1, ButtonConstantsUsed DEF Sampled
    <2>2. CASE sampled = raw_pressed
      <3>1. steady < DebounceMs
        BY <2>2 DEF ButtonIInv, NoneWaits
      <3> QED BY <2>2, <3>1, ButtonConstantsUsed DEF Sampled, Grown, ButtonIInv, ButtonTypeOK
    <2> QED BY <2>1, <2>2
  <1> QED BY <1>1, SamplesKeep DEF Accepts

\* The time since the press, over a turn that does not accept one.
LEMMA HeldKeeps ==
    ASSUME ButtonIInv, NEW gap \in 1..MaxGap, stable_pressed, press_count > 0
    PROVE  Grown(held, gap) < Wrap =>
              Elapsed(Later(now_ms, gap), pressed_ms) = Grown(held, gap)
  BY ElapsedGrows, ButtonConstantsUsed DEF ButtonIInv, ButtonTypeOK, HeldExact, Grown

LEMMA WaitsKeep ==
    ASSUME ButtonIInv, NEW sampled \in BOOLEAN, NEW gap \in 1..MaxGap, Waits(sampled, gap)
    PROVE  ButtonIInv'
  <1>1. Sampled(sampled, gap) /\ held' = Grown(held, gap)
        /\ UNCHANGED <<stable_pressed, pressed_ms, press_count>>
    BY DEF Waits
  <1>2. ButtonTypeOK'
    BY <1>1, SamplesKeep, ButtonConstantsUsed DEF ButtonIInv, ButtonTypeOK, Grown
  <1>3. HeldExact'
    BY <1>1, SamplesKeep, HeldKeeps DEF HeldExact, Sampled
  <1>4. NoneWaits'
    BY <1>1, SamplesKeep, WaitIsExact, ButtonConstantsUsed DEF Waits, NoneWaits, ButtonIInv, ButtonTypeOK
  <1>5. StillHeld'
    BY <1>1 DEF ButtonIInv, StillHeld, Sampled, ButtonTypeOK
  <1> QED BY <1>2, <1>3, <1>4, <1>5 DEF ButtonIInv

LEMMA PressesKeep ==
    ASSUME ButtonIInv, NEW gap \in 1..MaxGap, Presses(gap)
    PROVE  ButtonIInv'
  <1>1. Sampled(TRUE, gap) /\ stable_pressed' = TRUE /\ pressed_ms' = now_ms'
        /\ press_count' = press_count + 1 /\ press_count < MaxPresses /\ held' = 0
    BY DEF Presses
  <1>2. /\ now_ms' \in 0..(Wrap - 1) /\ raw_changed_ms' \in 0..(Wrap - 1)
        /\ raw_pressed' = TRUE /\ seen_released' \in BOOLEAN /\ steady' \in 0..Wrap
        /\ steady' < Wrap => Elapsed(now_ms', raw_changed_ms') = steady'
    BY <1>1, SamplesKeep, Zenon
  <1>3. ButtonTypeOK'
    BY <1>1, <1>2, ButtonConstantsUsed DEF ButtonIInv, ButtonTypeOK
  <1>4. HeldExact'
    <2>1. Elapsed(now_ms', pressed_ms') = held'
      <3>1. now_ms' \in 0..(Wrap - 1) /\ pressed_ms' = now_ms' /\ held' = 0
        BY <1>1, <1>2
      <3> QED BY <3>1, ElapsedStarts
    <2> QED BY <1>2, <2>1 DEF HeldExact
  <1>5. NoneWaits' /\ StillHeld'
    BY <1>1, <1>2 DEF NoneWaits, StillHeld
  <1> QED BY <1>3, <1>4, <1>5 DEF ButtonIInv

LEMMA ReleasesKeep ==
    ASSUME ButtonIInv, NEW gap \in 1..MaxGap, Releases(gap)
    PROVE  ButtonIInv'
  <1>1. Sampled(FALSE, gap) /\ stable_pressed' = FALSE /\ held' = Grown(held, gap)
        /\ UNCHANGED <<pressed_ms, press_count>>
    BY DEF Releases
  <1>2. /\ now_ms' \in 0..(Wrap - 1) /\ raw_changed_ms' \in 0..(Wrap - 1)
        /\ raw_pressed' = FALSE /\ seen_released' \in BOOLEAN /\ steady' \in 0..Wrap
        /\ steady' < Wrap => Elapsed(now_ms', raw_changed_ms') = steady'
    BY <1>1, SamplesKeep, Zenon
  <1>3. ButtonTypeOK'
    <2>1. {raw_pressed, stable_pressed, seen_released}' \subseteq BOOLEAN
      BY <1>1, <1>2
    <2>2. {steady, held}' \subseteq 0..Wrap
      BY <1>1, <1>2, ButtonConstantsUsed DEF ButtonIInv, ButtonTypeOK, Grown
    <2> QED BY <1>1, <1>2, <2>1, <2>2 DEF ButtonIInv, ButtonTypeOK
  <1>4. HeldExact'
    BY <1>1, <1>2 DEF HeldExact
  <1>5. NoneWaits' /\ StillHeld'
    BY <1>1, <1>2 DEF NoneWaits, StillHeld, Sampled
  <1> QED BY <1>3, <1>4, <1>5 DEF ButtonIInv

LEMMA ButtonNextKeeps == ButtonIInv /\ [ButtonNext]_buttonVars => ButtonIInv'
  <1>1. ASSUME ButtonIInv, ButtonNext PROVE ButtonIInv'
    BY <1>1, WaitsKeep, PressesKeep, ReleasesKeep DEF ButtonNext
  <1>2. ASSUME ButtonIInv, UNCHANGED buttonVars PROVE ButtonIInv'
    BY <1>2 DEF ButtonIInv, ButtonTypeOK, HeldExact, NoneWaits, StillHeld, buttonVars, Elapsed
  <1> QED BY <1>1, <1>2

LEMMA ButtonInvariant == ButtonSpec => []ButtonIInv
  BY ButtonInitIInv, ButtonNextKeeps, PTL DEF ButtonSpec

\* The type invariant.
THEOREM ButtonTypeCorrect == ButtonSpec => []ButtonTypeOK
  BY ButtonInvariant, PTL DEF ButtonIInv

\* An edge is accepted in the very turn in which its level has been steady for
\* debounce_ms, and in no other.
THEOREM EdgesInTime == ButtonSpec => EdgesAreExact
  <1> DEFINE Exactly ==
          stable_pressed' # stable_pressed <=>
             /\ raw_pressed' # stable_pressed /\ steady' >= DebounceMs
             /\ raw_pressed' => press_count < MaxPresses
  <1>1. ASSUME ButtonIInv, NEW gap \in 1..MaxGap, NEW sampled \in BOOLEAN, Waits(sampled, gap)
        PROVE  Exactly
    <2>1. raw_pressed' = sampled /\ stable_pressed' = stable_pressed
          /\ Sampled(sampled, gap) /\ ~Accepts(sampled, now_ms')
      BY <1>1, SamplesKeep DEF Waits
    <2> QED BY <1>1, <2>1, WaitIsExact
  <1>2. ASSUME ButtonIInv, NEW gap \in 1..MaxGap, Presses(gap) PROVE Exactly
    <2>1. /\ raw_pressed' = TRUE /\ stable_pressed' = TRUE /\ stable_pressed # TRUE
          /\ Sampled(TRUE, gap) /\ Accepts(TRUE, now_ms') /\ press_count < MaxPresses
      BY <1>2 DEF Presses, Sampled, Accepts
    <2> QED BY <1>2, <2>1, WaitIsExact
  <1>3. ASSUME ButtonIInv, NEW gap \in 1..MaxGap, Releases(gap) PROVE Exactly
    <2>1. /\ raw_pressed' = FALSE /\ stable_pressed' = FALSE /\ stable_pressed # FALSE
          /\ Sampled(FALSE, gap) /\ Accepts(FALSE, now_ms')
      BY <1>3 DEF Releases, Sampled, Accepts
    <2> QED BY <1>3, <2>1, WaitIsExact
  <1>4. ButtonIInv /\ [ButtonNext]_buttonVars => [Exactly]_buttonVars
    BY <1>1, <1>2, <1>3 DEF ButtonNext
  <1> QED BY <1>4, ButtonInvariant, PTL DEF ButtonSpec, EdgesAreExact

\* What a release tells is how long the button was held.
THEOREM ReleasesTell == ButtonSpec => TellsHeld
  <1>1. ButtonIInv /\ [ButtonNext]_buttonVars =>
          [stable_pressed /\ ~stable_pressed' /\ press_count > 0 /\ held' < Wrap =>
             Elapsed(now_ms', pressed_ms) = held']_buttonVars
    <2>1. ASSUME ButtonIInv, NEW gap \in 1..MaxGap, Releases(gap), stable_pressed, press_count > 0,
                 held' < Wrap
          PROVE  Elapsed(now_ms', pressed_ms) = held'
      BY <2>1, HeldKeeps DEF Releases, Sampled
    <2> QED BY <2>1 DEF ButtonNext, Waits, Presses, buttonVars
  <1> QED BY <1>1, ButtonInvariant, PTL DEF ButtonSpec, TellsHeld

\* A radio board makes no press of a button held while it starts.
THEOREM NoPressAtStart == ButtonSpec => NotAtStart
  <1>1. ButtonIInv /\ [ButtonNext]_buttonVars =>
          [~stable_pressed /\ stable_pressed' => HeldCounts \/ seen_released]_buttonVars
    BY DEF ButtonIInv, StillHeld, buttonVars
  <1> QED BY <1>1, ButtonInvariant, PTL DEF ButtonSpec, NotAtStart

-----------------------------------------------------------------------------
(***************************************************************************)
(* The schedule of the local player is exact through every wrap of micros() *)
(* and every pause, and the card's video is only ever a verified upload,    *)
(* for every period, decoding time, clip and fault.                         *)
(***************************************************************************)

\* Where the upload is: what the card and the answer are while it goes on.
UploadInStep ==
    local_pc # "loop" =>
        /\ ~local_video /\ clip = "none" /\ expected \in Clips /\ answer = "none"
        /\ local_pc = "rename" => staging = expected

\* The file is where the counters say.
AtFrame == local_video => local_position = local_index

LocalIInv == LocalTypeOK /\ OnSchedule /\ AtFrame /\ UploadInStep /\ AnswerIsTrue

-----------------------------------------------------------------------------
(* The counter.                                                             *)

\* How late it is at now, if next is when the picture is due.
LateAt(now, next) ==
    LET elapsed == IF now >= next THEN now - next ELSE now - next + Wrap
    IN  IF 2 * elapsed < Wrap THEN elapsed ELSE elapsed - Wrap

LEMMA LocalConstantsUsed ==
    /\ Period \in Nat /\ DecodeMax \in Nat /\ TurnMax \in Nat /\ Wrap \in Nat
    /\ 1 <= TurnMax /\ TurnMax < Period /\ TurnMax <= DecodeMax
    /\ 2 * (Period + DecodeMax) <= Wrap
  BY LocalVideoConstants, WrapAssumption

LEMMA LaterType ==
    ASSUME NEW us \in 0..(Wrap - 1), NEW gap \in 0..(Wrap - 1)
    PROVE  Later(us, gap) \in 0..(Wrap - 1)
  BY LocalConstantsUsed DEF Later

\* What is less than half a round away stays exact, whichever of the two wraps.
LEMMA LateMoves ==
    ASSUME NEW now \in 0..(Wrap - 1), NEW next \in 0..(Wrap - 1),
           NEW gap \in 0..(Wrap - 1), NEW step \in 0..(Wrap - 1),
           2 * (LateAt(now, next) + gap - step) < Wrap,
           -Wrap <= 2 * (LateAt(now, next) + gap - step)
    PROVE  LateAt(Later(now, gap), Later(next, step)) = LateAt(now, next) + gap - step
  BY LocalConstantsUsed DEF LateAt, Later

LEMMA LateStarts == ASSUME NEW us \in 0..(Wrap - 1) PROVE LateAt(us, us) = 0
  BY LocalConstantsUsed DEF LateAt

LEMMA LateIsElapsed ==
    LateAt(now_us, next_frame_us) = IF 2 * Behind < Wrap THEN Behind ELSE Behind - Wrap
  BY DEF LateAt, Behind, Elapsed

LEMMA ScheduleMeans ==
    OnSchedule <=> (Playing => -Period <= late /\ late < Period + DecodeMax
                               /\ late = LateAt(now_us, next_frame_us))
  BY LateIsElapsed DEF OnSchedule

LEMMA NextScheduleMeans ==
    OnSchedule' <=> (Playing' => -Period <= late' /\ late' < Period + DecodeMax
                                 /\ late' = LateAt(now_us', next_frame_us'))
  BY DEF OnSchedule, LateAt, Behind, Elapsed

-----------------------------------------------------------------------------
(* The invariant.                                                           *)

LEMMA LocalInitIInv == LocalInit => LocalIInv
  <1> SUFFICES ASSUME LocalInit PROVE LocalIInv
    OBVIOUS
  <1>1. LocalTypeOK
    <2>1. {mounted, local_video, local_paused} \subseteq BOOLEAN
      BY DEF LocalInit, Stopped, MayMount
    <2>2. /\ {now_us, next_frame_us} \subseteq 0..(Wrap - 1)
          /\ {local_position, local_index} \subseteq 0..LocalFrames
          /\ {decoded_frames, skipped_frames, completed_loops} \subseteq 0..(CountWrap - 1)
          /\ late \in (-Period)..Wrap
      BY LocalVideoConstants, LocalConstantsUsed DEF LocalInit, Stopped
    <2> QED BY <2>1, <2>2 DEF LocalInit, Stopped, LocalTypeOK
  <1>2. OnSchedule /\ AtFrame /\ UploadInStep
    BY DEF LocalInit, Stopped, OnSchedule, AtFrame, Playing, UploadInStep
  <1>3. AnswerIsTrue
    BY LocalVideoConstants, LocalConstantsUsed DEF LocalInit, AnswerIsTrue
  <1> QED BY <1>1, <1>2, <1>3 DEF LocalIInv

\* The types of the counters, after a turn that takes the next picture.
LEMMA AdvancesTypes ==
    ASSUME LocalTypeOK, Rewinds, NEW count \in 0..(CountWrap - 1)
    PROVE  /\ completed_loops' \in 0..(CountWrap - 1) /\ Counted(count) \in 0..(CountWrap - 1)
           /\ Index \in 0..(LocalFrames - 1)
  BY LocalVideoConstants, LocalConstantsUsed DEF LocalTypeOK, Rewinds, Counted, Index, AtEnd

\* A picture that is due is taken: drawn within the longest decoding, or skipped within
\* a turn that draws nothing, when it is a period late or more.
LEMMA TakesKeep ==
    ASSUME LocalIInv, NEW gap \in 1..DecodeMax, VideoDraws(gap) \/ (gap <= TurnMax /\ VideoSkips(gap))
    PROVE  LocalIInv'
  <1> USE LocalConstantsUsed
  <1>1. Playing /\ Due /\ Advances /\ now_us' = Later(now_us, gap)
        /\ local_position' = PositionRead + 1 /\ late' = Grown(late - Period, gap)
        /\ UNCHANGED <<mounted, local_pc, local_video, local_paused, cardVars>>
    BY DEF VideoDraws, VideoSkips, TickVideo
  <1>2. LocalTypeOK /\ Rewinds /\ local_index' = Index + 1
        /\ next_frame_us' = Later(next_frame_us, Period)
    BY <1>1 DEF LocalIInv, Advances
  <1>3. /\ -Period <= late /\ late < Period + DecodeMax /\ late = LateAt(now_us, next_frame_us)
        /\ late \in Int /\ now_us \in 0..(Wrap - 1) /\ next_frame_us \in 0..(Wrap - 1)
    BY <1>1, ScheduleMeans DEF LocalIInv, LocalTypeOK
  <1>4. late = Behind
    BY <1>1, <1>3, LateIsElapsed DEF Due
  <1>5. VideoDraws(gap) => late < Period
    BY <1>3, <1>4 DEF VideoDraws, Overdue, Behind, Elapsed
  <1>6. 0 <= late
    BY <1>3, <1>4 DEF Behind, Elapsed
  <1>7. late' = late + gap - Period /\ -Period <= late' /\ late' < Period + DecodeMax
    BY <1>1, <1>3, <1>5, <1>6 DEF Grown
  <1>8. OnSchedule'
    <2>1. late' = LateAt(now_us', next_frame_us')
      <3>1. gap \in 0..(Wrap - 1) /\ Period \in 0..(Wrap - 1)
        OBVIOUS
      <3>2. 2 * (late + gap - Period) < Wrap /\ -Wrap <= 2 * (late + gap - Period)
        BY <1>3, <1>7
      <3>3. LateAt(Later(now_us, gap), Later(next_frame_us, Period)) = late + gap - Period
        <4> DEFINE lt == LateAt(now_us, next_frame_us)
        <4>1. 2 * (lt + gap - Period) < Wrap /\ -Wrap <= 2 * (lt + gap - Period)
          BY <1>3, <3>2
        <4>2. LateAt(Later(now_us, gap), Later(next_frame_us, Period)) = lt + gap - Period
          BY <1>3, <3>1, <4>1, LateMoves
        <4> QED BY <1>3, <4>2
      <3> QED BY <1>1, <1>2, <1>7, <3>3
    <2> QED BY <1>7, <2>1, NextScheduleMeans
  <1>9. local_position' = local_index'
    BY <1>1, <1>2 DEF LocalIInv, AtFrame, Playing, PositionRead, Index
  <1>10. LocalTypeOK'
    <2>1. {decoded_frames, skipped_frames, completed_loops}' \subseteq 0..(CountWrap - 1)
      BY <1>2, AdvancesTypes DEF VideoDraws, VideoSkips, LocalTypeOK
    <2>2. {local_position, local_index}' \subseteq 0..LocalFrames
      <3>1. local_index' \in 0..LocalFrames
        BY <1>2, AdvancesTypes, LocalVideoConstants, LocalConstantsUsed DEF LocalTypeOK
      <3>2. local_position' \in 0..LocalFrames
        BY <1>2, <1>9, <3>1
      <3> QED BY <3>1, <3>2
    <2>3. {now_us, next_frame_us}' \subseteq 0..(Wrap - 1)
      BY <1>1, <1>2, <1>3, LaterType
    <2> QED BY <1>1, <1>2, <1>7, <2>1, <2>2, <2>3 DEF LocalTypeOK, cardVars
  <1> QED BY <1>1, <1>8, <1>9, <1>10 DEF LocalIInv, AtFrame, UploadInStep, AnswerIsTrue, cardVars

LEMMA TickIdleKeeps ==
    ASSUME LocalIInv, NEW gap \in 1..TurnMax, VideoIdle(gap)
    PROVE  LocalIInv'
  <1> USE DEF VideoIdle, TickVideo, playVars, countVars, cardVars
  <1>1. now_us' \in 0..(Wrap - 1)
    BY LocalConstantsUsed, LaterType DEF LocalIInv, LocalTypeOK
  <1>2. LocalTypeOK'
    BY <1>1 DEF LocalIInv, LocalTypeOK
  <1>3. OnSchedule' /\ AtFrame'
    BY DEF LocalIInv, OnSchedule, AtFrame, Playing
  <1> QED BY <1>2, <1>3 DEF LocalIInv, UploadInStep, AnswerIsTrue

\* It is early by a period at most, and only half a round away from then.
LEMMA TickEarlyKeeps ==
    ASSUME LocalIInv, NEW gap \in 1..TurnMax, VideoEarly(gap)
    PROVE  LocalIInv'
  <1> USE LocalConstantsUsed
  <1>1. Playing /\ ~Due /\ now_us' = Later(now_us, gap) /\ late' = Grown(late, gap)
        /\ UNCHANGED <<mounted, local_pc, local_video, local_paused, local_position,
                       local_index, next_frame_us, countVars, cardVars>>
    BY DEF VideoEarly, TickVideo
  <1>2. /\ -Period <= late /\ late < Period + DecodeMax /\ late = LateAt(now_us, next_frame_us)
        /\ late \in Int /\ now_us \in 0..(Wrap - 1) /\ next_frame_us \in 0..(Wrap - 1)
    BY <1>1, ScheduleMeans DEF LocalIInv, LocalTypeOK
  <1>3. late = Behind - Wrap /\ Behind < Wrap /\ Behind \in Int
    BY <1>1, <1>2, LateIsElapsed DEF Due, Behind, Elapsed
  <1>4. late' = late + gap /\ -Period <= late' /\ late' < Period + DecodeMax
    BY <1>1, <1>2, <1>3 DEF Grown
  <1>5. late' = LateAt(now_us', next_frame_us')
    <2>1. gap \in 0..(Wrap - 1) /\ 0 \in 0..(Wrap - 1) /\ Later(next_frame_us, 0) = next_frame_us
      BY <1>2 DEF Later
    <2> DEFINE lt == LateAt(now_us, next_frame_us)
    <2>2. 2 * (lt + gap - 0) < Wrap /\ -Wrap <= 2 * (lt + gap - 0) /\ lt + gap - 0 = lt + gap
      BY <1>2, <1>4
    <2>3. LateAt(Later(now_us, gap), Later(next_frame_us, 0)) = lt + gap
      <3> HIDE DEF lt
      <3>1. LateAt(Later(now_us, gap), Later(next_frame_us, 0)) = lt + gap - 0
        BY <1>2, <2>1, <2>2, LateMoves DEF lt
      <3> QED BY <2>2, <3>1
    <2> QED BY <1>1, <1>2, <1>4, <2>1, <2>3
  <1>6. OnSchedule'
    BY <1>4, <1>5, NextScheduleMeans
  <1>7. LocalTypeOK'
    <2>1. now_us' \in 0..(Wrap - 1) /\ late' \in (-Period)..Wrap
      <3>1. gap \in 0..(Wrap - 1)
        OBVIOUS
      <3>2. now_us' \in 0..(Wrap - 1)
        BY <1>1, <1>2, <3>1, LaterType
      <3>3. late' \in (-Period)..Wrap
        BY <1>2, <1>4
      <3> QED BY <3>2, <3>3
    <2> QED BY <1>1, <2>1 DEF LocalIInv, LocalTypeOK, countVars, cardVars
  <1> QED BY <1>1, <1>6, <1>7 DEF LocalIInv, AtFrame, UploadInStep, AnswerIsTrue, cardVars

\* What fail() leaves: a closed video, and counters of which nothing is promised.
LEMMA VideoFailsKeeps ==
    ASSUME LocalIInv, NEW gap \in 1..DecodeMax, VideoBreaks(gap)
    PROVE  LocalIInv'
  <1> USE LocalConstantsUsed
  <1>1. local_video' = FALSE /\ now_us' = Later(now_us, gap)
        /\ UNCHANGED <<mounted, local_pc, local_paused, local_position, decoded_frames,
                       skipped_frames, late, cardVars>>
    BY DEF VideoBreaks, TickVideo, Closes
  <1>2. completed_loops' \in 0..(CountWrap - 1) /\ local_index' \in 0..LocalFrames
        /\ next_frame_us' \in 0..(Wrap - 1)
    <2> USE DEF LocalIInv, LocalTypeOK
    <2>1. CASE AtEnd /\ UNCHANGED <<local_index, next_frame_us, completed_loops>>
      BY <2>1
    <2>2. CASE Rewinds /\ local_index' = Index /\ UNCHANGED next_frame_us
      BY <2>2, AdvancesTypes, LocalVideoConstants, LocalConstantsUsed
    <2>3. CASE Advances
      <3>1. next_frame_us' \in 0..(Wrap - 1)
        BY <2>3, LaterType DEF Advances
      <3> QED BY <2>3, <3>1, AdvancesTypes, LocalVideoConstants, LocalConstantsUsed DEF Advances
    <2> QED BY <2>1, <2>2, <2>3 DEF VideoBreaks
  <1>3. now_us' \in 0..(Wrap - 1)
    BY <1>1, LaterType DEF LocalIInv, LocalTypeOK
  <1>4. LocalTypeOK'
    BY <1>1, <1>2, <1>3 DEF LocalIInv, LocalTypeOK, cardVars
  <1> QED BY <1>1, <1>4
       DEF LocalIInv, OnSchedule, Playing, AtFrame, UploadInStep, AnswerIsTrue, cardVars

LEMMA TurnKeeps == LocalIInv /\ Turn => LocalIInv'
  <1>1. ASSUME LocalIInv, NEW gap \in 1..TurnMax, VideoSkips(gap) PROVE LocalIInv'
    <2>1. gap \in 1..DecodeMax /\ gap <= TurnMax
      BY <1>1, LocalConstantsUsed
    <2> QED BY <1>1, <2>1, TakesKeep
  <1>2. ASSUME LocalIInv, NEW gap \in 1..DecodeMax, VideoDraws(gap) PROVE LocalIInv'
    <2>1. VideoDraws(gap) \/ (gap <= TurnMax /\ VideoSkips(gap))
      BY <1>2
    <2> QED BY <1>2, <2>1, TakesKeep
  <1> QED BY <1>1, <1>2, TickIdleKeeps, TickEarlyKeeps, VideoFailsKeeps DEF Turn

\* play_video, at whatever time: a schedule that starts now, or a closed video.
LEMMA PlayVideoKeeps ==
    ASSUME LocalIInv, PlayVideo, now_us' \in 0..(Wrap - 1), mounted' \in BOOLEAN, local_pc' = "loop",
           UNCHANGED <<clip, staging, answer>>, expected' \in Clips \cup {"none"}
    PROVE  LocalIInv'
  <1>1. CASE VideoStarts
    <2>1. OnSchedule'
      <3>1. LateAt(now_us', next_frame_us') = 0 /\ late' = 0
        BY <1>1, LateStarts DEF VideoStarts
      <3> QED BY <3>1, LocalConstantsUsed, NextScheduleMeans
    <2>2. LocalTypeOK'
      <3>1. {local_position, local_index}' \subseteq 0..LocalFrames /\ late' \in (-Period)..Wrap
            /\ {decoded_frames, skipped_frames, completed_loops}' \subseteq 0..(CountWrap - 1)
        BY <1>1, LocalVideoConstants, LocalConstantsUsed DEF VideoStarts
      <3>2. {mounted, local_video, local_paused}' \subseteq BOOLEAN
        BY <1>1 DEF VideoStarts
      <3> QED BY <1>1, <3>1, <3>2 DEF VideoStarts, LocalIInv, LocalTypeOK
    <2> QED BY <1>1, <2>1, <2>2 DEF VideoStarts, LocalIInv, AtFrame, UploadInStep, AnswerIsTrue
  <1>2. CASE VideoUnplayable
    BY <1>2 DEF VideoUnplayable, LocalIInv, LocalTypeOK, OnSchedule, Playing, AtFrame, UploadInStep,
                AnswerIsTrue, countVars
  <1> QED BY <1>1, <1>2 DEF PlayVideo

LEMMA LocalResetKeeps == LocalIInv /\ Reset => LocalIInv'
  <1> SUFFICES ASSUME LocalIInv, Reset PROVE LocalIInv'
    OBVIOUS
  <1>1. now_us' \in 0..(Wrap - 1) /\ mounted' \in BOOLEAN /\ local_pc' = "loop"
        /\ UNCHANGED <<clip, staging, answer>> /\ expected' = "none"
    <2>1. now_us' \in 0..(Wrap - 1)
      BY LocalVideoConstants, LocalConstantsUsed DEF Reset
    <2>2. mounted' \in BOOLEAN
      BY DEF Reset, MayMount
    <2> QED BY <2>1, <2>2 DEF Reset
  <1>2. CASE PlayVideo
    BY <1>1, <1>2, PlayVideoKeeps
  <1>3. CASE local_video' = FALSE /\ local_paused' = FALSE
             /\ UNCHANGED <<local_position, local_index, next_frame_us, countVars, late>>
    BY <1>1, <1>3 DEF LocalIInv, LocalTypeOK, OnSchedule, Playing, AtFrame, UploadInStep, AnswerIsTrue,
                      countVars
  <1> QED BY <1>2, <1>3 DEF Reset

LEMMA CommandKeeps == LocalIInv /\ Command => LocalIInv'
  <1>1. ASSUME LocalIInv, PlayCommand PROVE LocalIInv'
    BY <1>1, PlayVideoKeeps DEF PlayCommand, Commanded, LocalIInv, LocalTypeOK, cardVars
  <1>2. ASSUME LocalIInv, ToggleVideo PROVE LocalIInv'
    <2>1. OnSchedule'
      <3>1. LateAt(now_us', next_frame_us') = 0 /\ late' = 0
        BY <1>2, LateStarts DEF ToggleVideo, LocalIInv, LocalTypeOK
      <3> QED BY <3>1, LocalConstantsUsed, NextScheduleMeans
    <2>2. LocalTypeOK'
      <3>1. late' \in (-Period)..Wrap
        BY <1>2, LocalConstantsUsed DEF ToggleVideo
      <3> QED BY <1>2, <3>1 DEF ToggleVideo, LocalIInv, LocalTypeOK, countVars, cardVars
    <2> QED BY <1>2, <2>1, <2>2
         DEF ToggleVideo, LocalIInv, AtFrame, UploadInStep, AnswerIsTrue, cardVars
  <1>3. ASSUME LocalIInv, NEW content \in Clips, PutRefused(content) PROVE LocalIInv'
    <2>1. answer' \in Clips \cup {"refused"} /\ (answer' \in Clips => clip = answer')
      BY <1>3, LocalVideoConstants DEF PutRefused
    <2> QED BY <1>3, <2>1
         DEF PutRefused, Commanded, Closes, CloseOnly, LocalIInv, LocalTypeOK, OnSchedule, Playing,
             AtFrame, UploadInStep, AnswerIsTrue, countVars
  <1>4. ASSUME LocalIInv, NEW content \in Clips, PutStarts(content) PROVE LocalIInv'
    BY <1>4, LocalVideoConstants
    DEF PutStarts, Commanded, Closes, CloseOnly, LocalIInv, LocalTypeOK, OnSchedule, Playing, AtFrame,
        UploadInStep, AnswerIsTrue, countVars
  <1> QED BY <1>1, <1>2, <1>3, <1>4 DEF Command

LEMMA UploadKeeps == LocalIInv /\ Upload => LocalIInv'
  <1> SUFFICES ASSUME LocalIInv, Upload PROVE LocalIInv'
    OBVIOUS
  <1>1. UNCHANGED <<mounted, now_us, playVars>>
    BY DEF Upload, Uploading, PutReceived, PutInterrupted, PutVerified, PutMismatched, PutSaved,
           PutNotRenamed
  <1>2. OnSchedule' /\ AtFrame'
    BY <1>1 DEF LocalIInv, OnSchedule, Playing, Behind, Elapsed, AtFrame, playVars, countVars
  <1>3. LocalTypeOK' /\ UploadInStep' /\ AnswerIsTrue'
    <2> USE <1>1, LocalVideoConstants
        DEF LocalIInv, LocalTypeOK, UploadInStep, AnswerIsTrue, Uploading, Ends, playVars, countVars
    <2>1. CASE PutReceived
      BY <2>1 DEF PutReceived
    <2>2. CASE PutInterrupted
      BY <2>2 DEF PutInterrupted
    <2>3. CASE PutVerified
      BY <2>3 DEF PutVerified, Verifies, cardVars
    <2>4. CASE PutMismatched
      BY <2>4 DEF PutMismatched
    <2>5. CASE PutSaved
      BY <2>5 DEF PutSaved
    <2>6. CASE PutNotRenamed
      BY <2>6 DEF PutNotRenamed
    <2> QED BY <2>1, <2>2, <2>3, <2>4, <2>5, <2>6 DEF Upload
  <1> QED BY <1>2, <1>3 DEF LocalIInv

LEMMA LocalStepKeeps == LocalIInv /\ [LocalNext]_localVars => LocalIInv'
  <1>1. LocalIInv /\ UNCHANGED localVars => LocalIInv'
    BY DEF LocalIInv, LocalTypeOK, OnSchedule, Playing, Behind, Elapsed, AtFrame, UploadInStep,
           AnswerIsTrue, localVars, playVars, countVars, cardVars
  <1> QED BY <1>1, TurnKeeps, UploadKeeps, CommandKeeps, LocalResetKeeps DEF LocalNext

LEMMA LocalInvariant == LocalSpec => []LocalIInv
  BY LocalInitIInv, LocalStepKeeps, PTL DEF LocalSpec

-----------------------------------------------------------------------------
(* The theorems.                                                            *)

\* The type invariant.
THEOREM LocalTypeCorrect == LocalSpec => []LocalTypeOK
  BY LocalInvariant, PTL DEF LocalIInv

\* Playback is never more than a picture ahead, nor behind by more than one and the
\* longest decoding, and the wrapping counters say exactly how late it is.
THEOREM StaysOnSchedule == LocalSpec => []OnSchedule
  BY LocalInvariant, PTL DEF LocalIInv

\* A sender told that its video is saved, or there already, was told the truth.
THEOREM AnswersAreTrue == LocalSpec => []AnswerIsTrue
  BY LocalInvariant, PTL DEF LocalIInv

\* Each picture is drawn in its own period.
THEOREM PicturesInTime == LocalSpec => DrawnInTime
  <1>1. LocalIInv /\ [LocalNext]_localVars =>
          [decoded_frames' # decoded_frames /\ local_position' # 0 =>
             0 <= late /\ late < Period]_localVars
    <2>1. ASSUME LocalIInv, NEW gap \in 1..DecodeMax, VideoDraws(gap)
          PROVE  0 <= late /\ late < Period
      <3>1. late = Behind /\ Behind < Period /\ now_us \in 0..(Wrap - 1)
            /\ next_frame_us \in 0..(Wrap - 1)
        BY <2>1, LateIsElapsed, ScheduleMeans, LocalConstantsUsed
        DEF VideoDraws, Due, Overdue, Behind, Elapsed, LocalIInv, LocalTypeOK
      <3> QED BY <3>1, LocalConstantsUsed DEF Behind, Elapsed
    <2>2. ASSUME LocalIInv, [LocalNext]_localVars,
                 decoded_frames' # decoded_frames, local_position' # 0
          PROVE  \E gap \in 1..DecodeMax : VideoDraws(gap)
      BY <2>2
      DEF LocalNext, Turn, VideoIdle, VideoEarly, VideoSkips, VideoBreaks, Upload, Uploading,
          PutReceived, PutInterrupted, PutVerified, PutMismatched, PutSaved, PutNotRenamed,
          Command, PlayCommand, PlayVideo, VideoStarts, VideoUnplayable, ToggleVideo,
          PutRefused, PutStarts, CloseOnly, Reset, localVars, playVars, countVars
    <2> QED BY <2>1, <2>2
  <1> QED BY <1>1, LocalInvariant, PTL DEF LocalSpec, DrawnInTime

\* The card's video is never replaced or lost, and only a verified upload becomes it.
THEOREM VideosStay == LocalSpec => VideoPreserved
  <1>1. LocalIInv /\ [LocalNext]_localVars =>
          [clip' # clip => clip = "none" /\ clip' = expected]_localVars
    <2>1. ASSUME LocalIInv, PutSaved PROVE clip = "none" /\ clip' = expected
      BY <2>1 DEF PutSaved, Uploading, LocalIInv, UploadInStep
    <2> QED BY <2>1
        DEF LocalNext, Turn, TickVideo, VideoIdle, VideoEarly, VideoSkips, VideoDraws, VideoBreaks,
            Upload, PutReceived, PutInterrupted, PutVerified, PutMismatched, PutNotRenamed, Command,
            PlayCommand, ToggleVideo, PutRefused, PutStarts, Reset, localVars, cardVars
  <1> QED BY <1>1, LocalInvariant, PTL DEF LocalSpec, VideoPreserved

-----------------------------------------------------------------------------
(***************************************************************************)
(* The LoRa pair counts only true round trips, and misses none that nothing *)
(* disturbed, for every number of boots, disturbances and digits.  An old   *)
(* ping that B still has to answer is told from the one A waits for by its  *)
(* age in pings, which is more than none and less than a round.             *)
(***************************************************************************)

Age == IF packet[3] <= sequence THEN sequence - packet[3]
       ELSE sequence - packet[3] + SequenceWrap

\* Each ping, and each wait, that goes by while B holds up an answer is a disturbance.
HeldUp ==
    b_pc = "delay" /\ packet[1] = session[1] =>
        \/ fresh
        \/ a_pc = "idle" /\ Age < disturbances
        \/ a_pc \in {"wait", "listen"} /\ Age \in 1..disturbances

FreshMeans == fresh => b_pc = "delay" /\ packet = Token /\ a_pc \in {"wait", "listen"}

Blamed == a_pc \in {"wait", "listen"} => excused \/ fresh

Receives ==
    /\ a_pc = "listen" => limit["A"] = Longest
    /\ b_pc = "listen" => limit["B"] = Longest

LoraIInv ==
    /\ LoraTypeOK /\ DOMAIN limit = {"A", "B"}
    /\ packet[1] <= session[1]
    /\ HeldUp /\ FreshMeans /\ Blamed /\ Receives

LEMMA LoraConstantsUsed ==
    /\ SequenceWrap \in Nat \ {0} /\ MaxBoots \in Nat \ {0} /\ MaxDisturbances \in Nat
    /\ SessionDigits \subseteq 1..8 /\ MaxDisturbances < SequenceWrap
  BY LoraTestConstants, AnswersComeInTime

LEMMA NumberedIs ==
    ASSUME NEW n \in 0..(SequenceWrap - 1)
    PROVE  /\ Numbered(n) \in 0..(SequenceWrap - 1)
           /\ Numbered(n) = IF n = SequenceWrap - 1 THEN 0 ELSE n + 1
  <1>1. CASE n = SequenceWrap - 1
    BY <1>1, LoraConstantsUsed DEF Numbered
  <1>2. CASE n # SequenceWrap - 1
    BY <1>2, LoraConstantsUsed DEF Numbered
  <1> QED BY <1>1, <1>2

\* Every token fits the longest length field.
LEMMA TokensFit ==
    ASSUME NEW boot \in 0..MaxBoots, NEW digits \in SessionDigits \cup {1},
           NEW n \in 0..(SequenceWrap - 1)
    PROVE  Length(<<boot, digits, n>>) \in 1..Longest
  BY LoraConstantsUsed DEF Length, Digits, Longest

\* What the type invariant says of the numbers.
LEMMA LoraTypesMean ==
    ASSUME LoraIInv
    PROVE  /\ session[1] \in 1..MaxBoots /\ session[2] \in SessionDigits
           /\ session = <<session[1], session[2]>>
           /\ packet[1] \in 0..MaxBoots /\ packet[2] \in SessionDigits \cup {1}
           /\ packet[3] \in 0..(SequenceWrap - 1)
           /\ packet = <<packet[1], packet[2], packet[3]>>
           /\ sequence \in 0..(SequenceWrap - 1) /\ disturbances \in 0..MaxDisturbances
           /\ Age \in 0..(SequenceWrap - 1)
  <1>1. /\ session[1] \in 1..MaxBoots /\ session[2] \in SessionDigits
        /\ session = <<session[1], session[2]>>
        /\ packet[1] \in 0..MaxBoots /\ packet[2] \in SessionDigits \cup {1}
        /\ packet[3] \in 0..(SequenceWrap - 1)
        /\ packet = <<packet[1], packet[2], packet[3]>>
        /\ sequence \in 0..(SequenceWrap - 1) /\ disturbances \in 0..MaxDisturbances
    BY DEF LoraIInv, LoraTypeOK
  <1> QED BY <1>1, LoraConstantsUsed DEF Age

\* The next ping makes an old one older, and does not come round to it.
LEMMA AgeGrows ==
    ASSUME LoraIInv, sequence' = Numbered(sequence), packet' = packet,
           Age + 1 < SequenceWrap
    PROVE  Age' = Age + 1
  <1>1. sequence' = IF sequence = SequenceWrap - 1 THEN 0 ELSE sequence + 1
    BY NumberedIs, LoraTypesMean
  <1> QED BY <1>1, LoraTypesMean, LoraConstantsUsed DEF Age

LEMMA LoraInitIInv == LoraInit => LoraIInv
  <1> SUFFICES ASSUME LoraInit PROVE LoraIInv
    OBVIOUS
  <1>1. packet = <<0, 1, 0>> /\ session \in {1} \X SessionDigits /\ 0 \in 0..(SequenceWrap - 1)
        /\ limit = [board \in {"A", "B"} |-> Longest] /\ 0 \in 0..MaxDisturbances
    BY LoraConstantsUsed DEF LoraInit, Foreign
  <1>2. session[1] = 1 /\ session \in (1..MaxBoots) \X SessionDigits
        /\ packet \in (0..MaxBoots) \X (SessionDigits \cup {1}) \X (0..(SequenceWrap - 1))
    BY <1>1, LoraConstantsUsed
  <1>3. LoraTypeOK
    <2>1. {sequence, sent, replies, timeouts, txErrors} \subseteq 0..(SequenceWrap - 1)
          /\ {fresh, excused} \subseteq BOOLEAN
      BY <1>1 DEF LoraInit
    <2>2. \A board \in {"A", "B"} : limit[board] \in 1..Longest
      BY <1>1 DEF Longest
    <2> QED BY <1>1, <1>2, <2>1, <2>2 DEF LoraInit, LoraTypeOK
  <1> QED BY <1>1, <1>2, <1>3
       DEF LoraInit, LoraIInv, HeldUp, FreshMeans, Blamed, Receives

LEMMA BootsKeep == LoraIInv /\ (BootA \/ BootB) => LoraIInv'
  <1>1. ASSUME LoraIInv, BootA PROVE LoraIInv'
    <2>1. session' \in (1..MaxBoots) \X SessionDigits /\ session'[1] = session[1] + 1
      BY <1>1, LoraTypesMean, LoraConstantsUsed DEF BootA
    <2>2. 0 \in 0..(SequenceWrap - 1)
      BY LoraConstantsUsed
    <2>3. packet' = packet /\ packet'[1] < session'[1]
      BY <1>1, <2>1, LoraTypesMean DEF BootA, varsB, LoraIInv
    <2>4. LoraTypeOK'
      <3>1. {sequence, sent, replies, timeouts, txErrors}' \subseteq 0..(SequenceWrap - 1)
            /\ {fresh, excused}' \subseteq BOOLEAN
        BY <1>1, <2>2 DEF BootA
      <3>2. \A board \in {"A", "B"} : limit'[board] \in 1..Longest
        BY <1>1 DEF LoraIInv, LoraTypeOK, BootA, Longest
      <3> QED BY <1>1, <2>1, <3>1, <3>2 DEF LoraIInv, LoraTypeOK, BootA, varsB
    <2> QED BY <1>1, <2>1, <2>3, <2>4, LoraTypesMean
         DEF LoraIInv, BootA, varsB, HeldUp, FreshMeans, Blamed, Receives
  <1>2. ASSUME LoraIInv, BootB PROVE LoraIInv'
    <2>1. packet' = <<0, 1, 0>> /\ 0 \in 0..(SequenceWrap - 1)
      BY <1>2, LoraConstantsUsed DEF BootB, Foreign
    <2>2. LoraTypeOK'
      <3>1. packet' \in (0..MaxBoots) \X (SessionDigits \cup {1}) \X (0..(SequenceWrap - 1))
        BY <2>1, LoraConstantsUsed
      <3>2. \A board \in {"A", "B"} : limit'[board] \in 1..Longest
        BY <1>2 DEF LoraIInv, LoraTypeOK, BootB, Longest
      <3>3. disturbances' \in 0..MaxDisturbances
        BY <1>2, LoraTypesMean, LoraConstantsUsed DEF BootB, Disturbs
      <3>4. {fresh, excused}' \subseteq BOOLEAN
        BY <1>2 DEF BootB
      <3> QED BY <1>2, <3>1, <3>2, <3>3, <3>4 DEF LoraIInv, LoraTypeOK, BootB, numbers
    <2> QED BY <1>2, <2>1, <2>2, LoraTypesMean
         DEF LoraIInv, BootB, numbers, HeldUp, FreshMeans, Blamed, Receives
  <1> QED BY <1>1, <1>2

\* The parts of a ping's transmission that do not depend on what B makes of it.
LEMMA PingTypes ==
    ASSUME LoraIInv, PingSent
    PROVE  /\ Token' = <<session[1], session[2], Numbered(sequence)>>
           /\ Length(Token') \in 1..Longest
           /\ {sequence, sent, replies, timeouts, txErrors}' \subseteq 0..(SequenceWrap - 1)
           /\ limit' = [limit EXCEPT !["A"] = Length(Token')]
           /\ session' = session /\ a_pc = "idle" /\ a_pc' = "wait"
  <1>1. Token' = <<session[1], session[2], Numbered(sequence)>>
    BY DEF PingSent, Token
  <1>2. Length(<<session[1], session[2], Numbered(sequence)>>) \in 1..Longest
    BY LoraTypesMean, NumberedIs, TokensFit
  <1>3. {sequence, sent, replies, timeouts, txErrors}' \subseteq 0..(SequenceWrap - 1)
    BY NumberedIs DEF PingSent, LoraIInv, LoraTypeOK
  <1> QED BY <1>1, <1>2, <1>3 DEF PingSent

\* An old ping that B still holds is one ping older.
LEMMA PingHoldsUp ==
    ASSUME LoraIInv, PingSent, UNCHANGED <<b_pc, packet, disturbances>>, ~fresh'
    PROVE  HeldUp'
  <1> SUFFICES ASSUME b_pc = "delay", packet[1] = session[1] PROVE Age' \in 1..disturbances
    BY PingTypes DEF HeldUp
  <1>1. a_pc = "idle" /\ sequence' = Numbered(sequence)
    BY DEF PingSent
  <1>2. Age < disturbances
    BY <1>1 DEF LoraIInv, HeldUp, FreshMeans
  <1>3. Age + 1 < SequenceWrap
    BY <1>2, LoraTypesMean, LoraConstantsUsed
  <1> QED BY <1>1, <1>2, <1>3, AgeGrows, LoraTypesMean

LEMMA PingsKeep == LoraIInv /\ (PingHeard \/ PingMissed \/ PingSpoiled) => LoraIInv'
  <1>1. ASSUME LoraIInv, PingHeard PROVE LoraIInv'
    <2>1. PingSent /\ packet' = Token' /\ b_pc' = "delay" /\ fresh' = TRUE /\ excused' = FALSE
          /\ disturbances' = disturbances
      BY <1>1 DEF PingHeard
    <2>2. packet' = <<session[1], session[2], Numbered(sequence)>>
      BY <1>1, <2>1, PingTypes
    <2>3. packet' \in (0..MaxBoots) \X (SessionDigits \cup {1}) \X (0..(SequenceWrap - 1))
          /\ packet'[1] = session[1]
      BY <1>1, <2>2, LoraTypesMean, NumberedIs, LoraConstantsUsed
    <2>4. LoraTypeOK'
      BY <1>1, <2>1, <2>3, PingTypes DEF LoraIInv, LoraTypeOK
    <2> QED BY <1>1, <2>1, <2>3, <2>4, PingTypes, LoraTypesMean
         DEF LoraIInv, HeldUp, FreshMeans, Blamed, Receives
  <1>2. ASSUME LoraIInv, PingMissed PROVE LoraIInv'
    <2>1. PingSent /\ UNCHANGED <<b_pc, packet, disturbances>> /\ fresh' = FALSE
          /\ excused' = TRUE /\ b_pc # "listen"
      BY <1>2 DEF PingMissed, varsB
    <2>2. HeldUp'
      BY <1>2, <2>1, PingHoldsUp
    <2>3. LoraTypeOK'
      BY <1>2, <2>1, PingTypes DEF LoraIInv, LoraTypeOK
    <2> QED BY <1>2, <2>1, <2>2, <2>3, PingTypes, LoraTypesMean
         DEF LoraIInv, FreshMeans, Blamed, Receives
  <1>3. ASSUME LoraIInv, PingSpoiled PROVE LoraIInv'
    <2>1. PingSent /\ b_pc = "listen" /\ b_pc' \in {"listen", "idle"} /\ packet' = packet
          /\ fresh' = FALSE /\ excused' = (Length(Token') <= limit["B"])
      BY <1>3 DEF PingSpoiled
    <2>2. excused' = TRUE
      <3>1. limit["B"] = Longest /\ Length(Token') \in 1..Longest
        BY <1>3, <2>1, PingTypes DEF LoraIInv, Receives
      <3>2. Length(Token') <= limit["B"]
        BY <3>1
      <3> QED BY <2>1, <3>2
    <2>3. disturbances' \in 0..MaxDisturbances
      BY <1>3, LoraTypesMean, LoraConstantsUsed DEF PingSpoiled, Disturbs
    <2>4. LoraTypeOK'
      BY <1>3, <2>1, <2>2, <2>3, PingTypes DEF LoraIInv, LoraTypeOK
    <2> QED BY <1>3, <2>1, <2>2, <2>4, PingTypes, LoraTypesMean
         DEF LoraIInv, HeldUp, FreshMeans, Blamed, Receives
  <1> QED BY <1>1, <1>2, <1>3

LEMMA PingFailsKeeps == LoraIInv /\ PingFails => LoraIInv'
  <1> SUFFICES ASSUME LoraIInv, PingFails PROVE LoraIInv'
    OBVIOUS
  <1>1. /\ a_pc = "idle" /\ disturbances < MaxDisturbances /\ disturbances' = disturbances + 1
        /\ sequence' = Numbered(sequence) /\ txErrors' = Numbered(txErrors)
        /\ UNCHANGED <<a_pc, session, sent, replies, timeouts, b_pc, packet, limit, fresh, excused>>
    BY DEF PingFails, Disturbs, varsB
  <1>2. HeldUp'
    <2> SUFFICES ASSUME b_pc = "delay", packet[1] = session[1] PROVE Age' < disturbances'
      BY <1>1 DEF HeldUp
    <2>1. Age < disturbances
      BY <1>1 DEF LoraIInv, HeldUp, FreshMeans
    <2>2. Age + 1 < SequenceWrap
      BY <2>1, LoraTypesMean, LoraConstantsUsed
    <2> QED BY <1>1, <2>1, <2>2, AgeGrows, LoraTypesMean
  <1>3. LoraTypeOK'
    <2>1. {sequence, sent, replies, timeouts, txErrors}' \subseteq 0..(SequenceWrap - 1)
      BY <1>1, NumberedIs DEF LoraIInv, LoraTypeOK
    <2>2. disturbances' \in 0..MaxDisturbances
      BY <1>1, LoraTypesMean, LoraConstantsUsed
    <2> QED BY <1>1, <2>1, <2>2 DEF LoraIInv, LoraTypeOK
  <1> QED BY <1>1, <1>2, <1>3 DEF LoraIInv, FreshMeans, Blamed, Receives

\* What changes neither an answer that B holds up nor its age.
LEMMA ListensKeep == LoraIInv /\ (ListenA \/ ListenB \/ SilenceB) => LoraIInv'
  <1>1. ASSUME LoraIInv, ListenA PROVE LoraIInv'
    <2>1. LoraTypeOK' /\ DOMAIN limit' = {"A", "B"} /\ limit'["A"] = Longest
          /\ limit'["B"] = limit["B"]
      BY <1>1 DEF LoraIInv, LoraTypeOK, ListenA, Opened, numbers, varsB, Longest
    <2>2. HeldUp'
      BY <1>1 DEF ListenA, LoraIInv, HeldUp, Age, numbers, varsB
    <2> QED BY <1>1, <2>1, <2>2
         DEF LoraIInv, FreshMeans, Token, Blamed, Receives, ListenA, numbers, varsB
  <1>2. ASSUME LoraIInv, ListenB PROVE LoraIInv'
    <2>1. LoraTypeOK' /\ DOMAIN limit' = {"A", "B"} /\ limit'["B"] = Longest
          /\ limit'["A"] = limit["A"]
      BY <1>2 DEF LoraIInv, LoraTypeOK, ListenB, Opened, numbers, Longest
    <2> QED BY <1>2, <2>1
         DEF LoraIInv, HeldUp, FreshMeans, Blamed, Receives, ListenB, numbers
  <1>3. ASSUME LoraIInv, SilenceB PROVE LoraIInv'
    BY <1>3 DEF LoraIInv, LoraTypeOK, HeldUp, FreshMeans, Blamed, Receives, SilenceB, numbers
  <1> QED BY <1>1, <1>2, <1>3

LEMMA OthersHeardKeep == LoraIInv /\ (OtherHeardA \/ OtherHeardB) => LoraIInv'
  <1>1. ASSUME LoraIInv, OtherHeardA PROVE LoraIInv'
    <2>1. disturbances' = disturbances + 1 /\ disturbances' \in 0..MaxDisturbances
      BY <1>1, LoraTypesMean, LoraConstantsUsed DEF OtherHeardA, Disturbs
    <2>2. HeldUp'
      BY <1>1, <2>1, LoraTypesMean
      DEF OtherHeardA, LoraIInv, HeldUp, Age, numbers, varsB
    <2> QED BY <1>1, <2>1, <2>2
         DEF LoraIInv, LoraTypeOK, FreshMeans, Token, Blamed, Receives, OtherHeardA, numbers,
             varsB
  <1>2. ASSUME LoraIInv, OtherHeardB PROVE LoraIInv'
    <2>1. disturbances' \in 0..MaxDisturbances
      BY <1>2, LoraTypesMean, LoraConstantsUsed DEF OtherHeardB, Disturbs
    <2>2. Foreign \in (0..MaxBoots) \X (SessionDigits \cup {1}) \X (0..(SequenceWrap - 1))
          /\ Foreign[1] = 0
      BY LoraConstantsUsed DEF Foreign
    <2>3. packet' \in (0..MaxBoots) \X (SessionDigits \cup {1}) \X (0..(SequenceWrap - 1))
          /\ (b_pc' = "delay" => packet'[1] = 0) /\ packet'[1] <= session[1]
      BY <1>2, <2>2, LoraTypesMean DEF OtherHeardB, LoraIInv, LoraTypeOK
    <2>4. LoraTypeOK'
      BY <1>2, <2>1, <2>3 DEF OtherHeardB, LoraIInv, LoraTypeOK, numbers
    <2> QED BY <1>2, <2>3, <2>4, LoraTypesMean
         DEF LoraIInv, HeldUp, FreshMeans, Blamed, Receives, OtherHeardB, numbers
  <1> QED BY <1>1, <1>2

LEMMA TimeOutKeeps == LoraIInv /\ TimeOutA => LoraIInv'
  <1> SUFFICES ASSUME LoraIInv, TimeOutA PROVE LoraIInv'
    OBVIOUS
  <1>1. /\ a_pc \in {"wait", "listen"} /\ a_pc' = "idle" /\ fresh' = FALSE
        /\ timeouts' = Numbered(timeouts)
        /\ UNCHANGED <<session, sequence, sent, replies, txErrors, b_pc, packet, limit>>
    BY DEF TimeOutA, varsB
  <1>2. /\ disturbances' \in 0..MaxDisturbances /\ excused' \in BOOLEAN
        /\ b_pc = "delay" => disturbances' = disturbances + 1
    <2>1. CASE b_pc = "delay"
      BY <2>1, LoraTypesMean, LoraConstantsUsed DEF TimeOutA, Disturbs
    <2>2. CASE b_pc # "delay"
      <3>1. disturbances' = disturbances /\ excused' = excused
        BY <2>2 DEF TimeOutA
      <3>2. excused \in BOOLEAN
        BY DEF LoraIInv, LoraTypeOK
      <3> QED BY <2>2, <3>1, <3>2, LoraTypesMean
    <2> QED BY <2>1, <2>2
  <1>3. HeldUp'
    <2> SUFFICES ASSUME b_pc = "delay", packet[1] = session[1] PROVE Age' < disturbances'
      BY <1>1 DEF HeldUp
    <2>1. Age' = Age
      BY <1>1 DEF Age
    <2>2. CASE fresh
      <3>1. packet[3] = sequence
        BY <2>2 DEF LoraIInv, FreshMeans, Token
      <3> QED BY <1>2, <2>1, <3>1, LoraTypesMean DEF Age
    <2>3. CASE ~fresh
      BY <1>1, <1>2, <2>1, <2>3, LoraTypesMean DEF LoraIInv, HeldUp
    <2> QED BY <2>2, <2>3
  <1>4. LoraTypeOK'
    <2>1. {sequence, sent, replies, timeouts, txErrors}' \subseteq 0..(SequenceWrap - 1)
      BY <1>1, NumberedIs DEF LoraIInv, LoraTypeOK
    <2> QED BY <1>1, <1>2, <2>1 DEF LoraIInv, LoraTypeOK
  <1> QED BY <1>1, <1>3, <1>4 DEF LoraIInv, FreshMeans, Blamed, Receives

\* Every answer, heard or not, leaves B with nothing to hold up; A goes on waiting only
\* if the answer was an old one, or was disturbed.
LEMMA PongsKeep == LoraIInv /\ (Pong \/ PongFails) => LoraIInv'
  <1>1. ASSUME LoraIInv, Pong PROVE LoraIInv'
    <2>1. /\ b_pc' = "idle" /\ packet' = packet /\ fresh' = FALSE
          /\ limit' = [limit EXCEPT !["B"] = Length(packet)] /\ a_pc # "wait"
          /\ UNCHANGED <<session, sequence, sent, timeouts, txErrors>>
      BY <1>1 DEF Pong, PongHeard, PongMissed, PongSpoiled, PongSent
    <2>2. Length(packet) \in 1..Longest
      BY <1>1, LoraTypesMean, TokensFit
    <2>3. replies' \in {replies, Numbered(replies)} /\ a_pc' \in {a_pc, "idle", "wait", "listen"}
          /\ (a_pc' = "listen" => a_pc = "listen")
      BY <1>1 DEF Pong, PongHeard, PongMissed, PongSpoiled
    <2>4. disturbances' \in 0..MaxDisturbances /\ excused' \in BOOLEAN
      <3>1. \/ disturbances' = disturbances /\ excused' = excused
            \/ Disturbs /\ excused' = TRUE
        BY <1>1 DEF Pong, PongHeard, PongMissed, PongSpoiled
      <3>2. excused' \in BOOLEAN
        BY <1>1, <3>1 DEF LoraIInv, LoraTypeOK
      <3>3. disturbances' \in 0..MaxDisturbances
        BY <1>1, <3>1, LoraTypesMean, LoraConstantsUsed DEF Disturbs
      <3> QED BY <3>2, <3>3
    <2>5. a_pc' \in {"wait", "listen"} => excused'
      <3>1. CASE PongHeard
        BY <1>1, <3>1 DEF PongHeard, Matches, LoraIInv, FreshMeans, Blamed
      <3>2. CASE PongMissed
        BY <2>1, <3>2 DEF PongMissed
      <3>3. CASE PongSpoiled
        <4>1. limit["A"] = Longest
          BY <1>1, <3>3 DEF PongSpoiled, LoraIInv, Receives
        <4>2. Length(packet) <= limit["A"]
          BY <2>2, <4>1
        <4> QED BY <3>3, <4>2 DEF PongSpoiled
      <3> QED BY <1>1, <3>1, <3>2, <3>3 DEF Pong
    <2>6. LoraTypeOK'
      <3>1. {sequence, sent, replies, timeouts, txErrors}' \subseteq 0..(SequenceWrap - 1)
        BY <1>1, <2>1, <2>3, NumberedIs DEF LoraIInv, LoraTypeOK
      <3>2. \A board \in {"A", "B"} : limit'[board] \in 1..Longest
        BY <1>1, <2>1, <2>2 DEF LoraIInv, LoraTypeOK
      <3> QED BY <1>1, <2>1, <2>3, <2>4, <3>1, <3>2 DEF LoraIInv, LoraTypeOK
    <2>7. Receives' /\ DOMAIN limit' = {"A", "B"}
      BY <1>1, <2>1, <2>3 DEF LoraIInv, Receives
    <2> QED BY <1>1, <2>1, <2>5, <2>6, <2>7 DEF LoraIInv, HeldUp, FreshMeans, Blamed
  <1>2. ASSUME LoraIInv, PongFails PROVE LoraIInv'
    <2>1. disturbances' \in 0..MaxDisturbances
      BY <1>2, LoraTypesMean, LoraConstantsUsed DEF PongFails, Disturbs
    <2> QED BY <1>2, <2>1
         DEF PongFails, LoraIInv, LoraTypeOK, HeldUp, FreshMeans, Blamed, Receives, numbers
  <1> QED BY <1>1, <1>2

LEMMA LoraStepKeeps == LoraIInv /\ [LoraNext]_loraVars => LoraIInv'
  <1>1. LoraIInv /\ UNCHANGED loraVars => LoraIInv'
    BY DEF LoraIInv, LoraTypeOK, HeldUp, Age, FreshMeans, Token, Blamed, Receives, loraVars,
           numbers, varsB
  <1> QED BY <1>1, BootsKeep, PingsKeep, PingFailsKeeps, ListensKeep, OthersHeardKeep,
            TimeOutKeeps, PongsKeep DEF LoraNext

LEMMA LoraInvariant == LoraInit /\ [][LoraNext]_loraVars => []LoraIInv
  BY LoraInitIInv, LoraStepKeeps, PTL

\* The type invariant.
THEOREM LoraTypeCorrect == LoraSpec => []LoraTypeOK
  BY LoraInvariant, PTL DEF LoraSpec, LoraIInv

\* Which step counts a reply or a time-out, if it is not a boot.
LEMMA CountersMove ==
    ASSUME LoraIInv, [LoraNext]_loraVars, session' = session
    PROVE  /\ replies' # replies => PongHeard /\ Matches
           /\ timeouts' # timeouts => TimeOutA
  <1>1. CASE BootA
    <2>1. session'[1] # session[1]
      BY <1>1, LoraTypesMean DEF BootA
    <2> QED BY <2>1
  <1> QED BY <1>1
       DEF LoraNext, PingHeard, PingMissed, PingSpoiled, PingSent, PingFails, ListenA, ListenB,
           SilenceB, OtherHeardA, OtherHeardB, Pong, PongHeard, PongMissed, PongSpoiled, PongSent,
           PongFails, BootB, TimeOutA, loraVars, numbers

\* A round trip that is counted is one: no pong of an earlier boot, or of a ping before,
\* passes for the answer.
THEOREM RoundTripsStayTrue == LoraSpec => RoundTripsAreTrue
  <1>1. LoraIInv /\ [LoraNext]_loraVars =>
          [replies' # replies /\ session' = session => fresh]_loraVars
    <2> SUFFICES ASSUME LoraIInv, [LoraNext]_loraVars, replies' # replies, session' = session
                 PROVE  fresh
      OBVIOUS
    <2>1. b_pc = "delay" /\ a_pc = "listen" /\ packet = Token
      BY CountersMove DEF PongHeard, PongSent, Matches
    <2>2. packet[1] = session[1] /\ Age = 0
      BY <2>1, LoraTypesMean DEF Token, Age
    <2> QED BY <2>1, <2>2 DEF LoraIInv, HeldUp
  <1> QED BY <1>1, LoraInvariant, PTL DEF LoraSpec, RoundTripsAreTrue

\* A ping that B heard and nothing disturbed never times out.
THEOREM TimeoutsStayExcused == LoraSpec => TimeoutsAreExcused
  <1>1. LoraIInv /\ [LoraNext]_loraVars =>
          [timeouts' # timeouts /\ session' = session => excused']_loraVars
    <2> SUFFICES ASSUME LoraIInv, [LoraNext]_loraVars, timeouts' # timeouts, session' = session
                 PROVE  excused'
      OBVIOUS
    <2>1. TimeOutA
      BY CountersMove
    <2>2. b_pc # "delay" => excused
      BY <2>1 DEF TimeOutA, LoraIInv, Blamed, FreshMeans
    <2> QED BY <2>1, <2>2 DEF TimeOutA
  <1> QED BY <1>1, LoraInvariant, PTL DEF LoraSpec, TimeoutsAreExcused

-----------------------------------------------------------------------------
(***************************************************************************)
(* A function that is defined from one number to the next exists, and there *)
(* is but one.  A set of numbers is all of them if it holds 0 and, with a   *)
(* number, the next.                                                        *)
(***************************************************************************)

LEMMA Induct ==
    ASSUME NEW N \in Nat, NEW S, 0 \in S, \A n \in S : n + 1 \in 0..N => n + 1 \in S
    PROVE  0..N \subseteq S
  <1> DEFINE T == (0..N) \ S
             R == {ss \in Nat \X Nat : ss[1] < ss[2]}
  <1> SUFFICES ASSUME T # {} PROVE FALSE
    OBVIOUS
  <1>1. IsWellFoundedOn(R, Nat)
    BY NatLessThanWellFounded DEF OpToRel
  <1>2. T \in SUBSET Nat
    OBVIOUS
  <1>3. \E i \in T : \A j \in T : ~ (<<j, i>> \in R)
    <2> HIDE DEF R, T
    <2> QED BY <1>1, <1>2, WFMin
  <1>4. PICK i \in T : \A j \in T : ~ (<<j, i>> \in R)
    BY <1>3
  <1>5. i - 1 \in Nat /\ i - 1 \in 0..N /\ i \in 0..N /\ i \notin S /\ (i - 1) + 1 = i
    OBVIOUS
  <1>6. i - 1 \in S
    <2>1. <<i - 1, i>> \in R
      BY <1>5
    <2>2. i - 1 \notin T
      <3> HIDE DEF R, T
      <3> QED BY <1>4, <2>1
    <2> QED BY <1>5, <2>2
  <1>7. (i - 1) + 1 \in S
    BY <1>5, <1>6
  <1> QED BY <1>5, <1>7

\* f is what step makes of first, again and again.
Iterates(f, N, first, step) ==
    f = [n \in 0..N |-> IF n = 0 THEN first ELSE step[n][f[n - 1]]]

LEMMA IterationExists ==
    ASSUME NEW N \in Nat, NEW X, NEW first \in X, NEW step \in [1..N -> [X -> X]]
    PROVE  \E f \in [0..N -> X] : Iterates(f, N, first, step)
  <1> DEFINE S == {m \in 0..N : \E f \in [0..m -> X] : Iterates(f, m, first, step)}
  <1>1. 0 \in S
    <2> DEFINE f == [n \in 0..0 |-> first]
    <2>1. f \in [0..0 -> X] /\ Iterates(f, 0, first, step)
      BY DEF Iterates
    <2> QED BY <2>1
  <1>2. ASSUME NEW m \in S, m + 1 \in 0..N PROVE m + 1 \in S
    <2>1. m \in 0..N
      OBVIOUS
    <2>2. PICK f \in [0..m -> X] : Iterates(f, m, first, step)
      OBVIOUS
    <2> DEFINE g == [n \in 0..(m + 1) |-> IF n = m + 1 THEN step[m + 1][f[m]] ELSE f[n]]
    <2>3. g \in [0..(m + 1) -> X]
      <3>1. m + 1 \in 1..N /\ f[m] \in X
        BY <1>2, <2>1, <2>2
      <3>2. step[m + 1][f[m]] \in X
        BY <3>1
      <3>3. \A n \in 0..(m + 1) : n = m + 1 \/ n \in 0..m
        BY <2>1
      <3> QED BY <2>2, <3>2, <3>3
    <2>4. Iterates(g, m + 1, first, step)
      <3>1. \A n \in 0..m : f[n] = IF n = 0 THEN first ELSE step[n][f[n - 1]]
        BY <2>2 DEF Iterates
      <3>2. ASSUME NEW n \in 0..(m + 1)
            PROVE  g[n] = IF n = 0 THEN first ELSE step[n][g[n - 1]]
        <4>1. CASE n = m + 1
          <5>1. g[n - 1] = f[m] /\ n # 0
            BY <2>1, <4>1
          <5> QED BY <4>1, <5>1
        <4>2. CASE n # m + 1
          <5>1. n \in 0..m /\ g[n] = f[n]
            BY <2>1, <4>2
          <5>2. n # 0 => g[n - 1] = f[n - 1]
            BY <2>1, <4>2
          <5> QED BY <3>1, <5>1, <5>2
        <4> QED BY <4>1, <4>2
      <3> QED BY <3>2 DEF Iterates
    <2> HIDE DEF g
    <2> QED BY <1>2, <2>3, <2>4
  <1> HIDE DEF S
  <1>3. 0..N \subseteq S
    BY <1>1, <1>2, Induct
  <1> QED BY <1>3 DEF S

LEMMA IterationUnique ==
    ASSUME NEW N \in Nat, NEW first, NEW step, NEW f, NEW g,
           Iterates(f, N, first, step), Iterates(g, N, first, step)
    PROVE  f = g
  <1> DEFINE S == {n \in 0..N : f[n] = g[n]}
  <1>1. /\ f = [n \in 0..N |-> IF n = 0 THEN first ELSE step[n][f[n - 1]]]
        /\ g = [n \in 0..N |-> IF n = 0 THEN first ELSE step[n][g[n - 1]]]
    BY DEF Iterates
  <1>2. 0 \in S
    <2>1. 0 \in 0..N
      OBVIOUS
    <2>2. f[0] = first /\ g[0] = first
      BY <1>1, <2>1
    <2> QED BY <2>1, <2>2
  <1>3. ASSUME NEW n \in S, n + 1 \in 0..N PROVE n + 1 \in S
    <2>1. n \in Nat /\ f[n] = g[n] /\ n + 1 # 0 /\ (n + 1) - 1 = n
      OBVIOUS
    <2>2. f[n + 1] = step[n + 1][f[(n + 1) - 1]]
      BY <1>1, <1>3, <2>1
    <2>3. g[n + 1] = step[n + 1][g[(n + 1) - 1]]
      BY <1>1, <1>3, <2>1
    <2> QED BY <1>3, <2>1, <2>2, <2>3
  <1>4. 0..N \subseteq S
    <2> HIDE DEF S
    <2> QED BY <1>2, <1>3, Induct
  <1> QED BY <1>1, <1>4

-----------------------------------------------------------------------------
(* The coder: one sample at a time.                                         *)

\* An element of a sequence.
LEMMA Element == ASSUME NEW S, NEW s \in Seq(S), NEW n \in DOMAIN s PROVE s[n] \in S
  OBVIOUS

\* Samples are the integers between the two bounds.
LEMMA SampleInt ==
  /\ INT16_MIN \in Int /\ INT16_MAX \in Int /\ INT16_MIN <= INT16_MAX
  /\ \A x : x \in SampleRange <=> x \in Int /\ INT16_MIN <= x /\ x <= INT16_MAX
<1>1. INT16_MIN \in Int /\ INT16_MAX \in Int /\ INT16_MIN <= INT16_MAX
  BY DEF INT16_MIN, INT16_MAX
<1> QED BY <1>1 DEF SampleRange

\* The tables hold numbers, and an index of a state is one of the step table's.
LEMMA StepRange == ASSUME NEW st, StateOK(st) PROVE Step(st) \in Nat
<1>1. adpcmSteps \in Seq(Nat)
  BY SMTT(40) DEF adpcmSteps
<1>2. DOMAIN adpcmSteps = 1..89
  BY SMTT(40) DEF adpcmSteps
<1>3. st.index + 1 \in DOMAIN adpcmSteps
  BY <1>2 DEF StateOK
<1> QED BY <1>1, <1>3, Element DEF Step

LEMMA DeltaRange == \A n \in 0..7 : adpcmIndexDelta[1 + n] \in -1..8
  BY SMT DEF adpcmIndexDelta

\* A bit is 0 or 1, and the code is the sum of its bits.
LEMMA BitRange ==
  ASSUME NEW code \in Nat, NEW weight \in Nat \ {0} PROVE Bit(code, weight) \in {0, 1}
  BY DEF Bit

\* The difference that a code stands for.
Difference(code, step) == step \div 8 + Bit(code, 4) * step + Bit(code, 2) * (step \div 2)
                    + Bit(code, 1) * (step \div 4)

LEMMA DifferenceNat ==
  ASSUME NEW code \in Nat, NEW step \in Nat PROVE Difference(code, step) \in Nat
<1>1. {Bit(code, 4), Bit(code, 2), Bit(code, 1)} \subseteq {0, 1}
  BY BitRange
<1>2. \A b \in {0, 1}, x \in Nat : b * x \in Nat
  OBVIOUS
<1>3. {step \div 8, step \div 4, step \div 2} \subseteq Nat
  OBVIOUS
<1>4. {Bit(code, 4) * step, Bit(code, 2) * (step \div 2), Bit(code, 1) * (step \div 4)} \subseteq Nat
  BY <1>1, <1>2, <1>3
<1> QED BY <1>3, <1>4 DEF Difference

LEMMA CodeBits ==
  ASSUME NEW eight \in {0, 8}, NEW four \in {0, 4}, NEW two \in {0, 2}, NEW one \in {0, 1}
  PROVE  LET code == eight + four + two + one
         IN  /\ code \in 0..15
             /\ 8 * Bit(code, 8) = eight /\ 4 * Bit(code, 4) = four
             /\ 2 * Bit(code, 2) = two /\ Bit(code, 1) = one
<1>1. eight = 0 \/ eight = 8
  OBVIOUS
<1>2. four = 0 \/ four = 4
  OBVIOUS
<1>3. two = 0 \/ two = 2
  OBVIOUS
<1>4. one = 0 \/ one = 1
  OBVIOUS
<1> QED BY <1>1, <1>2, <1>3, <1>4 DEF Bit

\* What the difference of the chosen code leaves of the way.
LEMMA NearEnough ==
  ASSUME NEW s \in Nat, NEW far \in Nat, far < 2 * s - s \div 8
  PROVE  LET four == IF far >= s THEN s ELSE 0
             rest == far - four
             two == IF rest >= s \div 2 THEN s \div 2 ELSE 0
             last == rest - two
             one == IF last >= (s \div 2) \div 2 THEN s \div 4 ELSE 0
             difference == s \div 8 + four + two + one
         IN  difference - far <= s \div 8 /\ far - difference <= s \div 8 + 2
<1> DEFINE e == s \div 8
            f == s \div 4
            h == s \div 2
<1>1. e \in Nat /\ f \in Nat /\ h \in Nat
  OBVIOUS
<1>2. 8 * e <= s /\ s <= 8 * e + 7
  OBVIOUS
<1>3. 4 * f <= s /\ s <= 4 * f + 3
  OBVIOUS
<1>4. 2 * h <= s /\ s <= 2 * h + 1
  OBVIOUS
<1>5. h \div 2 = f
  OBVIOUS
<1> HIDE DEF e, f, h
<1>6. far < 2 * s - e
  BY DEF e
<1>7. ASSUME NEW four \in Int, four = IF far >= s THEN s ELSE 0,
             NEW two \in Int, two = IF far - four >= h THEN h ELSE 0,
             NEW one \in Int, one = IF far - four - two >= f THEN f ELSE 0
      PROVE  /\ e + four + two + one - far <= e
             /\ far - (e + four + two + one) <= e + 2
  BY <1>1, <1>2, <1>3, <1>4, <1>6, <1>7, SMTT(60)
<1> QED BY <1>1, <1>5, <1>7 DEF e, f, h

\* A code moves the predictor by its difference, as far as a sample reaches.
LEMMA Moves ==
  ASSUME NEW st, StateOK(st), NEW code \in 0..15
  PROVE  /\ StateOK(DecodeNibble(code, st))
         /\ DecodeNibble(code, st).predictor =
              Within(INT16_MIN,
                     IF Bit(code, 8) = 1 THEN st.predictor - Difference(code, Step(st))
                     ELSE st.predictor + Difference(code, Step(st)),
                     INT16_MAX)
<1> DEFINE next == IF Bit(code, 8) = 1 THEN st.predictor - Difference(code, Step(st))
                    ELSE st.predictor + Difference(code, Step(st))
            index == Within(0, st.index + adpcmIndexDelta[1 + (code % 8)], 88)
<1>1. DecodeNibble(code, st) = [predictor |-> Within(INT16_MIN, next, INT16_MAX), index |-> index]
  BY DEF DecodeNibble, Difference
<1>2. next \in Int
  <2>1. Difference(code, Step(st)) \in Nat
    BY StepRange, DifferenceNat
  <2>2. st.predictor \in Int
    BY SampleInt DEF StateOK
  <2> QED BY <2>1, <2>2
<1>3. index \in 0..88
  <2>1. code % 8 \in 0..7
    OBVIOUS
  <2>2. adpcmIndexDelta[1 + (code % 8)] \in Int /\ st.index \in Int
    BY <2>1, DeltaRange DEF StateOK
  <2> DEFINE sum == st.index + adpcmIndexDelta[1 + (code % 8)]
  <2>3. sum \in Int
    BY <2>2
  <2> HIDE DEF sum
  <2>4. Within(0, sum, 88) \in 0..88
    BY <2>3 DEF Within
  <2> QED BY <2>4 DEF sum
<1> HIDE DEF next, index
<1>4. Within(INT16_MIN, next, INT16_MAX) \in SampleRange
  BY <1>2, SampleInt DEF Within
<1>5. StateOK(DecodeNibble(code, st))
  BY <1>1, <1>3, <1>4 DEF StateOK
<1> QED BY <1>1, <1>5 DEF next

\* Whatever the encoder's state and the sample, the decoder's next sample is within an
\* eighth of the step of it (and the rounding), if the step can reach it.
THEOREM SampleIsNear ==
  ASSUME NEW st, StateOK(st), NEW sample \in SampleRange,
         Apart(sample, st.predictor) < 2 * Step(st) - Step(st) \div 8
  PROVE  /\ StateOK(DecodeNibble(EncodeNibble(sample, st), st))
         /\ Apart(sample, DecodeNibble(EncodeNibble(sample, st), st).predictor)
              <= Step(st) \div 8 + 2
<1> DEFINE s == Step(st)
            p == st.predictor
            far == IF sample < p THEN p - sample ELSE sample - p
            eight == IF sample < p THEN 8 ELSE 0
            four == IF far >= s THEN 4 ELSE 0
            rest == IF four = 4 THEN far - s ELSE far
            two == IF rest >= s \div 2 THEN 2 ELSE 0
            last == IF two = 2 THEN rest - s \div 2 ELSE rest
            one == IF last >= (s \div 2) \div 2 THEN 1 ELSE 0
            code == eight + four + two + one
<1>1. EncodeNibble(sample, st) = code
  BY DEF EncodeNibble
<1>2. s \in Nat /\ p \in SampleRange
  BY StepRange DEF StateOK
<1> HIDE DEF s, p
<1>3. far \in Nat /\ far < 2 * s - s \div 8
  BY <1>2, SampleInt DEF Apart, s, p
<1> HIDE DEF far
<1>4. eight \in {0, 8} /\ four \in {0, 4} /\ two \in {0, 2} /\ one \in {0, 1}
  OBVIOUS
<1> HIDE DEF eight, four, two, one
<1>5. /\ code \in 0..15
      /\ 8 * Bit(code, 8) = eight /\ 4 * Bit(code, 4) = four
      /\ 2 * Bit(code, 2) = two /\ Bit(code, 1) = one
  BY <1>4, CodeBits
<1> HIDE DEF code
<1>6. Difference(code, s) \in Nat
  <2>1. code \in Nat
    BY <1>5
  <2> QED BY <1>2, <2>1, DifferenceNat
<1>7. /\ Difference(code, s) - far <= s \div 8
      /\ far - Difference(code, s) <= s \div 8 + 2
  <2> DEFINE jump == IF far >= s THEN s ELSE 0
              half == IF far - jump >= s \div 2 THEN s \div 2 ELSE 0
              fourth == IF far - jump - half >= (s \div 2) \div 2 THEN s \div 4 ELSE 0
  <2>1. Bit(code, 4) * s = jump
    <3>1. Bit(code, 4) = IF far >= s THEN 1 ELSE 0
      BY <1>5, BitRange DEF four
    <3> QED BY <3>1, <1>2
  <2>2. rest = far - jump
    BY <1>2, <1>3 DEF four
  <2>3. Bit(code, 2) * (s \div 2) = half
    <3>1. Bit(code, 2) = IF rest >= s \div 2 THEN 1 ELSE 0
      BY <1>5, BitRange DEF two
    <3> QED BY <3>1, <2>2, <1>2
  <2>4. last = far - jump - half
    BY <2>2, <1>2, <1>3 DEF two
  <2>5. Bit(code, 1) * (s \div 4) = fourth
    <3>1. Bit(code, 1) = IF last >= (s \div 2) \div 2 THEN 1 ELSE 0
      BY <1>5 DEF one
    <3> QED BY <3>1, <2>4, <1>2
  <2>6. Difference(code, s) = s \div 8 + jump + half + fourth
    BY <2>1, <2>3, <2>5 DEF Difference
  <2> HIDE DEF jump, half, fourth
  <2> QED BY <1>2, <1>3, <2>6, NearEnough DEF jump, half, fourth
<1>8. Bit(code, 8) = IF sample < p THEN 1 ELSE 0
  BY <1>5, BitRange DEF eight
<1> DEFINE next == IF Bit(code, 8) = 1 THEN p - Difference(code, s) ELSE p + Difference(code, s)
<1>9. /\ StateOK(DecodeNibble(code, st))
      /\ DecodeNibble(code, st).predictor = Within(INT16_MIN, next, INT16_MAX)
  BY <1>5, Moves DEF p, s
<1>10. next \in Int /\ Apart(sample, next) <= s \div 8 + 2
  BY <1>2, <1>6, <1>7, <1>8, SampleInt DEF Apart, far
<1> HIDE DEF next
<1>11. Apart(sample, Within(INT16_MIN, next, INT16_MAX)) <= Apart(sample, next)
  BY <1>10, SampleInt DEF Apart, Within
<1>12. Apart(sample, Within(INT16_MIN, next, INT16_MAX)) \in Int /\ Apart(sample, next) \in Int
  BY <1>10, SampleInt DEF Apart, Within
<1> QED BY <1>1, <1>2, <1>9, <1>10, <1>11, <1>12 DEF s

-----------------------------------------------------------------------------
(***************************************************************************)
(* The coder: a block of samples.  The speaker goes through the states the  *)
(* encoder went through, whichever packets came before.                     *)
(***************************************************************************)

States == [predictor : SampleRange, index : 0..88]
Coded == [st : States, code : 0..15]

LEMMA StatesAreOK == \A st \in States : StateOK(st)
  BY DEF States, StateOK

LEMMA EncodesNibble ==
    ASSUME NEW sample \in SampleRange, NEW st \in States
    PROVE  EncodeNibble(sample, st) \in 0..15
  <1> DEFINE s == Step(st)
             p == st.predictor
             far == IF sample < p THEN p - sample ELSE sample - p
             eight == IF sample < p THEN 8 ELSE 0
             four == IF far >= s THEN 4 ELSE 0
             rest == IF four = 4 THEN far - s ELSE far
             two == IF rest >= s \div 2 THEN 2 ELSE 0
             last == IF two = 2 THEN rest - s \div 2 ELSE rest
             one == IF last >= (s \div 2) \div 2 THEN 1 ELSE 0
  <1>1. EncodeNibble(sample, st) = eight + four + two + one
    BY DEF EncodeNibble
  <1>2. eight \in {0, 8} /\ four \in {0, 4} /\ two \in {0, 2} /\ one \in {0, 1}
    OBVIOUS
  <1> HIDE DEF eight, four, two, one
  <1> QED BY <1>1, <1>2

LEMMA DecodesNibble ==
    ASSUME NEW code \in 0..15, NEW st \in States
    PROVE  DecodeNibble(code, st) \in States
  <1> DEFINE a == DecodeNibble(code, st).predictor
             b == DecodeNibble(code, st).index
  <1>1. StateOK(DecodeNibble(code, st))
    BY StatesAreOK, Moves
  <1>2. a \in SampleRange /\ b \in 0..88
    BY <1>1 DEF StateOK
  <1>3. DecodeNibble(code, st) = [predictor |-> a, index |-> b]
    BY DEF DecodeNibble
  <1> HIDE DEF a, b
  <1> QED BY <1>2, <1>3 DEF States

LEMMA EncodedIs ==
    ASSUME NEW first \in States, NEW pcm \in Seq(SampleRange)
    PROVE  LET e == Encoded(first, pcm)
           IN  /\ \A n \in 0..Len(pcm) : e[n] \in Coded
               /\ e[0].st = first
               /\ \A n \in 1..Len(pcm) : /\ e[n].code = EncodeNibble(pcm[n], e[n - 1].st)
                                         /\ e[n].st = DecodeNibble(e[n].code, e[n - 1].st)
  <1> DEFINE N == Len(pcm)
             Coding(n, x) == LET code == EncodeNibble(pcm[n], x.st)
                            IN  [st |-> DecodeNibble(code, x.st), code |-> code]
             start == [st |-> first, code |-> 0]
             step == [n \in 1..N |-> [x \in Coded |-> Coding(n, x)]]
             After(f) == [n \in 0..N |-> IF n = 0 THEN start ELSE Coding(n, f[n - 1])]
             e == Encoded(first, pcm)
  <1>1. N \in Nat /\ \A n \in 1..N : pcm[n] \in SampleRange
    BY LenProperties, Element
  <1>2. \A n \in 1..N, x \in Coded : Coding(n, x) \in Coded
    <2> SUFFICES ASSUME NEW n \in 1..N, NEW x \in Coded PROVE Coding(n, x) \in Coded
      OBVIOUS
    <2> DEFINE code == EncodeNibble(pcm[n], x.st)
    <2>1. x.st \in States
      BY DEF Coded
    <2>2. code \in 0..15
      BY <1>1, <2>1, EncodesNibble
    <2>3. DecodeNibble(code, x.st) \in States
      BY <2>1, <2>2, DecodesNibble
    <2> HIDE DEF code
    <2>4. [st |-> DecodeNibble(code, x.st), code |-> code] \in Coded
      BY <2>2, <2>3 DEF Coded
    <2> QED BY <2>4 DEF code
  <1>3. start \in Coded
    BY DEF Coded
  <1>4. e = CHOOSE f : f = After(f)
    BY Zenon DEF Encoded
  <1> HIDE DEF N, Coding, start
  <1>5. \E f : f = After(f)
    <2>1. step \in [1..N -> [Coded -> Coded]]
      BY <1>2
    <2>2. PICK f \in [0..N -> Coded] : Iterates(f, N, start, step)
      <3> HIDE DEF step
      <3> QED BY <1>1, <1>3, <2>1, IterationExists
    <2>3. \A n \in 0..N : n # 0 => step[n][f[n - 1]] = Coding(n, f[n - 1])
      <3> SUFFICES ASSUME NEW n \in 0..N, n # 0 PROVE step[n][f[n - 1]] = Coding(n, f[n - 1])
        OBVIOUS
      <3>1. n \in 1..N /\ n - 1 \in 0..N
        BY <1>1
      <3>2. f[n - 1] \in Coded
        BY <3>1
      <3> QED BY <3>1, <3>2
    <2>4. f = [n \in 0..N |-> IF n = 0 THEN start ELSE step[n][f[n - 1]]]
      BY <2>2 DEF Iterates
    <2> HIDE DEF step
    <2>5. f = After(f)
      BY <2>3, <2>4
    <2> QED BY <2>5
  <1>6. e = After(e)
    <2> HIDE DEF e, After
    <2> QED BY <1>4, <1>5
  <1> HIDE DEF e, step
  <1>7. e[0] = start /\ \A n \in 1..N : e[n] = Coding(n, e[n - 1])
    <2>1. 0 \in 0..N /\ \A n \in 1..N : n \in 0..N /\ n # 0
      BY <1>1
    <2> QED BY <1>6, <2>1
  <1>8. \A n \in 0..N : e[n] \in Coded
    <2> DEFINE S == {n \in 0..N : e[n] \in Coded}
    <2>1. 0 \in S
      BY <1>1, <1>3, <1>7
    <2>2. ASSUME NEW n \in S, n + 1 \in 0..N PROVE n + 1 \in S
      <3>1. n + 1 \in 1..N /\ (n + 1) - 1 = n
        BY <1>1, <2>2
      <3>2. e[n + 1] = Coding(n + 1, e[n])
        BY <1>7, <3>1
      <3> QED BY <1>2, <2>2, <3>1, <3>2
    <2>3. 0..N \subseteq S
      <3> HIDE DEF S
      <3> QED BY <1>1, <2>1, <2>2, Induct
    <2> QED BY <2>3
  <1>9. e[0].st = first
    BY <1>7 DEF start
  <1>10. \A n \in 1..N : /\ e[n].code = EncodeNibble(pcm[n], e[n - 1].st)
                         /\ e[n].st = DecodeNibble(e[n].code, e[n - 1].st)
    <2> SUFFICES ASSUME NEW n \in 1..N
                 PROVE  /\ e[n].code = EncodeNibble(pcm[n], e[n - 1].st)
                        /\ e[n].st = DecodeNibble(e[n].code, e[n - 1].st)
      OBVIOUS
    <2> DEFINE code == EncodeNibble(pcm[n], e[n - 1].st)
    <2>1. e[n] = [st |-> DecodeNibble(code, e[n - 1].st), code |-> code]
      BY <1>7 DEF Coding
    <2> HIDE DEF code
    <2>2. e[n].code = code /\ e[n].st = DecodeNibble(code, e[n - 1].st)
      BY <2>1
    <2> QED BY <2>2 DEF code
  <1> QED BY <1>8, <1>9, <1>10 DEF e, N

\* The decoder's states are the encoder's.
LEMMA DecodedIs ==
    ASSUME NEW first \in States, NEW pcm \in Seq(SampleRange),
           NEW codes, codes = [n \in 1..Len(pcm) |-> Encoded(first, pcm)[n].code]
    PROVE  \A n \in 0..Len(pcm) : Decoded(first, codes)[n] = Encoded(first, pcm)[n].st
  <1> DEFINE N == Len(pcm)
             e == Encoded(first, pcm)
             d == Decoded(first, codes)
             After(f) == [n \in 0..N |-> IF n = 0 THEN first ELSE DecodeNibble(codes[n], f[n - 1])]
             g == [n \in 0..N |-> e[n].st]
  <1>1. N \in Nat /\ Len(codes) = N
    BY LenProperties
  <1>2. e[0].st = first /\ \A n \in 1..N : e[n].st = DecodeNibble(e[n].code, e[n - 1].st)
    BY EncodedIs
  <1>3. d = CHOOSE f : f = After(f)
    <2>1. d = CHOOSE f : f = [n \in 0..Len(codes) |->
                  IF n = 0 THEN first ELSE DecodeNibble(codes[n], f[n - 1])]
      BY Zenon DEF Decoded
    <2> QED BY <1>1, <2>1
  <1> HIDE DEF N, e
  <1>4. \A n \in 1..N : codes[n] = e[n].code
    BY DEF N, e
  <1>5. g = After(g)
    <2>1. \A n \in 1..N : n - 1 \in 0..N /\ g[n - 1] = e[n - 1].st
      BY <1>1
    <2>2. g[0] = first /\ \A n \in 1..N : g[n] = DecodeNibble(codes[n], g[n - 1])
      <3>1. 0 \in 0..N /\ \A n \in 1..N : n \in 0..N
        BY <1>1
      <3>2. g[0] = e[0].st /\ \A n \in 1..N : g[n] = e[n].st
        BY <3>1
      <3> HIDE DEF g
      <3> QED BY <1>2, <1>4, <2>1, <3>2
    <2>3. DOMAIN g = 0..N /\ \A n \in 0..N : n = 0 \/ n \in 1..N
      BY <1>1
    <2>4. g = [n \in 0..N |-> g[n]]
      OBVIOUS
    <2> HIDE DEF g
    <2>5. \A n \in 0..N : g[n] = IF n = 0 THEN first ELSE DecodeNibble(codes[n], g[n - 1])
      BY <2>2, <2>3
    <2> QED BY <2>4, <2>5
  <1>6. d = After(d)
    <2> HIDE DEF d, After, g
    <2> QED BY <1>3, <1>5
  <1> HIDE DEF d
  <1>7. d[0] = first /\ \A n \in 1..N : d[n] = DecodeNibble(codes[n], d[n - 1])
    <2>1. 0 \in 0..N /\ \A n \in 1..N : n \in 0..N /\ n # 0
      BY <1>1
    <2> QED BY <1>6, <2>1
  <1> DEFINE S == {n \in 0..N : d[n] = e[n].st}
  <1>8. 0 \in S
    BY <1>1, <1>2, <1>7
  <1>9. ASSUME NEW n \in S, n + 1 \in 0..N PROVE n + 1 \in S
    <2>1. n + 1 \in 1..N /\ (n + 1) - 1 = n /\ d[n] = e[n].st
      BY <1>1, <1>9
    <2>2. d[n + 1] = DecodeNibble(codes[n + 1], d[n])
      BY <1>7, <2>1
    <2>3. e[n + 1].st = DecodeNibble(codes[n + 1], e[n].st)
      BY <1>2, <1>4, <2>1
    <2> QED BY <1>9, <2>1, <2>2, <2>3
  <1>10. 0..N \subseteq S
    <2> HIDE DEF S
    <2> QED BY <1>1, <1>8, <1>9, Induct
  <1> QED BY <1>10 DEF d, e, N

\* Each packet is the coded form of the block it was made of, from the state it carries.
PacketsFit ==
    \A n \in 1..Len(wire) :
        /\ wire[n].st \in States /\ spoken[n] \in PcmBlocks
        /\ wire[n].codes = [k \in 1..Len(spoken[n]) |-> Encoded(wire[n].st, spoken[n])[k].code]

CodedPackets == [st : States, codes : Seq(0..15)]

AdpcmIInv ==
    /\ state \in States /\ wire \in Seq(CodedPackets) /\ spoken \in Seq(PcmBlocks)
    /\ Len(wire) <= MaxPackets /\ Len(spoken) = Len(wire)
    /\ PacketsFit

LEMMA AdpcmInitIInv == AdpcmInit => AdpcmIInv
  <1> SUFFICES ASSUME AdpcmInit PROVE AdpcmIInv
    OBVIOUS
  <1>1. state = [predictor |-> 0, index |-> 0] /\ 0 \in SampleRange /\ 0 \in 0..88
    BY DEF AdpcmInit, SampleRange, INT16_MIN, INT16_MAX
  <1>2. state \in States
    BY <1>1 DEF States
  <1>3. wire = <<>> /\ spoken = <<>> /\ Len(wire) = 0 /\ Len(spoken) = 0 /\ MaxPackets \in Nat
    BY AdpcmConstants DEF AdpcmInit
  <1> QED BY <1>2, <1>3 DEF AdpcmIInv, PacketsFit

LEMMA EncodeKeeps ==
    ASSUME AdpcmIInv, NEW pcm \in PcmBlocks, Encode(pcm)
    PROVE  AdpcmIInv'
  <1> DEFINE e == Encoded(state, pcm)
             coded == [st |-> state, codes |-> [n \in 1..Len(pcm) |-> e[n].code]]
  <1>1. pcm \in Seq(SampleRange) /\ MaxPackets \in Nat /\ state \in States
    BY AdpcmConstants DEF AdpcmIInv
  <1>2. \A n \in 0..Len(pcm) : e[n].st \in States /\ e[n].code \in 0..15
    <2>1. \A n \in 0..Len(pcm) : e[n] \in Coded
      BY <1>1, EncodedIs
    <2> HIDE DEF e
    <2> QED BY <2>1 DEF Coded
  <1>3. /\ Len(wire) < MaxPackets /\ wire' = Append(wire, coded)
        /\ spoken' = Append(spoken, pcm) /\ state' = e[Len(pcm)].st
    BY DEF Encode
  <1> HIDE DEF e
  <1>4. Len(pcm) \in Nat
    BY <1>1, LenProperties
  <1>5. coded \in CodedPackets /\ state' \in States
    <2>1. [n \in 1..Len(pcm) |-> e[n].code] \in Seq(0..15)
      BY <1>2, <1>4
    <2> QED BY <1>1, <1>2, <1>3, <1>4, <2>1 DEF CodedPackets
  <1>6. /\ coded.st = state
        /\ coded.codes = [k \in 1..Len(pcm) |-> Encoded(state, pcm)[k].code]
    BY DEF e
  <1> HIDE DEF coded
  <1>7. /\ wire' \in Seq(CodedPackets) /\ spoken' \in Seq(PcmBlocks)
        /\ Len(wire') = Len(wire) + 1 /\ Len(spoken') = Len(wire')
        /\ wire'[Len(wire) + 1] = coded /\ spoken'[Len(wire) + 1] = pcm
        /\ \A n \in 1..Len(wire) : wire'[n] = wire[n] /\ spoken'[n] = spoken[n]
    BY <1>3, <1>5, AppendProperties DEF AdpcmIInv
  <1>8. Len(wire) \in Nat /\ Len(wire') <= MaxPackets
    BY <1>1, <1>3, <1>7, LenProperties DEF AdpcmIInv
  <1>9. PacketsFit'
    <2> SUFFICES ASSUME NEW n \in 1..Len(wire')
                 PROVE  /\ wire'[n].st \in States /\ spoken'[n] \in PcmBlocks
                        /\ wire'[n].codes =
                             [k \in 1..Len(spoken'[n]) |-> Encoded(wire'[n].st, spoken'[n])[k].code]
      BY DEF PacketsFit
    <2>1. CASE n = Len(wire) + 1
      BY <1>1, <1>6, <1>7, <2>1
    <2>2. CASE n \in 1..Len(wire)
      BY <1>7, <2>2 DEF AdpcmIInv, PacketsFit
    <2> QED BY <1>7, <1>8, <2>1, <2>2
  <1> QED BY <1>5, <1>7, <1>8, <1>9 DEF AdpcmIInv

LEMMA AdpcmStepKeeps == AdpcmIInv /\ [AdpcmNext]_adpcmVars => AdpcmIInv'
  <1>1. AdpcmIInv /\ UNCHANGED adpcmVars => AdpcmIInv'
    BY DEF AdpcmIInv, PacketsFit, adpcmVars
  <1> QED BY <1>1, EncodeKeeps DEF AdpcmNext

LEMMA AdpcmInvariant == AdpcmSpec => []AdpcmIInv
  BY AdpcmInitIInv, AdpcmStepKeeps, PTL DEF AdpcmSpec

LEMMA AdpcmTypes == AdpcmIInv => AdpcmTypeOK
  <1> SUFFICES ASSUME AdpcmIInv PROVE AdpcmTypeOK
    OBVIOUS
  <1>1. ASSUME NEW n \in 1..Len(wire)
        PROVE  /\ StateOK(wire[n].st) /\ spoken[n] \in PcmBlocks
               /\ \A k \in 1..Len(wire[n].codes) : wire[n].codes[k] \in 0..15
    <2>1. wire[n] \in CodedPackets
      BY <1>1, Element, LenProperties DEF AdpcmIInv
    <2>2. wire[n].codes \in Seq(0..15) /\ wire[n].st \in States
      BY <2>1 DEF CodedPackets
    <2> QED BY <1>1, <2>2, StatesAreOK, LenProperties DEF AdpcmIInv, PacketsFit
  <1> QED BY <1>1, StatesAreOK DEF AdpcmIInv, AdpcmTypeOK

\* The type invariant; what the encoder makes passes the parser's checks of the state.
THEOREM AdpcmTypeCorrect == AdpcmSpec => []AdpcmTypeOK
  BY AdpcmInvariant, AdpcmTypes, PTL

\* Any packet is decoded on its own as well as after all the others.
LEMMA AdpcmAlone == AdpcmIInv => EveryPacketAlone
  <1> SUFFICES ASSUME AdpcmIInv, NEW n \in 1..Len(wire), NEW k \in 1..Len(spoken[n])
               PROVE  LET states == Decode(wire[n])
                          step == Step(states[k - 1])
                      IN  Apart(spoken[n][k], states[k - 1].predictor) < 2 * step - step \div 8 =>
                            Apart(spoken[n][k], states[k].predictor) <= step \div 8 + 2
    BY DEF EveryPacketAlone
  <1> DEFINE first == wire[n].st
             pcm == spoken[n]
             e == Encoded(first, pcm)
             d == Decode(wire[n])
  <1>1. /\ first \in States /\ pcm \in PcmBlocks
        /\ wire[n].codes = [i \in 1..Len(pcm) |-> Encoded(first, pcm)[i].code]
    BY DEF AdpcmIInv, PacketsFit
  <1>2. pcm \in Seq(SampleRange)
    BY <1>1, AdpcmConstants
  <1> HIDE DEF first, pcm
  <1>3. \A i \in 0..Len(pcm) : d[i] = e[i].st
    <2>1. d = Decoded(first, wire[n].codes)
      BY DEF Decode, first
    <2> QED BY <1>1, <1>2, <2>1, DecodedIs
  <1>4. Len(pcm) \in Nat /\ k \in 1..Len(pcm) /\ k - 1 \in 0..Len(pcm) /\ k \in 0..Len(pcm)
    BY <1>2, LenProperties DEF pcm
  <1>5. /\ e[k - 1] \in Coded
        /\ e[k].st = DecodeNibble(EncodeNibble(pcm[k], e[k - 1].st), e[k - 1].st)
    BY <1>1, <1>2, <1>4, EncodedIs
  <1> HIDE DEF d, e
  <1>6. d[k - 1] \in States /\ d[k] = DecodeNibble(EncodeNibble(pcm[k], d[k - 1]), d[k - 1])
    BY <1>3, <1>4, <1>5 DEF Coded
  <1>7. pcm[k] \in SampleRange
    BY <1>2, <1>4
  <1>8. Apart(pcm[k], d[k - 1].predictor) < 2 * Step(d[k - 1]) - Step(d[k - 1]) \div 8 =>
          Apart(pcm[k], d[k].predictor) <= Step(d[k - 1]) \div 8 + 2
    BY <1>6, <1>7, StatesAreOK, SampleIsNear
  <1> QED BY <1>8 DEF d, pcm

\* Whichever packets are lost, each sample of the others comes out near what was spoken.
THEOREM PacketsStandAlone == AdpcmSpec => []EveryPacketAlone
  BY AdpcmInvariant, AdpcmAlone, PTL

-----------------------------------------------------------------------------
(***************************************************************************)
(* The host of the file player is right whatever an earlier host left       *)
(* behind: no more than one command waits for an idle board and none for a  *)
(* busy one, so the answer to status is the last line of what came before,  *)
(* and the answers after it belong to the commands of this host.            *)
(***************************************************************************)

Words == {"stray", "status", "put", "play", "s", "SD READY", "ERROR", "READY", "ACK", "EXISTS",
          "SAVED", "AUDIO", "FAILED", "STOPPED", "DONE"}
Items == (Tracks \cup Words) \X (Tracks \cup Nat)

Busy == {"check", "receive", "verify", "rename", "play"}
IsCommand(item) == item[1] \in {"put", "play"}
QuietWords == {"SD READY", "ERROR", "stray"}

Has(port, words) == \E i \in 1..Len(port) : port[i][1] \in words
NoCommands(port) == \A i \in 1..Len(port) : ~IsCommand(port[i])
OneCommand(port) ==
    \A i, j \in 1..Len(port) : IsCommand(port[i]) /\ IsCommand(port[j]) => i = j
IsReady(item) == item[1] = "SD READY"
IsQuiet(item) == item[1] \in QuietWords
QuietAfterReady(port) ==
    \A i, j \in 1..Len(port) : IsReady(port[i]) /\ i < j => IsQuiet(port[j])

AtRest == fp_pc \notin Busy /\ (fp_pc = "loop" => NoCommands(toBoard))
Uploads == host_pc \in {"put", "ack", "saved"}

CardInStep ==
    /\ track = <<>> \/ \E content \in Tracks : track = Whole(content)
    /\ fp_pc \in {"receive", "verify", "rename"} => track = <<>>
    /\ fp_pc \in {"check", "receive", "verify", "rename"} => arriving \in Tracks
    /\ fp_pc = "receive" => Len(part) < Chunks
    /\ fp_pc = "rename" => part = Whole(arriving)
    /\ fp_pc = "play" => Len(sounded) <= Len(track)
                         /\ \A n \in 1..Len(sounded) : sounded[n] = track[n]
    /\ host_pc \in {"status", "put", "ack"} => acked < Chunks

\* A command belongs to the host that waits for what becomes of it.
Fits(item) ==
    IsCommand(item) =>
        /\ host_pc # "status"
        /\ item[1] = "put" => item = <<"put", host_track>>
        /\ item[1] = "play" => ~Uploads
AllFit(port) == \A i \in 1..Len(port) : Fits(port[i])

CommandsInStep ==
    /\ fp_pc \in Busy => NoCommands(toBoard)
    /\ fp_pc = "loop" => OneCommand(toBoard) /\ AllFit(toBoard)

StatusAnswered ==
    host_pc = "status" /\ Has(toHost, {"SD READY"}) => fp_pc \notin Busy /\ QuietAfterReady(toHost)

PutAnswered ==
    Uploads =>
        /\ fp_pc # "play" /\ ~Has(toHost, {"DONE"})
        /\ Has(toHost, {"EXISTS", "SAVED"}) => AtRest
        /\ host_pc = "put" /\ fp_pc = "check" => arriving = host_track
        /\ host_pc = "put" /\ Has(toHost, {"EXISTS"}) => track = Whole(host_track)

SavedIsThere ==
    \A i \in 1..Len(toHost) : toHost[i][1] = "SAVED" => track = Whole(toHost[i][2])

PlayAnswered ==
    /\ host_pc \in {"audio", "playing"} /\ Has(toHost, {"DONE"}) =>
          sounded = Whole(host_track) /\ AtRest
    /\ host_pc = "done" => AtRest

FileSeqs == {toBoard, toHost, track, part, sounded} \subseteq Seq(Items)

FileIInv ==
    /\ FileTypeOK /\ FileSeqs /\ CardInStep /\ CommandsInStep /\ StatusAnswered /\ PutAnswered
    /\ SavedIsThere /\ PlayAnswered /\ HostIsRight

-----------------------------------------------------------------------------
(* What happens to a port.                                                  *)

LEMMA TracksAreNames ==
    /\ Chunks \in Nat \ {0} /\ MaxHosts \in Nat /\ MaxMishaps \in Nat
    /\ \A content \in Tracks : content \notin {"none", "stray", "status", "put", "play", "s"}
  BY FilePlayerConstants

LEMMA TailIs ==
    ASSUME NEW S, NEW s \in Seq(S), s # <<>>
    PROVE  /\ Tail(s) \in Seq(S) /\ Head(s) = s[1] /\ Head(s) \in S
           /\ Len(s) \in Nat /\ Len(Tail(s)) = Len(s) - 1
           /\ \A i \in 1..Len(Tail(s)) : Tail(s)[i] = s[i + 1] /\ i + 1 \in 1..Len(s)
           /\ 1 \in 1..Len(s)
  <1>1. Len(s) \in Nat /\ Len(s) # 0
    BY EmptySeq, LenProperties
  <1> QED BY <1>1, HeadTailProperties, LenProperties

LEMMA AppendIs ==
    ASSUME NEW S, NEW s \in Seq(S), NEW e \in S
    PROVE  /\ Append(s, e) \in Seq(S) /\ Len(Append(s, e)) = Len(s) + 1 /\ Len(s) \in Nat
           /\ Append(s, e)[Len(s) + 1] = e
           /\ \A i \in 1..Len(s) : Append(s, e)[i] = s[i]
           /\ \A i \in 1..Len(Append(s, e)) : i = Len(s) + 1 \/ i \in 1..Len(s)
  BY AppendProperties, LenProperties

LEMMA TakenKeeps ==
    ASSUME NEW port \in Seq(Items), port # <<>>
    PROVE  /\ NoCommands(port) => NoCommands(Tail(port))
           /\ OneCommand(port) => OneCommand(Tail(port))
           /\ OneCommand(port) /\ IsCommand(Head(port)) => NoCommands(Tail(port))
           /\ \A words : Has(Tail(port), words) => Has(port, words)
           /\ IsReady(Head(port)) /\ QuietAfterReady(port) =>
                 \A i \in 1..Len(Tail(port)) : IsQuiet(Tail(port)[i])
           /\ QuietAfterReady(port) => QuietAfterReady(Tail(port))
  <1>1. NoCommands(port) => NoCommands(Tail(port))
    BY TailIs DEF NoCommands
  <1>2. ASSUME OneCommand(port) PROVE OneCommand(Tail(port))
    <2> SUFFICES ASSUME NEW i \in 1..Len(Tail(port)), NEW j \in 1..Len(Tail(port)),
                        IsCommand(Tail(port)[i]), IsCommand(Tail(port)[j])
                 PROVE  i = j
      BY DEF OneCommand
    <2>1. /\ Tail(port)[i] = port[i + 1] /\ i + 1 \in 1..Len(port)
          /\ Tail(port)[j] = port[j + 1] /\ j + 1 \in 1..Len(port)
      BY TailIs
    <2>2. i + 1 = j + 1
      BY <1>2, <2>1 DEF OneCommand
    <2> QED BY <2>2
  <1>3. ASSUME OneCommand(port), IsCommand(Head(port)) PROVE NoCommands(Tail(port))
    <2> SUFFICES ASSUME NEW i \in 1..Len(Tail(port)), IsCommand(Tail(port)[i]) PROVE FALSE
      BY DEF NoCommands
    <2>1. /\ Tail(port)[i] = port[i + 1] /\ i + 1 \in 1..Len(port)
          /\ Head(port) = port[1] /\ 1 \in 1..Len(port)
      BY TailIs
    <2>2. i + 1 = 1
      BY <1>3, <2>1 DEF OneCommand
    <2> QED BY <2>2
  <1>4. \A words : Has(Tail(port), words) => Has(port, words)
    BY TailIs DEF Has
  <1>5. ASSUME IsReady(Head(port)), QuietAfterReady(port), NEW i \in 1..Len(Tail(port))
        PROVE  IsQuiet(Tail(port)[i])
    <2>1. /\ Tail(port)[i] = port[i + 1] /\ i + 1 \in 1..Len(port) /\ 1 < i + 1
          /\ Head(port) = port[1] /\ 1 \in 1..Len(port)
      BY TailIs
    <2> QED BY <1>5, <2>1 DEF QuietAfterReady
  <1>6. ASSUME QuietAfterReady(port) PROVE QuietAfterReady(Tail(port))
    <2> SUFFICES ASSUME NEW i \in 1..Len(Tail(port)), NEW j \in 1..Len(Tail(port)),
                        IsReady(Tail(port)[i]), i < j
                 PROVE  IsQuiet(Tail(port)[j])
      BY DEF QuietAfterReady
    <2>1. /\ Tail(port)[i] = port[i + 1] /\ i + 1 \in 1..Len(port)
          /\ Tail(port)[j] = port[j + 1] /\ j + 1 \in 1..Len(port)
      BY TailIs
    <2>2. Len(Tail(port)) \in Nat
      BY TailIs
    <2>3. i + 1 < j + 1
      BY <2>2
    <2> QED BY <1>6, <2>1, <2>3 DEF QuietAfterReady
  <1> QED BY <1>1, <1>2, <1>3, <1>4, <1>5, <1>6

LEMMA AddedKeeps ==
    ASSUME NEW port \in Seq(Items), NEW item \in Items
    PROVE  LET more == Append(port, item)
           IN  /\ NoCommands(port) /\ ~IsCommand(item) => NoCommands(more)
               /\ OneCommand(port) /\ ~IsCommand(item) => OneCommand(more)
               /\ NoCommands(port) => OneCommand(more)
               /\ \A words : Has(more, words) <=> Has(port, words) \/ item[1] \in words
               /\ QuietAfterReady(port) /\ IsQuiet(item) => QuietAfterReady(more)
               /\ ~Has(port, {"SD READY"}) => QuietAfterReady(more)
  <1> DEFINE more == Append(port, item)
             n == Len(port) + 1
  <1>1. /\ n \in Nat /\ 1..Len(more) = 1..n /\ more[n] = item /\ n \in 1..n
        /\ \A i \in 1..n : i # n => i \in 1..Len(port) /\ more[i] = port[i] /\ i < n
        /\ \A i \in 1..Len(port) : i \in 1..n /\ more[i] = port[i]
    BY AppendIs
  <1> HIDE DEF more, n
  <1>2. NoCommands(port) /\ ~IsCommand(item) => NoCommands(more)
    BY <1>1 DEF NoCommands
  <1>3. OneCommand(port) /\ ~IsCommand(item) => OneCommand(more)
    BY <1>1 DEF OneCommand
  <1>4. NoCommands(port) => OneCommand(more)
    BY <1>1 DEF NoCommands, OneCommand
  <1>5. \A words : Has(more, words) <=> Has(port, words) \/ item[1] \in words
    BY <1>1 DEF Has
  <1>6. ASSUME QuietAfterReady(port), IsQuiet(item) PROVE QuietAfterReady(more)
    <2> SUFFICES ASSUME NEW i \in 1..n, NEW j \in 1..n, IsReady(more[i]), i < j
                 PROVE  IsQuiet(more[j])
      BY <1>1 DEF QuietAfterReady
    <2>1. i # n
      <3>1. n \in Nat
        BY <1>1
      <3> QED BY <3>1
    <2>2. CASE j = n
      BY <1>1, <1>6, <2>2
    <2>3. CASE j # n
      BY <1>1, <1>6, <2>1, <2>3 DEF QuietAfterReady
    <2> QED BY <2>2, <2>3
  <1>7. ASSUME ~Has(port, {"SD READY"}) PROVE QuietAfterReady(more)
    <2> SUFFICES ASSUME NEW i \in 1..n, NEW j \in 1..n, IsReady(more[i]), i < j
                 PROVE  FALSE
      BY <1>1 DEF QuietAfterReady
    <2>1. i \in 1..Len(port) /\ more[i] = port[i]
      <3>1. n \in Nat
        BY <1>1
      <3>2. i # n
        BY <3>1
      <3> QED BY <1>1, <3>2
    <2> QED BY <1>7, <2>1 DEF Has, IsReady
  <1> QED BY <1>2, <1>3, <1>4, <1>5, <1>6, <1>7 DEF more

LEMMA SpoiledKeeps ==
    ASSUME NEW port \in Seq(Items), NEW n \in 1..Len(port)
    PROVE  LET spoiled == [port EXCEPT ![n] = Stray]
           IN  /\ spoiled \in Seq(Items) /\ Len(spoiled) = Len(port)
               /\ \A i \in 1..Len(port) : spoiled[i] = port[i] \/ spoiled[i] = <<"stray", 0>>
               /\ NoCommands(port) => NoCommands(spoiled)
               /\ OneCommand(port) => OneCommand(spoiled)
               /\ \A words : "stray" \notin words /\ Has(spoiled, words) => Has(port, words)
               /\ QuietAfterReady(port) => QuietAfterReady(spoiled)
  <1> DEFINE spoiled == [port EXCEPT ![n] = Stray]
  <1>1. Stray \in Items /\ Stray = <<"stray", 0>>
    BY DEF Items, Words, Stray, Chunk
  <1>2. spoiled \in Seq(Items) /\ Len(spoiled) = Len(port)
    BY <1>1, ExceptSeq
  <1>3. \A i \in 1..Len(port) : spoiled[i] = port[i] \/ spoiled[i] = <<"stray", 0>>
    BY <1>1
  <1> HIDE DEF spoiled
  <1>4. NoCommands(port) => NoCommands(spoiled)
    BY <1>2, <1>3 DEF NoCommands, IsCommand
  <1>5. OneCommand(port) => OneCommand(spoiled)
    BY <1>2, <1>3 DEF OneCommand, IsCommand
  <1>6. \A words : "stray" \notin words /\ Has(spoiled, words) => Has(port, words)
    BY <1>2, <1>3 DEF Has
  <1>7. ASSUME QuietAfterReady(port) PROVE QuietAfterReady(spoiled)
    <2> SUFFICES ASSUME NEW i \in 1..Len(port), NEW j \in 1..Len(port),
                        IsReady(spoiled[i]), i < j
                 PROVE  IsQuiet(spoiled[j])
      BY <1>2 DEF QuietAfterReady
    <2>1. spoiled[i] = port[i]
      <3>1. <<"stray", 0>>[1] = "stray"
        OBVIOUS
      <3> QED BY <1>3, <3>1 DEF IsReady
    <2>2. IsQuiet(port[j])
      BY <1>7, <2>1 DEF QuietAfterReady
    <2>3. <<"stray", 0>>[1] = "stray"
      OBVIOUS
    <2> QED BY <1>3, <2>2, <2>3 DEF IsQuiet, QuietWords
  <1> QED BY <1>2, <1>3, <1>4, <1>5, <1>6, <1>7 DEF spoiled

LEMMA WholeIs ==
    ASSUME NEW content \in Tracks \cup Words \cup Nat
    PROVE  Len(Whole(content)) = Chunks /\ Whole(content) # <<>>
  <1>1. Whole(content) = [n \in 1..Chunks |-> Chunk(content, n)]
    BY DEF Whole
  <1>2. Len(Whole(content)) = Chunks /\ DOMAIN Whole(content) = 1..Chunks
    BY <1>1, TracksAreNames
  <1>3. 1 \in DOMAIN Whole(content)
    BY <1>2, TracksAreNames
  <1> QED BY <1>2, <1>3, EmptySeq

LEMMA WholeSeq ==
    ASSUME NEW content \in Tracks
    PROVE  Whole(content) \in Seq(Items)
  <1>1. \A n \in 1..Chunks : Chunk(content, n) \in Items
    BY TracksAreNames DEF Items, Chunk
  <1> QED BY <1>1, TracksAreNames DEF Whole

LEMMA WordsAreItems ==
    /\ \A word \in Words : Word(word) \in Items /\ Word(word)[1] = word
    /\ \A word \in Words, x \in Tracks \cup Nat : <<word, x>> \in Items
    /\ \A content \in Tracks, n \in Nat : Chunk(content, n) \in Items
    /\ Stray \in Items
  BY DEF Words, Items, Word, Chunk, Stray

\* While the card has no track nothing is told of one.
LEMMA NoTrackNoWords ==
    ASSUME FileIInv, track = <<>>
    PROVE  /\ ~Has(toHost, {"SAVED"})
           /\ ~(host_pc = "put" /\ Has(toHost, {"EXISTS"}))
           /\ host_pc \notin {"audio", "playing", "done"}
  <1>1. host_track \in Tracks /\ track # Whole(host_track)
    BY WholeIs DEF FileIInv, FileTypeOK
  <1>2. ~Has(toHost, {"SAVED"})
    <2> SUFFICES ASSUME NEW i \in 1..Len(toHost), toHost[i][1] = "SAVED" PROVE FALSE
      BY DEF Has
    <2>1. toHost[i] \in Items
      BY Element, LenProperties DEF FileIInv, FileSeqs
    <2>2. toHost[i][2] \in Tracks \cup Nat
      BY <2>1 DEF Items
    <2>3. track = Whole(toHost[i][2])
      BY DEF FileIInv, SavedIsThere
    <2> QED BY <2>2, <2>3, WholeIs
  <1> QED BY <1>1, <1>2 DEF FileIInv, PutAnswered, HostIsRight, Uploads

-----------------------------------------------------------------------------
(* The board.                                                               *)

\* What a step of the board makes of the ports.
BoardTakes == toBoard' = toBoard \/ (toBoard # <<>> /\ toBoard' = Tail(toBoard))

LEMMA BoardPorts ==
    ASSUME FileIInv, BoardTakes, UNCHANGED hostVars
    PROVE  /\ toBoard' \in Seq(Items)
           /\ NoCommands(toBoard) => NoCommands(toBoard')
           /\ OneCommand(toBoard) => OneCommand(toBoard')
           /\ AllFit(toBoard) => AllFit(toBoard)'
           /\ Uploads' <=> Uploads
  <1>1. toBoard \in Seq(Items)
    BY DEF FileIInv, FileSeqs
  <1>2. UNCHANGED <<host_pc, host_track>>
    BY DEF hostVars
  <1>3. CASE toBoard' = toBoard
    BY <1>1, <1>2, <1>3 DEF AllFit, Fits, Uploads, NoCommands, OneCommand
  <1>4. CASE toBoard # <<>> /\ toBoard' = Tail(toBoard)
    <2>1. toBoard' \in Seq(Items)
      BY <1>1, <1>4, TailIs
    <2>2. AllFit(toBoard) => AllFit(toBoard)'
      <3> SUFFICES ASSUME AllFit(toBoard), NEW i \in 1..Len(toBoard') PROVE Fits(toBoard[i])'
        BY DEF AllFit
      <3>1. i + 1 \in 1..Len(toBoard) /\ toBoard'[i] = toBoard[i + 1]
        BY <1>1, <1>4, TailIs
      <3>2. Fits(toBoard[i + 1])
        BY <3>1 DEF AllFit
      <3> QED BY <1>2, <3>1, <3>2 DEF Fits, Uploads
    <2> QED BY <1>1, <1>2, <1>4, <2>1, <2>2, TakenKeeps DEF Uploads
  <1> QED BY <1>3, <1>4 DEF BoardTakes

\* An idle board answers, and stays idle.
LEMMA AnswerKeeps ==
    ASSUME FileIInv, fp_pc \notin Busy, toBoard # <<>>, toBoard' = Tail(toBoard),
           UNCHANGED <<boardVars, hostVars>>, mishaps' \in 0..MaxMishaps,
           NEW line \in Items, IsQuiet(line),
           toHost' = toHost \/ toHost' = Append(toHost, line)
    PROVE  FileIInv'
  <1>1. BoardTakes
    BY DEF BoardTakes
  <1>2. UNCHANGED <<fp_pc, track, part, arriving, sounded, host_pc, host_track, acked, hosts>>
    BY DEF boardVars, hostVars
  <1>3. toHost \in Seq(Items)
    BY DEF FileIInv, FileSeqs
  <1>4. /\ toHost' \in Seq(Items)
        /\ \A words : words \subseteq {"EXISTS", "SAVED", "DONE"} =>
              (Has(toHost', words) <=> Has(toHost, words))
        /\ QuietAfterReady(toHost) \/ ~Has(toHost, {"SD READY"}) => QuietAfterReady(toHost')
    <2>1. CASE toHost' = toHost
      <3>1. ~Has(toHost, {"SD READY"}) => QuietAfterReady(toHost)
        BY DEF Has, QuietAfterReady, IsReady
      <3> QED BY <1>3, <2>1, <3>1
    <2>2. CASE toHost' = Append(toHost, line)
      <3>1. toHost' \in Seq(Items)
        BY <1>3, <2>2, AppendIs
      <3>2. line[1] \notin {"EXISTS", "SAVED", "DONE"}
        BY DEF IsQuiet, QuietWords
      <3> QED BY <1>3, <2>2, <3>1, <3>2, AddedKeeps
    <2> QED BY <2>1, <2>2
  <1>5. SavedIsThere'
    <2>1. CASE toHost' = toHost
      BY <1>2, <2>1 DEF FileIInv, SavedIsThere
    <2>2. CASE toHost' = Append(toHost, line)
      <3>1. \A i \in 1..Len(toHost') :
                \/ toHost'[i] = line
                \/ i \in 1..Len(toHost) /\ toHost'[i] = toHost[i]
        BY <1>3, <2>2, AppendIs
      <3>2. line[1] # "SAVED"
        BY DEF IsQuiet, QuietWords
      <3>3. \A i \in 1..Len(toHost) : toHost[i][1] = "SAVED" => track = Whole(toHost[i][2])
        BY DEF FileIInv, SavedIsThere
      <3> QED BY <1>2, <3>1, <3>2, <3>3 DEF SavedIsThere
    <2> QED BY <2>1, <2>2
  <1>6. FileTypeOK' /\ CardInStep' /\ HostIsRight'
    BY <1>2 DEF FileIInv, FileTypeOK, CardInStep, HostIsRight
  <1>7. FileSeqs' /\ CommandsInStep'
    BY <1>1, <1>2, <1>4, BoardPorts DEF FileIInv, FileSeqs, CommandsInStep
  <1>8. AtRest => AtRest'
    BY <1>1, <1>2, BoardPorts DEF AtRest
  <1>9. StatusAnswered'
    BY <1>2, <1>4 DEF FileIInv, StatusAnswered
  <1>10. PutAnswered' /\ PlayAnswered'
    BY <1>2, <1>4, <1>8 DEF FileIInv, PutAnswered, PlayAnswered, Uploads
  <1> QED BY <1>5, <1>6, <1>7, <1>9, <1>10 DEF FileIInv

\* What a line that a busy board says means of the card and of the sound.
SaysTrue(line) ==
    /\ line \in Items /\ line[1] # "SD READY"
    /\ line[1] \in {"EXISTS", "SAVED", "DONE"} => fp_pc' = "loop"
    /\ line[1] = "EXISTS" => fp_pc = "check" /\ track' = Whole(arriving)
    /\ line[1] = "SAVED" => track' = Whole(line[2])
    /\ line[1] = "DONE" => fp_pc = "play" /\ sounded' = track'

\* A busy board goes on with what it does, or ends it with a line that is true.
LEMMA BusyKeeps ==
    ASSUME FileIInv, fp_pc \in Busy, fp_pc' \in Busy \cup {"loop"}, BoardTakes,
           UNCHANGED hostVars,
           fp_pc' = "play" => fp_pc = "play",
           fp_pc' = "check" => fp_pc = "check" /\ arriving' = arriving,
           track' = track \/ track = <<>>,
           toHost' = toHost \/ \E line : SaysTrue(line) /\ toHost' = Append(toHost, line),
           FileTypeOK', CardInStep', {track, part, sounded}' \subseteq Seq(Items)
    PROVE  FileIInv'
  <1>1. UNCHANGED <<host_pc, host_track, acked, hosts>>
    BY DEF hostVars
  <1>2. toHost \in Seq(Items) /\ ~AtRest
    BY DEF FileIInv, FileSeqs, AtRest
  <1>3. CommandsInStep' /\ NoCommands(toBoard')
    <2>1. NoCommands(toBoard)
      BY DEF FileIInv, CommandsInStep
    <2>2. NoCommands(toBoard')
      BY <2>1, BoardPorts
    <2> QED BY <2>2 DEF CommandsInStep, NoCommands, OneCommand, AllFit, Fits
  <1>4. fp_pc' = "loop" => AtRest'
    BY <1>3 DEF AtRest, Busy
  <1>5. ~(host_pc = "status" /\ Has(toHost, {"SD READY"})) /\ host_pc # "done"
    BY <1>2 DEF FileIInv, StatusAnswered, PlayAnswered
  <1>6. Uploads => ~Has(toHost, {"EXISTS", "SAVED"}) /\ ~Has(toHost, {"DONE"}) /\ fp_pc # "play"
    BY <1>2 DEF FileIInv, PutAnswered
  <1>7. host_pc \in {"audio", "playing"} => ~Has(toHost, {"DONE"})
    BY <1>2 DEF FileIInv, PlayAnswered
  <1>8. /\ host_track \in Tracks
        /\ host_pc \in {"audio", "playing"} => track = Whole(host_track) /\ track' = track
    BY NoTrackNoWords DEF FileIInv, FileTypeOK, HostIsRight
  <1>9. HostIsRight'
    BY <1>1, <1>5, <1>8 DEF HostIsRight
  <1>10. CASE toHost' = toHost
    <2>1. SavedIsThere'
      BY <1>10, NoTrackNoWords DEF FileIInv, SavedIsThere, Has
    <2>2. StatusAnswered' /\ PlayAnswered'
      BY <1>1, <1>5, <1>7, <1>10 DEF StatusAnswered, PlayAnswered
    <2>3. host_pc = "put" => ~Has(toHost, {"EXISTS"})
      BY <1>6 DEF Uploads, Has
    <2>4. PutAnswered'
      BY <1>1, <1>6, <1>10, <2>3 DEF FileIInv, PutAnswered, Uploads
    <2> QED BY <1>2, <1>3, <1>9, <1>10, <2>1, <2>2, <2>4, BoardPorts DEF FileIInv, FileSeqs
  <1>11. ASSUME NEW line, SaysTrue(line), toHost' = Append(toHost, line) PROVE FileIInv'
    <2>1. line \in Items
      BY <1>11 DEF SaysTrue
    <2>2. toHost' \in Seq(Items)
          /\ \A words : Has(toHost', words) <=> Has(toHost, words) \/ line[1] \in words
      BY <1>2, <1>11, <2>1, AppendIs, AddedKeeps
    <2>3. SavedIsThere'
      <3> SUFFICES ASSUME NEW i \in 1..Len(toHost'), toHost'[i][1] = "SAVED"
                   PROVE  track' = Whole(toHost'[i][2])
        BY DEF SavedIsThere
      <3>1. CASE i = Len(toHost) + 1
        <4>1. toHost'[i] = line
          BY <1>2, <1>11, <2>1, <3>1, AppendIs
        <4> QED BY <1>11, <4>1 DEF SaysTrue
      <3>2. CASE i # Len(toHost) + 1
        <4>1. i \in 1..Len(toHost) /\ toHost'[i] = toHost[i]
          BY <1>2, <1>11, <2>1, <3>2, AppendIs
        <4> QED BY <4>1, NoTrackNoWords DEF FileIInv, SavedIsThere, Has
      <3> QED BY <3>1, <3>2
    <2>4. StatusAnswered'
      BY <1>1, <1>5, <1>11, <2>2 DEF StatusAnswered, SaysTrue
    <2>5. Has(toHost', {"DONE"}) /\ (Uploads \/ host_pc \in {"audio", "playing"}) =>
            fp_pc = "play" /\ sounded' = track' /\ fp_pc' = "loop"
      BY <1>6, <1>7, <1>11, <2>2 DEF SaysTrue
    <2>6. PlayAnswered'
      BY <1>1, <1>4, <1>5, <1>8, <2>5 DEF PlayAnswered
    <2>7. Uploads /\ Has(toHost', {"EXISTS", "SAVED"}) => AtRest'
      BY <1>4, <1>6, <1>11, <2>2 DEF SaysTrue
    <2>8. host_pc = "put" /\ Has(toHost', {"EXISTS"}) => track' = Whole(host_track)
      <3> SUFFICES ASSUME host_pc = "put", Has(toHost', {"EXISTS"}) PROVE track' = Whole(host_track)
        OBVIOUS
      <3>1. ~Has(toHost, {"EXISTS"})
        BY <1>6 DEF Uploads, Has
      <3>2. line[1] = "EXISTS"
        BY <2>2, <3>1
      <3> QED BY <1>11, <3>2 DEF SaysTrue, FileIInv, PutAnswered, Uploads
    <2>9. PutAnswered'
      BY <1>1, <1>6, <2>5, <2>7, <2>8 DEF FileIInv, PutAnswered, Uploads
    <2> QED BY <1>3, <1>9, <2>2, <2>3, <2>4, <2>6, <2>9, BoardPorts DEF FileIInv, FileSeqs
  <1> QED BY <1>10, <1>11

\* What the invariant says of the counters and the files.
LEMMA FileFacts ==
    ASSUME FileIInv
    PROVE  /\ {toBoard, toHost, track, part, sounded} \subseteq Seq(Items)
           /\ mishaps \in 0..MaxMishaps /\ host_track \in Tracks
           /\ (Smooth \/ Mishap) => mishaps' \in 0..MaxMishaps
           /\ Len(track) \in {0, Chunks} /\ Len(part) \in 0..Chunks /\ Len(sounded) \in 0..Chunks
           /\ Chunks \in Nat \ {0}
  <1>1. /\ {toBoard, toHost, track, part, sounded} \subseteq Seq(Items)
        /\ mishaps \in 0..MaxMishaps /\ host_track \in Tracks
        /\ Len(part) \in 0..Chunks /\ Len(sounded) \in 0..Chunks
    BY DEF FileIInv, FileSeqs, FileTypeOK
  <1>2. (Smooth \/ Mishap) => mishaps' \in 0..MaxMishaps
    BY <1>1, TracksAreNames DEF Smooth, Mishap
  <1>3. Len(track) \in {0, Chunks}
    <2>1. CASE track = <<>>
      BY <2>1
    <2>2. CASE track # <<>>
      BY <2>2, WholeIs DEF FileIInv, CardInStep
    <2> QED BY <2>1, <2>2
  <1> QED BY <1>1, <1>2, <1>3, TracksAreNames

LEMMA AnswersKeep ==
    FileIInv /\ (CommandRefused \/ Status \/ NoCommand \/ TrackRefused) => FileIInv'
  <1> SUFFICES ASSUME FileIInv, CommandRefused \/ Status \/ NoCommand \/ TrackRefused
               PROVE  FileIInv'
    OBVIOUS
  <1>1. /\ fp_pc \in {"loop", "down"} /\ toBoard # <<>> /\ toBoard' = Tail(toBoard)
        /\ UNCHANGED <<boardVars, hostVars>> /\ (Smooth \/ Mishap)
        /\ \/ toHost' = toHost
           \/ toHost' = Append(toHost, Word("ERROR"))
           \/ toHost' = Append(toHost, Word("SD READY"))
    BY DEF CommandRefused, Status, NoCommand, TrackRefused, Reads, Says
  <1>2. fp_pc \notin Busy /\ mishaps' \in 0..MaxMishaps
    BY <1>1, FileFacts DEF Busy
  <1>3. /\ Word("ERROR") \in Items /\ IsQuiet(Word("ERROR"))
        /\ Word("SD READY") \in Items /\ IsQuiet(Word("SD READY"))
    BY WordsAreItems DEF IsQuiet, QuietWords, Words
  <1> QED BY <1>1, <1>2, <1>3, AnswerKeeps

LEMMA OpenFailsKeeps ==
    ASSUME FileIInv, NEW content \in Tracks, PutOpenFails(content)
    PROVE  FileIInv'
  <1>1. /\ fp_pc = "loop" /\ toBoard # <<>> /\ toBoard' = Tail(toBoard)
        /\ UNCHANGED <<boardVars, hostVars>> /\ Mishap
        /\ toHost' = Append(toHost, Word("ERROR"))
    BY DEF PutOpenFails, Puts, Reads, Says
  <1>2. fp_pc \notin Busy /\ mishaps' \in 0..MaxMishaps
    BY <1>1, FileFacts DEF Busy
  <1>3. Word("ERROR") \in Items /\ IsQuiet(Word("ERROR"))
    BY WordsAreItems DEF IsQuiet, QuietWords, Words
  <1> QED BY <1>1, <1>2, <1>3, AnswerKeeps

\* An idle board takes the one command that waits for it.
LEMMA TakesCommand ==
    ASSUME FileIInv, fp_pc = "loop", toBoard # <<>>, toBoard' = Tail(toBoard),
           IsCommand(Head(toBoard)), UNCHANGED hostVars, fp_pc' \in Busy,
           UNCHANGED track, fp_pc' = "play" => ~Uploads,
           fp_pc' = "check" /\ host_pc = "put" => arriving' = host_track,
           \/ toHost' = toHost
           \/ toHost' = Append(toHost, Word("READY")),
           FileTypeOK', CardInStep', {part, sounded}' \subseteq Seq(Items)
    PROVE  FileIInv'
  <1>1. UNCHANGED <<host_pc, host_track, acked, hosts>>
    BY DEF hostVars
  <1>2. toHost \in Seq(Items) /\ toBoard \in Seq(Items) /\ track' \in Seq(Items)
    BY FileFacts
  <1>3. Head(toBoard) = toBoard[1] /\ 1 \in 1..Len(toBoard)
    BY <1>2, TailIs
  <1>4. ~AtRest
    BY <1>3 DEF AtRest, NoCommands
  <1>5. NoCommands(toBoard')
    BY <1>2, TakenKeeps DEF FileIInv, CommandsInStep
  <1>6. host_pc # "status"
    BY <1>3 DEF FileIInv, CommandsInStep, AllFit, Fits
  <1>7. CommandsInStep' /\ StatusAnswered'
    BY <1>1, <1>5, <1>6 DEF CommandsInStep, StatusAnswered, Busy
  <1>8. toHost' \in Seq(Items) /\ SavedIsThere' /\
        \A words : "READY" \notin words => (Has(toHost', words) => Has(toHost, words))
    <2>1. CASE toHost' = toHost
      BY <1>2, <2>1 DEF FileIInv, SavedIsThere
    <2>2. CASE toHost' = Append(toHost, Word("READY"))
      <3>1. Word("READY") \in Items /\ Word("READY")[1] = "READY"
        BY WordsAreItems DEF Words
      <3>2. \A i \in 1..Len(toHost') :
                \/ toHost'[i] = Word("READY")
                \/ i \in 1..Len(toHost) /\ toHost'[i] = toHost[i]
        <4> DEFINE line == Word("READY")
        <4> HIDE DEF line
        <4>1. line \in Items
          BY <3>1 DEF line
        <4>2. \A i \in 1..Len(toHost') :
                \/ toHost'[i] = line
                \/ i \in 1..Len(toHost) /\ toHost'[i] = toHost[i]
          <5>1. toHost' = Append(toHost, line)
            BY <2>2 DEF line
          <5> QED BY <1>2, <4>1, <5>1, AppendIs
        <4> QED BY <4>2 DEF line
      <3>3. \A i \in 1..Len(toHost) : toHost[i][1] = "SAVED" => track = Whole(toHost[i][2])
        BY DEF FileIInv, SavedIsThere
      <3>4. SavedIsThere'
        BY <3>1, <3>2, <3>3 DEF SavedIsThere
      <3>5. toHost' \in Seq(Items)
            /\ \A words : Has(toHost', words) <=> Has(toHost, words) \/ Word("READY")[1] \in words
        BY <1>2, <2>2, <3>1, AppendIs, AddedKeeps
      <3> QED BY <3>1, <3>4, <3>5
    <2> QED BY <2>1, <2>2
  <1>9. PutAnswered' /\ PlayAnswered' /\ HostIsRight'
    BY <1>1, <1>4, <1>8 DEF FileIInv, PutAnswered, PlayAnswered, HostIsRight, Uploads
  <1>10. FileSeqs'
    BY <1>2, <1>5, <1>8, TailIs DEF FileSeqs
  <1> QED BY <1>7, <1>8, <1>9, <1>10 DEF FileIInv

LEMMA StartsKeep ==
    ASSUME FileIInv, TrackStarts \/ \E content \in Tracks : PutFound(content) \/ PutOpens(content)
    PROVE  FileIInv'
  <1>1. /\ fp_pc = "loop" /\ toBoard # <<>> /\ toBoard' = Tail(toBoard) /\ UNCHANGED hostVars
        /\ Smooth /\ UNCHANGED track
    BY DEF TrackStarts, PutFound, PutOpens, Puts, Reads
  <1>2. UNCHANGED <<host_pc, host_track, acked, hosts>> /\ mishaps' \in 0..MaxMishaps
    BY <1>1, FileFacts DEF hostVars
  <1>3. Head(toBoard) = toBoard[1] /\ 1 \in 1..Len(toBoard)
    BY <1>1, FileFacts, TailIs
  <1>4. Fits(toBoard[1])
    BY <1>1, <1>3 DEF FileIInv, CommandsInStep, AllFit
  <1>5. ASSUME NEW content \in Tracks, PutFound(content) PROVE FileIInv'
    <2>1. Head(toBoard) = <<"put", content>> /\ fp_pc' = "check" /\ arriving' = content
          /\ UNCHANGED <<track, part, sounded, toHost>>
      BY <1>5 DEF PutFound, Puts
    <2>2. IsCommand(Head(toBoard)) /\ (host_pc = "put" => content = host_track)
      BY <1>3, <1>4, <2>1 DEF IsCommand, Fits
    <2>3. FileTypeOK' /\ CardInStep' /\ fp_pc' \in Busy
      BY <1>1, <1>2, <2>1 DEF FileIInv, FileTypeOK, CardInStep, Busy
    <2>4. {part, sounded}' \subseteq Seq(Items)
      BY <2>1, FileFacts
    <2> QED BY <1>1, <2>1, <2>2, <2>3, <2>4, TakesCommand
  <1>6. ASSUME NEW content \in Tracks, PutOpens(content) PROVE FileIInv'
    <2>1. Head(toBoard) = <<"put", content>> /\ fp_pc' = "receive" /\ arriving' = content
          /\ part' = <<>> /\ track = <<>> /\ toHost' = Append(toHost, Word("READY"))
          /\ UNCHANGED <<track, sounded>>
      BY <1>6 DEF PutOpens, Puts, Says
    <2>2. IsCommand(Head(toBoard))
      BY <2>1 DEF IsCommand
    <2>3. Len(part') = 0 /\ 0 < Chunks /\ 0 \in 0..Chunks
      BY <2>1, FileFacts
    <2>4. FileTypeOK' /\ CardInStep' /\ fp_pc' \in Busy
      BY <1>1, <1>2, <2>1, <2>3 DEF FileIInv, FileTypeOK, CardInStep, Busy
    <2>5. {part, sounded}' \subseteq Seq(Items)
      BY <2>1, FileFacts
    <2> QED BY <1>1, <2>1, <2>2, <2>4, <2>5, TakesCommand
  <1>7. ASSUME TrackStarts PROVE FileIInv'
    <2>1. Head(toBoard) = <<"play", 0>> /\ fp_pc' = "play" /\ sounded' = <<>>
          /\ UNCHANGED <<track, part, arriving, toHost>>
      BY <1>7 DEF TrackStarts, Word
    <2>2. IsCommand(Head(toBoard)) /\ ~Uploads
      BY <1>3, <1>4, <2>1 DEF IsCommand, Fits
    <2>3. Len(sounded') = 0 /\ Len(track) \in Nat /\ 0 \in 0..Chunks
      BY <2>1, FileFacts
    <2>4. FileTypeOK' /\ CardInStep' /\ fp_pc' \in Busy
      BY <1>1, <1>2, <2>1, <2>3 DEF FileIInv, FileTypeOK, CardInStep, Busy
    <2>5. {part, sounded}' \subseteq Seq(Items)
      BY <2>1, FileFacts
    <2> QED BY <1>1, <2>1, <2>2, <2>4, <2>5, TakesCommand
  <1> QED BY <1>5, <1>6, <1>7

LEMMA FailsAre ==
    ASSUME Fails
    PROVE  /\ fp_pc' = "loop" /\ arriving' = "none" /\ toHost' = Append(toHost, Word("ERROR"))
           /\ UNCHANGED <<track, part, sounded, hostVars>>
           /\ SaysTrue(Word("ERROR"))
  <1>1. Word("ERROR") \in Items /\ Word("ERROR")[1] = "ERROR"
    BY WordsAreItems DEF Words
  <1>2. SaysTrue(Word("ERROR"))
    BY <1>1 DEF SaysTrue
  <1> QED BY <1>2 DEF Fails, Says

\* Whatever ends in fail().
LEMMA FailuresKeep ==
    ASSUME FileIInv, ChunkMissing \/ ChunkNotWritten \/ FoundOther \/ DigestDiffers \/ NotRenamed
    PROVE  FileIInv'
  <1>1. Fails /\ fp_pc \in Busy /\ BoardTakes /\ mishaps' \in 0..MaxMishaps
    <2>1. (Smooth \/ Mishap) => mishaps' \in 0..MaxMishaps
      BY FileFacts
    <2> QED BY <2>1
         DEF ChunkMissing, ChunkNotWritten, FoundOther, DigestDiffers, NotRenamed, Busy, BoardTakes
  <1>2. /\ fp_pc' = "loop" /\ arriving' = "none"
        /\ UNCHANGED <<track, part, sounded, hostVars>>
        /\ \E line : SaysTrue(line) /\ toHost' = Append(toHost, line)
    BY <1>1, FailsAre
  <1>3. FileTypeOK' /\ CardInStep'
    BY <1>1, <1>2 DEF FileIInv, FileTypeOK, CardInStep, hostVars
  <1>4. {track, part, sounded}' \subseteq Seq(Items)
    BY <1>2, FileFacts
  <1>5. fp_pc' \in Busy \cup {"loop"} /\ fp_pc' # "play" /\ fp_pc' # "check"
    BY <1>2
  <1> QED BY <1>1, <1>2, <1>3, <1>4, <1>5, BusyKeeps

LEMMA ChunkStoredKeeps == FileIInv /\ ChunkStored => FileIInv'
  <1> SUFFICES ASSUME FileIInv, ChunkStored PROVE FileIInv'
    OBVIOUS
  <1>1. /\ fp_pc = "receive" /\ toBoard # <<>> /\ toBoard' = Tail(toBoard) /\ UNCHANGED hostVars
        /\ UNCHANGED <<track, arriving, sounded>> /\ (Smooth \/ Mishap)
        /\ part' = Append(part, AsChunk(Head(toBoard))) \/ part' = Append(part, Stray)
        /\ fp_pc' = IF Len(part') = Chunks THEN "verify" ELSE "receive"
        /\ toHost' = Append(toHost, <<"ACK", Len(part')>>)
    BY DEF ChunkStored, Reads, Says
  <1>2. AsChunk(Head(toBoard)) \in Items /\ Stray \in Items
    BY <1>1, FileFacts, TailIs, WordsAreItems DEF AsChunk
  <1>3. part' \in Seq(Items) /\ Len(part') = Len(part) + 1 /\ Len(part) < Chunks
        /\ Len(part) \in Nat
    <2>1. part \in Seq(Items) /\ Len(part) < Chunks
      BY <1>1, FileFacts DEF FileIInv, CardInStep
    <2>2. PICK item \in Items : part' = Append(part, item)
      BY <1>1, <1>2
    <2> QED BY <2>1, <2>2, AppendIs
  <1>4. Len(part') \in 0..Chunks /\ (Len(part') # Chunks => Len(part') < Chunks)
    BY <1>3, FileFacts
  <1>5. mishaps' \in 0..MaxMishaps /\ UNCHANGED <<host_pc, host_track, acked, hosts>>
    BY <1>1, FileFacts DEF hostVars
  <1>6. FileTypeOK' /\ CardInStep'
    BY <1>1, <1>4, <1>5 DEF FileIInv, FileTypeOK, CardInStep
  <1>7. SaysTrue(<<"ACK", Len(part')>>)
    <2>1. Len(part') \in Nat /\ "ACK" \in Words
      BY <1>3 DEF Words
    <2>2. <<"ACK", Len(part')>> \in Items
      BY <2>1, WordsAreItems
    <2> QED BY <2>2 DEF SaysTrue
  <1>8. fp_pc \in Busy /\ fp_pc' \in Busy /\ fp_pc' # "play" /\ fp_pc' # "check" /\ BoardTakes
    BY <1>1 DEF Busy, BoardTakes
  <1>9. {track, part, sounded}' \subseteq Seq(Items)
    BY <1>1, <1>3, FileFacts
  <1>10. \E line : SaysTrue(line) /\ toHost' = Append(toHost, line)
    BY <1>1, <1>7
  <1> QED BY <1>1, <1>6, <1>8, <1>9, <1>10, BusyKeeps

LEMMA DigestsKeep == FileIInv /\ (FoundEqual \/ DigestAgrees \/ Renamed) => FileIInv'
  <1>1. ASSUME FileIInv, FoundEqual PROVE FileIInv'
    <2>1. /\ fp_pc = "check" /\ track = Whole(arriving) /\ fp_pc' = "loop" /\ arriving' = "none"
          /\ toHost' = Append(toHost, Word("EXISTS")) /\ mishaps' = mishaps
          /\ UNCHANGED <<track, part, sounded, toBoard, hostVars>>
      BY <1>1 DEF FoundEqual, Says, Smooth
    <2>2. FileTypeOK' /\ CardInStep'
      BY <1>1, <2>1 DEF FileIInv, FileTypeOK, CardInStep, hostVars
    <2>3. SaysTrue(Word("EXISTS"))
      <3>1. Word("EXISTS") \in Items /\ Word("EXISTS")[1] = "EXISTS"
        BY WordsAreItems DEF Words
      <3> QED BY <2>1, <3>1 DEF SaysTrue
    <2>4. \E line : SaysTrue(line) /\ toHost' = Append(toHost, line)
      BY <2>1, <2>3
    <2>5. fp_pc \in Busy /\ fp_pc' \in Busy \cup {"loop"} /\ fp_pc' # "play" /\ fp_pc' # "check"
          /\ BoardTakes
      BY <2>1 DEF Busy, BoardTakes
    <2>6. {track, part, sounded}' \subseteq Seq(Items)
      BY <1>1, <2>1, FileFacts
    <2> QED BY <1>1, <2>1, <2>2, <2>4, <2>5, <2>6, BusyKeeps
  <1>2. ASSUME FileIInv, DigestAgrees PROVE FileIInv'
    <2>1. /\ fp_pc = "verify" /\ part = Whole(arriving) /\ fp_pc' = "rename"
          /\ UNCHANGED <<track, part, arriving, sounded, toBoard, toHost, hostVars, mishaps>>
      BY <1>2 DEF DigestAgrees
    <2>2. FileTypeOK' /\ CardInStep'
      BY <1>2, <2>1 DEF FileIInv, FileTypeOK, CardInStep, hostVars
    <2>3. fp_pc \in Busy /\ fp_pc' \in Busy \cup {"loop"} /\ fp_pc' # "play" /\ fp_pc' # "check"
          /\ BoardTakes
      BY <2>1 DEF Busy, BoardTakes
    <2>4. {track, part, sounded}' \subseteq Seq(Items)
      BY <1>2, <2>1, FileFacts
    <2> QED BY <1>2, <2>1, <2>2, <2>3, <2>4, BusyKeeps
  <1>3. ASSUME FileIInv, Renamed PROVE FileIInv'
    <2>1. /\ fp_pc = "rename" /\ track' = part /\ part' = <<>> /\ fp_pc' = "loop"
          /\ arriving' = "none" /\ toHost' = Append(toHost, <<"SAVED", arriving>>)
          /\ UNCHANGED <<sounded, toBoard, hostVars, mishaps>>
      BY <1>3 DEF Renamed, Says
    <2>2. track = <<>> /\ part = Whole(arriving) /\ arriving \in Tracks
      BY <1>3, <2>1 DEF FileIInv, CardInStep
    <2>3. FileTypeOK' /\ CardInStep'
      <3>1. Len(part') \in 0..Chunks
        BY <1>3, <2>1, FileFacts
      <3> QED BY <1>3, <2>1, <2>2, <3>1 DEF FileIInv, FileTypeOK, CardInStep, hostVars
    <2>4. SaysTrue(<<"SAVED", arriving>>)
      <3>1. <<"SAVED", arriving>> \in Items
        BY <2>2, WordsAreItems DEF Words
      <3> QED BY <2>1, <2>2, <3>1 DEF SaysTrue
    <2>5. \E line : SaysTrue(line) /\ toHost' = Append(toHost, line)
      BY <2>1, <2>4
    <2>6. fp_pc \in Busy /\ fp_pc' \in Busy \cup {"loop"} /\ fp_pc' # "play" /\ fp_pc' # "check"
          /\ BoardTakes
      BY <2>1 DEF Busy, BoardTakes
    <2>7. {track, part, sounded}' \subseteq Seq(Items)
      BY <1>3, <2>1, FileFacts
    <2> QED BY <1>3, <2>1, <2>2, <2>3, <2>5, <2>6, <2>7, BusyKeeps
  <1> QED BY <1>1, <1>2, <1>3

\* Of the playback, only one that ends with the track says it is done.
LEMMA PlaybackKeeps == FileIInv /\ (PlayStops \/ PlayChunk \/ PlayFails \/ PlayDone) => FileIInv'
  <1> SUFFICES ASSUME FileIInv, PlayStops \/ PlayChunk \/ PlayFails \/ PlayDone PROVE FileIInv'
    OBVIOUS
  <1>1. fp_pc = "play" /\ BoardTakes /\ UNCHANGED <<track, part, arriving, hostVars>>
        /\ (Smooth \/ Mishap)
    BY DEF PlayStops, PlayChunk, PlayFails, PlayDone, Turns, Reads, BoardTakes
  <1>2. mishaps' \in 0..MaxMishaps /\ UNCHANGED <<host_pc, host_track, acked, hosts>>
    BY <1>1, FileFacts DEF hostVars
  <1>3. \A word \in {"AUDIO", "FAILED", "STOPPED"} : SaysTrue(Word(word))
    <2> SUFFICES ASSUME NEW word \in {"AUDIO", "FAILED", "STOPPED"} PROVE SaysTrue(Word(word))
      OBVIOUS
    <2>1. Word(word) \in Items /\ Word(word)[1] = word
      BY WordsAreItems DEF Words
    <2> QED BY <2>1 DEF SaysTrue
  <1>4. fp_pc \in Busy /\ {"play", "loop"} \subseteq Busy \cup {"loop"}
    BY <1>1 DEF Busy
  <1>5. CASE fp_pc' = "play" /\ PlayChunk
    <2>1. /\ Len(sounded) < Len(track) /\ sounded' = Append(sounded, track[Len(sounded) + 1])
          /\ toHost' = toHost \/ toHost' = Append(toHost, Word("AUDIO"))
      BY <1>5 DEF PlayChunk, Says
    <2>2. Len(sounded) + 1 \in 1..Len(track) /\ Len(sounded) \in Nat /\ Len(track) <= Chunks
          /\ track \in Seq(Items) /\ sounded \in Seq(Items)
      BY <2>1, FileFacts
    <2>3. track[Len(sounded) + 1] \in Items
      BY <2>2
    <2>4. /\ sounded' \in Seq(Items) /\ Len(sounded') = Len(sounded) + 1
          /\ \A n \in 1..Len(sounded) : sounded'[n] = sounded[n]
          /\ sounded'[Len(sounded) + 1] = track[Len(sounded) + 1]
          /\ \A n \in 1..Len(sounded') : n = Len(sounded) + 1 \/ n \in 1..Len(sounded)
      BY <2>1, <2>2, <2>3, AppendIs
    <2>5. Len(sounded') <= Len(track) /\ Len(sounded') \in 0..Chunks
      BY <2>2, <2>4, FileFacts
    <2>6. \A n \in 1..Len(sounded') : sounded'[n] = track[n]
      BY <1>1, <2>4 DEF FileIInv, CardInStep
    <2>7. FileTypeOK' /\ CardInStep'
      BY <1>1, <1>2, <1>5, <2>5, <2>6 DEF FileIInv, FileTypeOK, CardInStep
    <2>8. {track, part, sounded}' \subseteq Seq(Items)
      BY <1>1, <2>4, FileFacts
    <2>9. toHost' = toHost \/ \E line : SaysTrue(line) /\ toHost' = Append(toHost, line)
      BY <1>3, <2>1
    <2> QED BY <1>1, <1>4, <1>5, <2>7, <2>8, <2>9, BusyKeeps
  <1>6. CASE fp_pc' = "loop" /\ sounded' = sounded /\ (PlayStops \/ PlayFails \/ PlayDone)
    <2>1. FileTypeOK' /\ CardInStep'
      BY <1>1, <1>2, <1>6 DEF FileIInv, FileTypeOK, CardInStep
    <2>2. {track, part, sounded}' \subseteq Seq(Items)
      BY <1>1, <1>6, FileFacts
    <2>3. \E line : SaysTrue(line) /\ toHost' = Append(toHost, line)
      <3>1. CASE PlayStops
        BY <1>3, <3>1 DEF PlayStops, PlayEnds, Ended, Says
      <3>2. CASE PlayFails
        BY <1>3, <3>2 DEF PlayFails, PlayEnds, Says
      <3>3. CASE PlayDone
        <4>1. Len(sounded) = Len(track) /\ toHost' = Append(toHost, Ended("DONE"))
          BY <3>3 DEF PlayDone, PlayEnds, Says
        <4>2. sounded = track
          <5>1. \A n \in 1..Len(sounded) : sounded[n] = track[n]
            BY <1>1 DEF FileIInv, CardInStep
          <5> QED BY <4>1, <5>1, FileFacts, SeqEqual
        <4>3. SaysTrue(Word("DONE"))
          <5>1. Word("DONE") \in Items /\ Word("DONE")[1] = "DONE"
            BY WordsAreItems DEF Words
          <5> QED BY <1>1, <1>6, <4>2, <5>1 DEF SaysTrue
        <4> QED BY <1>3, <4>1, <4>3 DEF Ended
      <3> QED BY <1>6, <3>1, <3>2, <3>3
    <2> QED BY <1>1, <1>4, <1>6, <2>1, <2>2, <2>3, BusyKeeps
  <1> QED BY <1>5, <1>6 DEF PlayStops, PlayChunk, PlayFails, PlayDone, PlayEnds

-----------------------------------------------------------------------------
(* Resets and noise.                                                        *)

LEMMA BootsAre ==
    ASSUME FileIInv, NEW line \in Banners, Boots(line)
    PROVE  /\ fp_pc' \in {"loop", "down"} /\ UNCHANGED <<track, sounded>> /\ arriving' = "none"
           /\ part' \in Seq(Items) /\ Len(part') \in 0..Chunks
           /\ line \in Items /\ IsQuiet(line)
  <1>1. PICK n \in 0..Len(part) : part' = SubSeq(part, 1, n)
    BY DEF Boots
  <1>2. part \in Seq(Items) /\ Len(part) \in 0..Chunks /\ Len(part) \in Nat /\ n \in Nat
    BY FileFacts, <1>1, LenProperties
  <1>3. part' \in Seq(Items) /\ Len(part') = n
    <2>1. \A i \in 1..n : part[i] \in Items
      BY <1>1, <1>2
    <2>2. part' = [i \in 1..n |-> part[i]]
      BY <1>1, <1>2
    <2> QED BY <1>2, <2>1, <2>2
  <1>4. Len(part') \in 0..Chunks
    BY <1>1, <1>2, <1>3, FileFacts
  <1>5. /\ Word("SD READY") \in Items /\ Word("SD READY")[1] = "SD READY"
        /\ Word("ERROR") \in Items /\ Word("ERROR")[1] = "ERROR"
    BY WordsAreItems DEF Words
  <1>6. line \in Items /\ IsQuiet(line)
    BY <1>5 DEF Banners, IsQuiet, QuietWords
  <1> QED BY <1>3, <1>4, <1>6 DEF Boots

LEMMA Nothing ==
    /\ <<>> \in Seq(Items) /\ Len(<<>>) = 0
    /\ NoCommands(<<>>) /\ OneCommand(<<>>) /\ QuietAfterReady(<<>>)
    /\ \A words : ~Has(<<>>, words)
  <1>1. <<>> \in Seq(Items) /\ Len(<<>>) = 0 /\ \A i \in 1..0 : FALSE
    OBVIOUS
  <1> QED BY <1>1 DEF NoCommands, OneCommand, QuietAfterReady, Has

LEMMA NoneFits == \A port : NoCommands(port) => OneCommand(port) /\ AllFit(port)
  BY DEF NoCommands, OneCommand, AllFit, Fits

LEMMA ResetKeeps == FileIInv /\ BoardReset => FileIInv'
  <1> SUFFICES ASSUME FileIInv, BoardReset PROVE FileIInv'
    OBVIOUS
  <1>1. PICK line \in Banners : Boots(line) /\ toHost' = Append(toHost, line)
    BY DEF BoardReset, Says
  <1>2. /\ fp_pc' \in {"loop", "down"} /\ UNCHANGED <<track, sounded>> /\ arriving' = "none"
        /\ part' \in Seq(Items) /\ Len(part') \in 0..Chunks
        /\ line \in Items /\ IsQuiet(line)
    BY <1>1, BootsAre
  <1>3. /\ toBoard' = <<>> /\ UNCHANGED <<host_pc, host_track, acked, hosts>>
        /\ mishaps' \in 0..MaxMishaps
    BY FileFacts DEF BoardReset, hostVars
  <1>4. {toHost, track, sounded} \subseteq Seq(Items)
    BY FileFacts
  <1>5. /\ toHost' \in Seq(Items)
        /\ \A words : Has(toHost', words) <=> Has(toHost, words) \/ line[1] \in words
        /\ QuietAfterReady(toHost) => QuietAfterReady(toHost')
        /\ ~Has(toHost, {"SD READY"}) => QuietAfterReady(toHost')
    BY <1>1, <1>2, <1>4, AppendIs, AddedKeeps
  <1>6. NoCommands(toBoard') /\ OneCommand(toBoard') /\ AllFit(toBoard)' /\ AtRest'
    <2>1. NoCommands(toBoard') /\ AtRest'
      BY <1>2, <1>3, Nothing DEF AtRest, Busy
    <2>2. AllFit(toBoard)'
      BY <2>1 DEF NoCommands, AllFit, Fits
    <2> QED BY <2>1, <2>2, NoneFits
  <1>7. line[1] \notin {"EXISTS", "SAVED", "DONE"}
    BY <1>2 DEF IsQuiet, QuietWords
  <1>8. FileTypeOK' /\ CardInStep' /\ HostIsRight'
    BY <1>2, <1>3 DEF FileIInv, FileTypeOK, CardInStep, HostIsRight
  <1>9. FileSeqs'
    BY <1>2, <1>3, <1>4, <1>5, Nothing DEF FileSeqs
  <1>10. CommandsInStep'
    BY <1>6 DEF CommandsInStep
  <1>11. StatusAnswered'
    BY <1>2, <1>3, <1>5 DEF FileIInv, StatusAnswered, Busy
  <1>12. SavedIsThere'
    <2>1. \A i \in 1..Len(toHost') :
              \/ toHost'[i] = line
              \/ i \in 1..Len(toHost) /\ toHost'[i] = toHost[i]
      BY <1>1, <1>2, <1>4, AppendIs
    <2>2. \A i \in 1..Len(toHost) : toHost[i][1] = "SAVED" => track = Whole(toHost[i][2])
      BY DEF FileIInv, SavedIsThere
    <2>3. line[1] # "SAVED"
      BY <1>7
    <2> QED BY <1>2, <2>1, <2>2, <2>3 DEF SavedIsThere
  <1>13. PutAnswered' /\ PlayAnswered'
    BY <1>2, <1>3, <1>5, <1>6, <1>7 DEF FileIInv, PutAnswered, PlayAnswered, Uploads
  <1> QED BY <1>8, <1>9, <1>10, <1>11, <1>12, <1>13 DEF FileIInv

LEMMA NoiseKeeps == FileIInv /\ PortSpoils => FileIInv'
  <1> SUFFICES ASSUME FileIInv, PortSpoils PROVE FileIInv'
    OBVIOUS
  <1>1. /\ UNCHANGED <<fp_pc, track, part, arriving, sounded>>
        /\ UNCHANGED <<host_pc, host_track, acked, hosts>> /\ mishaps' \in 0..MaxMishaps
    BY FileFacts DEF PortSpoils, boardVars, hostVars
  <1>2. {toBoard, toHost, track, part, sounded} \subseteq Seq(Items)
    BY FileFacts
  <1>3. FileTypeOK' /\ CardInStep' /\ HostIsRight'
    BY <1>1 DEF FileIInv, FileTypeOK, CardInStep, HostIsRight
  <1>4. CASE Spoiled(toBoard) /\ toHost' = toHost
    <2>1. PICK n \in 1..Len(toBoard) : toBoard' = [toBoard EXCEPT ![n] = Stray]
      BY <1>4 DEF Spoiled
    <2>2. /\ toBoard' \in Seq(Items) /\ Len(toBoard') = Len(toBoard)
          /\ \A i \in 1..Len(toBoard) : toBoard'[i] = toBoard[i] \/ toBoard'[i] = <<"stray", 0>>
          /\ NoCommands(toBoard) => NoCommands(toBoard')
          /\ OneCommand(toBoard) => OneCommand(toBoard')
      BY <1>2, <2>1, SpoiledKeeps
    <2>3. AllFit(toBoard) => AllFit(toBoard)'
      BY <1>1, <2>2 DEF AllFit, Fits, IsCommand, Uploads
    <2>4. CommandsInStep' /\ (AtRest => AtRest')
      BY <1>1, <2>2, <2>3 DEF FileIInv, CommandsInStep, AtRest
    <2>5. StatusAnswered' /\ SavedIsThere'
      BY <1>1, <1>4 DEF FileIInv, StatusAnswered, SavedIsThere
    <2>6. PutAnswered' /\ PlayAnswered'
      BY <1>1, <1>4, <2>4 DEF FileIInv, PutAnswered, PlayAnswered, Uploads
    <2> QED BY <1>1, <1>2, <1>3, <1>4, <2>2, <2>4, <2>5, <2>6 DEF FileIInv, FileSeqs
  <1>5. CASE Spoiled(toHost) /\ toBoard' = toBoard
    <2>1. PICK n \in 1..Len(toHost) : toHost' = [toHost EXCEPT ![n] = Stray]
      BY <1>5 DEF Spoiled
    <2>2. /\ toHost' \in Seq(Items) /\ Len(toHost') = Len(toHost)
          /\ \A i \in 1..Len(toHost) : toHost'[i] = toHost[i] \/ toHost'[i] = <<"stray", 0>>
          /\ \A words : "stray" \notin words /\ Has(toHost', words) => Has(toHost, words)
          /\ QuietAfterReady(toHost) => QuietAfterReady(toHost')
      BY <1>2, <2>1, SpoiledKeeps
    <2>3. CommandsInStep' /\ (AtRest => AtRest')
      BY <1>1, <1>5 DEF FileIInv, CommandsInStep, AllFit, Fits, Uploads, AtRest
    <2>4. SavedIsThere'
      BY <1>1, <2>2 DEF FileIInv, SavedIsThere
    <2>5. StatusAnswered'
      BY <1>1, <2>2 DEF FileIInv, StatusAnswered
    <2>6. PutAnswered' /\ PlayAnswered'
      BY <1>1, <2>2, <2>3 DEF FileIInv, PutAnswered, PlayAnswered, Uploads
    <2> QED BY <1>1, <1>2, <1>3, <1>5, <2>2, <2>3, <2>4, <2>5, <2>6 DEF FileIInv, FileSeqs
  <1> QED BY <1>4, <1>5 DEF PortSpoils

-----------------------------------------------------------------------------
(* The host.                                                                *)

LEMMA HostTaken ==
    ASSUME FileIInv, toHost # <<>>, toHost' = Tail(toHost), track' = track
    PROVE  /\ toHost' \in Seq(Items) /\ SavedIsThere'
           /\ \A words : Has(toHost', words) => Has(toHost, words)
           /\ \A words : Head(toHost)[1] \in words => Has(toHost, words)
           /\ QuietAfterReady(toHost) => QuietAfterReady(toHost')
           /\ IsReady(Head(toHost)) /\ QuietAfterReady(toHost) =>
                 ~Has(toHost', {"EXISTS"}) /\ ~Has(toHost', {"SAVED"}) /\ ~Has(toHost', {"DONE"})
           /\ Head(toHost)[1] = "SAVED" => track = Whole(Head(toHost)[2])
  <1>1. toHost \in Seq(Items)
    BY FileFacts
  <1>2. \A i \in 1..Len(toHost') : toHost'[i] = toHost[i + 1] /\ i + 1 \in 1..Len(toHost)
    BY <1>1, TailIs
  <1>3. Head(toHost) = toHost[1] /\ 1 \in 1..Len(toHost) /\ toHost' \in Seq(Items)
    BY <1>1, TailIs
  <1>4. \A i \in 1..Len(toHost) : toHost[i][1] = "SAVED" => track = Whole(toHost[i][2])
    BY DEF FileIInv, SavedIsThere
  <1>5. SavedIsThere'
    BY <1>2, <1>4 DEF SavedIsThere
  <1>6. ASSUME IsReady(Head(toHost)), QuietAfterReady(toHost)
        PROVE  ~Has(toHost', {"EXISTS"}) /\ ~Has(toHost', {"SAVED"}) /\ ~Has(toHost', {"DONE"})
    <2>1. \A i \in 1..Len(toHost') : IsQuiet(toHost'[i])
      BY <1>1, <1>6, TakenKeeps
    <2> QED BY <2>1 DEF Has, IsQuiet, QuietWords
  <1>7. \A words : Head(toHost)[1] \in words => Has(toHost, words)
    BY <1>3 DEF Has
  <1> QED BY <1>1, <1>3, <1>4, <1>5, <1>6, <1>7, TakenKeeps

LEMMA HostAdded ==
    ASSUME FileIInv, NEW item \in Items, toBoard' = Append(toBoard, item)
    PROVE  /\ toBoard' \in Seq(Items)
           /\ NoCommands(toBoard) => OneCommand(toBoard')
           /\ ~IsCommand(item) => /\ NoCommands(toBoard) => NoCommands(toBoard')
                                  /\ OneCommand(toBoard) => OneCommand(toBoard')
           /\ \A i \in 1..Len(toBoard') :
                 \/ toBoard'[i] = item
                 \/ i \in 1..Len(toBoard) /\ toBoard'[i] = toBoard[i]
  <1>1. toBoard \in Seq(Items)
    BY FileFacts
  <1>2. \A i \in 1..Len(toBoard') :
            \/ toBoard'[i] = item
            \/ i \in 1..Len(toBoard) /\ toBoard'[i] = toBoard[i]
    BY <1>1, AppendIs
  <1>3. toBoard' \in Seq(Items)
    BY <1>1, AppendIs
  <1> QED BY <1>1, <1>2, <1>3, AddedKeeps

\* A step of the host that gives no command.
LEMMA NoCommandKeeps ==
    ASSUME FileIInv, UNCHANGED <<fp_pc, host_track>>,
           \/ toBoard' = toBoard
           \/ \E item \in Items : ~IsCommand(item) /\ toBoard' = Append(toBoard, item),
           host_pc' = "status" => host_pc = "status",
           Uploads' => Uploads
    PROVE  CommandsInStep' /\ (AtRest => AtRest') /\ toBoard' \in Seq(Items)
  <1>1. /\ toBoard' \in Seq(Items)
        /\ NoCommands(toBoard) => NoCommands(toBoard')
        /\ OneCommand(toBoard) => OneCommand(toBoard')
        /\ \A i \in 1..Len(toBoard') :
              \/ ~IsCommand(toBoard'[i])
              \/ i \in 1..Len(toBoard) /\ toBoard'[i] = toBoard[i]
    <2>1. CASE toBoard' = toBoard
      BY <2>1, FileFacts
    <2>2. CASE \E item \in Items : ~IsCommand(item) /\ toBoard' = Append(toBoard, item)
      <3>1. PICK item \in Items : ~IsCommand(item) /\ toBoard' = Append(toBoard, item)
        BY <2>2
      <3> QED BY <3>1, HostAdded
    <2> QED BY <2>1, <2>2
  <1>2. AllFit(toBoard) => AllFit(toBoard)'
    <2> SUFFICES ASSUME AllFit(toBoard), NEW i \in 1..Len(toBoard') PROVE Fits(toBoard[i])'
      BY DEF AllFit
    <2>1. CASE ~IsCommand(toBoard'[i])
      BY <2>1 DEF Fits
    <2>2. CASE i \in 1..Len(toBoard) /\ toBoard'[i] = toBoard[i]
      <3>1. Fits(toBoard[i])
        BY <2>2 DEF AllFit
      <3> QED BY <2>2, <3>1 DEF Fits
    <2> QED BY <1>1, <2>1, <2>2
  <1> QED BY <1>1, <1>2 DEF FileIInv, CommandsInStep, AtRest

\* A new host finds the board without a command for it.
LEMMA BeginsKeep ==
    ASSUME FileIInv, NEW content \in Tracks, HostStarts(content) \/ HostResets(content)
    PROVE  FileIInv'
  <1>1. /\ host_pc' = "status" /\ host_track' = content /\ acked' = 0
        /\ hosts < MaxHosts /\ hosts' = hosts + 1 /\ mishaps' = mishaps
        /\ fp_pc = "loop" => toBoard = <<>>
    BY DEF HostStarts, HostResets, HostBegins, Smooth
  <1>2. hosts' \in 0..MaxHosts /\ 0 \in 0..Chunks /\ 0 < Chunks
    BY <1>1, TracksAreNames DEF FileIInv, FileTypeOK
  <1>3. Word("status") \in Items /\ ~IsCommand(Word("status"))
    <2>1. Word("status") \in Items /\ Word("status")[1] = "status"
      BY WordsAreItems DEF Words
    <2> QED BY <2>1 DEF IsCommand
  <1>4. {toBoard, toHost, track, part, sounded} \subseteq Seq(Items)
    BY FileFacts
  <1>5. PutAnswered' /\ PlayAnswered' /\ HostIsRight'
    BY <1>1 DEF PutAnswered, PlayAnswered, HostIsRight, Uploads
  <1>6. CASE HostStarts(content)
    <2>1. toHost' = <<>> /\ toBoard' = Append(toBoard, Word("status"))
          /\ UNCHANGED <<fp_pc, track, part, arriving, sounded>>
      BY <1>6 DEF HostStarts, Types, boardVars
    <2>2. fp_pc \in Busy \cup {"loop"} => NoCommands(toBoard)
      BY <1>1, Nothing DEF FileIInv, CommandsInStep
    <2>3. toBoard' \in Seq(Items) /\ (NoCommands(toBoard) => NoCommands(toBoard'))
      BY <1>3, <2>1, HostAdded
    <2>4. CommandsInStep'
      <3>1. NoCommands(toBoard') => OneCommand(toBoard') /\ AllFit(toBoard)'
        BY DEF NoCommands, OneCommand, AllFit, Fits
      <3> QED BY <2>1, <2>2, <2>3, <3>1 DEF CommandsInStep
    <2>5. FileTypeOK' /\ CardInStep'
      BY <1>1, <1>2, <2>1 DEF FileIInv, FileTypeOK, CardInStep
    <2>6. StatusAnswered' /\ SavedIsThere'
      <3>1. Len(toHost') = 0 /\ \A i \in 1..0 : FALSE
        BY <2>1
      <3> QED BY <3>1 DEF StatusAnswered, SavedIsThere, Has
    <2>7. FileSeqs'
      BY <1>4, <2>1, <2>3, Nothing DEF FileSeqs
    <2> QED BY <1>5, <2>4, <2>5, <2>6, <2>7 DEF FileIInv
  <1>7. CASE HostResets(content)
    <2>1. PICK line \in Banners : Boots(line) /\ toHost' = <<line>>
      BY <1>7 DEF HostResets
    <2>2. /\ fp_pc' \in {"loop", "down"} /\ UNCHANGED <<track, sounded>> /\ arriving' = "none"
          /\ part' \in Seq(Items) /\ Len(part') \in 0..Chunks
          /\ line \in Items /\ IsQuiet(line)
      BY <2>1, BootsAre
    <2>3. toBoard' = <<Word("status")>>
      BY <1>7 DEF HostResets
    <2>4. toBoard' \in Seq(Items) /\ \A i \in 1..Len(toBoard') : toBoard'[i] = Word("status")
      BY <1>3, <2>3
    <2>5. toHost' \in Seq(Items) /\ \A i \in 1..Len(toHost') : toHost'[i] = line
      BY <2>1, <2>2
    <2>6. CommandsInStep'
      <3>1. NoCommands(toBoard')
        BY <1>3, <2>4 DEF NoCommands
      <3>2. NoCommands(toBoard') => OneCommand(toBoard') /\ AllFit(toBoard)'
        BY DEF NoCommands, OneCommand, AllFit, Fits
      <3> QED BY <3>1, <3>2 DEF CommandsInStep
    <2>7. FileTypeOK' /\ CardInStep'
      BY <1>1, <1>2, <2>2 DEF FileIInv, FileTypeOK, CardInStep
    <2>8. StatusAnswered' /\ SavedIsThere'
      <3>1. fp_pc' \notin Busy
        BY <2>2 DEF Busy
      <3>2. QuietAfterReady(toHost')
        BY <2>2, <2>5 DEF QuietAfterReady
      <3>3. line[1] # "SAVED"
        BY <2>2 DEF IsQuiet, QuietWords
      <3> QED BY <2>5, <3>1, <3>2, <3>3 DEF StatusAnswered, SavedIsThere
    <2>9. FileSeqs'
      BY <1>4, <2>2, <2>4, <2>5 DEF FileSeqs
    <2> QED BY <1>5, <2>6, <2>7, <2>8, <2>9 DEF FileIInv
  <1> QED BY <1>6, <1>7

\* The answer to status is the last of what came before: the put finds a board at rest.
LEMMA PutKeeps == FileIInv /\ HostPuts => FileIInv'
  <1> SUFFICES ASSUME FileIInv, HostPuts PROVE FileIInv'
    OBVIOUS
  <1>1. /\ host_pc = "status" /\ toHost # <<>> /\ Head(toHost) = <<"SD READY", 0>>
        /\ toHost' = Tail(toHost) /\ host_pc' = "put" /\ acked' = acked
        /\ toBoard' = Append(toBoard, <<"put", host_track>>)
        /\ UNCHANGED <<fp_pc, track, part, arriving, sounded, host_track, hosts, mishaps>>
    BY DEF HostPuts, Awaits, Goes, Types, Word, boardVars
  <1>2. IsReady(Head(toHost)) /\ Head(toHost)[1] \in {"SD READY"}
    <2>1. <<"SD READY", 0>>[1] = "SD READY"
      OBVIOUS
    <2>2. Head(toHost)[1] = "SD READY"
      BY <1>1, <2>1, Zenon
    <2> QED BY <2>2 DEF IsReady
  <1>3. /\ toHost' \in Seq(Items) /\ SavedIsThere' /\ Has(toHost, {"SD READY"})
        /\ QuietAfterReady(toHost) =>
              ~Has(toHost', {"EXISTS"}) /\ ~Has(toHost', {"SAVED"}) /\ ~Has(toHost', {"DONE"})
    BY <1>1, <1>2, HostTaken
  <1>4. fp_pc \notin Busy /\ QuietAfterReady(toHost)
    BY <1>1, <1>3 DEF FileIInv, StatusAnswered
  <1>5. fp_pc = "loop" => NoCommands(toBoard)
    BY <1>1 DEF FileIInv, CommandsInStep, NoCommands, AllFit, Fits
  <1> DEFINE item == <<"put", host_track>>
  <1>6. item \in Items /\ item[1] = "put"
    <2>1. host_track \in Tracks \cup Nat /\ "put" \in Words
      BY FileFacts DEF Words
    <2> QED BY <2>1, WordsAreItems
  <1>7. /\ toBoard' \in Seq(Items)
        /\ NoCommands(toBoard) => OneCommand(toBoard')
        /\ \A i \in 1..Len(toBoard') :
              \/ toBoard'[i] = item
              \/ i \in 1..Len(toBoard) /\ toBoard'[i] = toBoard[i]
    BY <1>1, <1>6, HostAdded
  <1>8. NoCommands(toBoard) => AllFit(toBoard)'
    <2> SUFFICES ASSUME NoCommands(toBoard), NEW i \in 1..Len(toBoard') PROVE Fits(toBoard[i])'
      BY DEF AllFit
    <2>1. CASE toBoard'[i] = item
      BY <1>1, <1>6, <2>1 DEF Fits
    <2>2. CASE i \in 1..Len(toBoard) /\ toBoard'[i] = toBoard[i]
      BY <2>2 DEF Fits, NoCommands
    <2> QED BY <1>7, <2>1, <2>2
  <1>9. CommandsInStep'
    BY <1>1, <1>4, <1>5, <1>7, <1>8 DEF CommandsInStep
  <1>10. ~Has(toHost', {"EXISTS", "SAVED"})
    BY <1>3, <1>4 DEF Has
  <1>11. PutAnswered'
    BY <1>1, <1>3, <1>4, <1>10 DEF PutAnswered, Uploads, Busy
  <1>12. FileTypeOK' /\ CardInStep' /\ StatusAnswered' /\ PlayAnswered' /\ HostIsRight'
    BY <1>1 DEF FileIInv, FileTypeOK, CardInStep, StatusAnswered, PlayAnswered, HostIsRight
  <1>13. FileSeqs'
    BY <1>1, <1>3, <1>7, FileFacts DEF FileSeqs
  <1> QED BY <1>3, <1>9, <1>11, <1>12, <1>13 DEF FileIInv

\* The chunks are no commands.
LEMMA ChunksKeep == FileIInv /\ (HostSendsFirst \/ HostSendsNext) => FileIInv'
  <1> SUFFICES ASSUME FileIInv, HostSendsFirst \/ HostSendsNext PROVE FileIInv'
    OBVIOUS
  <1>1. /\ host_pc \in {"put", "ack"} /\ toHost # <<>> /\ toHost' = Tail(toHost)
        /\ UNCHANGED <<fp_pc, track, part, arriving, sounded, host_track, hosts, mishaps>>
    BY DEF HostSendsFirst, HostSendsNext, Awaits, boardVars
  <1>2. acked < Chunks /\ acked \in 0..Chunks /\ Chunks \in Nat
    BY <1>1, FileFacts DEF FileIInv, CardInStep, FileTypeOK
  <1>3. /\ host_pc' \in {"ack", "saved"} /\ acked' \in 0..Chunks
        /\ host_pc' = "ack" => acked' < Chunks
    BY <1>2 DEF HostSendsFirst, HostSendsNext, Goes
  <1>4. \/ toBoard' = toBoard
        \/ \E item \in Items : ~IsCommand(item) /\ toBoard' = Append(toBoard, item)
    <2>1. \A n \in Nat : Chunk(host_track, n) \in Items /\ ~IsCommand(Chunk(host_track, n))
      BY FileFacts, WordsAreItems, TracksAreNames DEF IsCommand, Chunk
    <2>2. acked' + 1 \in Nat
      <3>1. \A n \in 0..Chunks : n + 1 \in Nat
        BY TracksAreNames
      <3> QED BY <1>3, <3>1
    <2> QED BY <2>1, <2>2 DEF HostSendsFirst, HostSendsNext, Types
  <1>5. Uploads /\ Uploads' /\ host_pc' \notin {"status", "put"}
    BY <1>1, <1>3 DEF Uploads
  <1>6. CommandsInStep' /\ (AtRest => AtRest') /\ toBoard' \in Seq(Items)
    BY <1>1, <1>4, <1>5, NoCommandKeeps
  <1>7. toHost' \in Seq(Items) /\ SavedIsThere' /\ \A words : Has(toHost', words) => Has(toHost, words)
    BY <1>1, HostTaken
  <1>8. FileTypeOK' /\ CardInStep'
    BY <1>1, <1>3 DEF FileIInv, FileTypeOK, CardInStep
  <1>9. StatusAnswered' /\ PlayAnswered' /\ HostIsRight'
    BY <1>1, <1>3 DEF StatusAnswered, PlayAnswered, HostIsRight
  <1>10. PutAnswered'
    BY <1>1, <1>5, <1>6, <1>7 DEF FileIInv, PutAnswered
  <1>11. FileSeqs'
    BY <1>1, <1>6, <1>7, FileFacts DEF FileSeqs
  <1> QED BY <1>6, <1>7, <1>8, <1>9, <1>10, <1>11 DEF FileIInv

\* Told that the track is there, the host finds a board at rest that has it.
LEMMA PlayKeeps == FileIInv /\ HostPlays => FileIInv'
  <1> SUFFICES ASSUME FileIInv, HostPlays PROVE FileIInv'
    OBVIOUS
  <1>1. /\ \/ host_pc = "put" /\ Head(toHost) = <<"EXISTS", 0>>
           \/ host_pc = "saved" /\ Head(toHost) = <<"SAVED", host_track>>
        /\ toHost # <<>> /\ toHost' = Tail(toHost) /\ host_pc' = "audio" /\ acked' = acked
        /\ toBoard' = Append(toBoard, <<"play", 0>>)
        /\ UNCHANGED <<fp_pc, track, part, arriving, sounded, host_track, hosts, mishaps>>
    BY DEF HostPlays, Awaits, Goes, Types, Word, boardVars
  <1>2. /\ toHost' \in Seq(Items) /\ SavedIsThere'
        /\ \A words : Has(toHost', words) => Has(toHost, words)
        /\ \A words : Head(toHost)[1] \in words => Has(toHost, words)
        /\ Head(toHost)[1] = "SAVED" => track = Whole(Head(toHost)[2])
    BY <1>1, HostTaken
  <1>3. Uploads /\ Has(toHost, {"EXISTS", "SAVED"})
        /\ (Head(toHost)[1] = "EXISTS" => Has(toHost, {"EXISTS"}))
    BY <1>1, <1>2 DEF Uploads
  <1>4. AtRest /\ ~Has(toHost, {"DONE"})
    BY <1>3 DEF FileIInv, PutAnswered
  <1>5. track = Whole(host_track)
    <2>1. CASE host_pc = "put" /\ Head(toHost) = <<"EXISTS", 0>>
      <3>1. Has(toHost, {"EXISTS"})
        BY <1>3, <2>1
      <3> QED BY <1>3, <2>1, <3>1 DEF FileIInv, PutAnswered
    <2>2. CASE host_pc = "saved" /\ Head(toHost) = <<"SAVED", host_track>>
      BY <1>2, <2>2
    <2> QED BY <1>1, <2>1, <2>2
  <1> DEFINE item == <<"play", 0>>
  <1>6. item \in Items /\ item[1] = "play"
    <2>1. 0 \in Tracks \cup Nat /\ "play" \in Words
      BY DEF Words
    <2> QED BY <2>1, WordsAreItems
  <1>7. /\ toBoard' \in Seq(Items)
        /\ NoCommands(toBoard) => OneCommand(toBoard')
        /\ \A i \in 1..Len(toBoard') :
              \/ toBoard'[i] = item
              \/ i \in 1..Len(toBoard) /\ toBoard'[i] = toBoard[i]
    BY <1>1, <1>6, HostAdded
  <1>8. NoCommands(toBoard) => AllFit(toBoard)'
    <2> SUFFICES ASSUME NoCommands(toBoard), NEW i \in 1..Len(toBoard') PROVE Fits(toBoard[i])'
      BY DEF AllFit
    <2>1. CASE toBoard'[i] = item
      BY <1>1, <1>6, <2>1 DEF Fits, Uploads
    <2>2. CASE i \in 1..Len(toBoard) /\ toBoard'[i] = toBoard[i]
      BY <2>2 DEF Fits, NoCommands
    <2> QED BY <1>7, <2>1, <2>2
  <1>9. CommandsInStep'
    BY <1>1, <1>4, <1>7, <1>8 DEF CommandsInStep, AtRest
  <1>10. StatusAnswered' /\ PutAnswered' /\ PlayAnswered' /\ HostIsRight'
    BY <1>1, <1>2, <1>4, <1>5
       DEF StatusAnswered, PutAnswered, PlayAnswered, HostIsRight, Uploads
  <1>11. FileTypeOK' /\ CardInStep'
    BY <1>1 DEF FileIInv, FileTypeOK, CardInStep
  <1>12. FileSeqs'
    BY <1>1, <1>2, <1>7, FileFacts DEF FileSeqs
  <1> QED BY <1>2, <1>9, <1>10, <1>11, <1>12 DEF FileIInv

\* What the host hears without an answer of its own.
LEMMA HeardKeeps == FileIInv /\ (HostHears \/ HostDone \/ HostSkips) => FileIInv'
  <1> SUFFICES ASSUME FileIInv, HostHears \/ HostDone \/ HostSkips PROVE FileIInv'
    OBVIOUS
  <1>1. /\ toHost # <<>> /\ toHost' = Tail(toHost) /\ toBoard' = toBoard
        /\ UNCHANGED <<fp_pc, track, part, arriving, sounded, host_track, hosts, mishaps, acked>>
    BY DEF HostHears, HostDone, HostSkips, Awaits, Goes, boardVars, hostVars
  <1>2. \/ host_pc = "audio" /\ host_pc' = "playing"
        \/ host_pc = "playing" /\ host_pc' = "done" /\ Head(toHost) = <<"DONE", 0>>
        \/ host_pc' = host_pc
    BY DEF HostHears, HostDone, HostSkips, Awaits, Goes, Word, hostVars
  <1>3. (host_pc' = "status" => host_pc = "status") /\ (Uploads' => Uploads)
    BY <1>2 DEF Uploads
  <1>4. CommandsInStep' /\ (AtRest => AtRest') /\ toBoard' \in Seq(Items)
    BY <1>1, <1>3, NoCommandKeeps
  <1>5. /\ toHost' \in Seq(Items) /\ SavedIsThere'
        /\ \A words : Has(toHost', words) => Has(toHost, words)
        /\ \A words : Head(toHost)[1] \in words => Has(toHost, words)
        /\ QuietAfterReady(toHost) => QuietAfterReady(toHost')
    BY <1>1, HostTaken
  <1>6. FileTypeOK' /\ CardInStep'
    BY <1>1, <1>2 DEF FileIInv, FileTypeOK, CardInStep
  <1>7. StatusAnswered' /\ PutAnswered'
    BY <1>1, <1>2, <1>3, <1>4, <1>5 DEF FileIInv, StatusAnswered, PutAnswered, Uploads
  <1>8. host_pc' = "done" => sounded = Whole(host_track) /\ AtRest
    <2>1. host_pc = "done" => sounded = Whole(host_track) /\ AtRest
      BY DEF FileIInv, PlayAnswered, HostIsRight
    <2>2. host_pc = "playing" /\ Has(toHost, {"DONE"}) => sounded = Whole(host_track) /\ AtRest
      BY DEF FileIInv, PlayAnswered
    <2>3. Head(toHost) = <<"DONE", 0>> => Has(toHost, {"DONE"})
      BY <1>5
    <2> QED BY <1>2, <2>1, <2>2, <2>3
  <1>9. PlayAnswered'
    BY <1>1, <1>2, <1>4, <1>5, <1>8 DEF FileIInv, PlayAnswered
  <1>10. HostIsRight'
    BY <1>1, <1>2, <1>8 DEF FileIInv, HostIsRight
  <1>11. FileSeqs'
    BY <1>1, <1>4, <1>5, FileFacts DEF FileSeqs
  <1> QED BY <1>4, <1>5, <1>6, <1>7, <1>9, <1>10, <1>11 DEF FileIInv

LEMMA StopsKeep == FileIInv /\ (HostStops \/ TypesStop) => FileIInv'
  <1> SUFFICES ASSUME FileIInv, HostStops \/ TypesStop PROVE FileIInv'
    OBVIOUS
  <1>1. /\ UNCHANGED <<fp_pc, track, part, arriving, sounded, host_track, hosts, mishaps, acked>>
        /\ toHost' = toHost
        /\ host_pc' = host_pc \/ host_pc' = "off"
        /\ toBoard' = toBoard \/ toBoard' = Append(toBoard, Word("s"))
    BY DEF HostStops, TypesStop, Types, boardVars, hostVars
  <1>2. Word("s") \in Items /\ ~IsCommand(Word("s"))
    <2>1. Word("s") \in Items /\ Word("s")[1] = "s"
      BY WordsAreItems DEF Words
    <2> QED BY <2>1 DEF IsCommand
  <1>3. (host_pc' = "status" => host_pc = "status") /\ (Uploads' => Uploads)
    BY <1>1 DEF Uploads
  <1>4. CommandsInStep' /\ (AtRest => AtRest') /\ toBoard' \in Seq(Items)
    BY <1>1, <1>2, <1>3, NoCommandKeeps
  <1>5. FileTypeOK' /\ CardInStep'
    BY <1>1 DEF FileIInv, FileTypeOK, CardInStep
  <1>6. StatusAnswered' /\ PutAnswered'
    BY <1>1, <1>3, <1>4 DEF FileIInv, StatusAnswered, PutAnswered, Uploads
  <1>7. SavedIsThere' /\ PlayAnswered' /\ HostIsRight'
    BY <1>1, <1>4 DEF FileIInv, SavedIsThere, PlayAnswered, HostIsRight
  <1>8. FileSeqs'
    BY <1>1, <1>4, FileFacts DEF FileSeqs
  <1> QED BY <1>4, <1>5, <1>6, <1>7, <1>8 DEF FileIInv

-----------------------------------------------------------------------------

LEMMA FileInitIInv == FileInit => FileIInv
  <1> SUFFICES ASSUME FileInit PROVE FileIInv
    OBVIOUS
  <1>1. /\ fp_pc = "loop" /\ track = <<>> /\ part = <<>> /\ arriving = "none" /\ sounded = <<>>
        /\ toBoard = <<>> /\ toHost = <<>>
        /\ host_pc = "off" /\ host_track \in Tracks /\ acked = 0 /\ hosts = 0 /\ mishaps = 0
    BY DEF FileInit
  <1>2. 0 \in 0..Chunks /\ 0 \in 0..MaxHosts /\ 0 \in 0..MaxMishaps /\ Len(<<>>) = 0
    BY TracksAreNames
  <1>3. FileTypeOK /\ CardInStep
    BY <1>1, <1>2 DEF FileTypeOK, CardInStep
  <1>4. FileSeqs /\ CommandsInStep
    BY <1>1, Nothing, NoneFits DEF FileSeqs, CommandsInStep
  <1>5. SavedIsThere
    <2>1. \A i \in 1..0 : FALSE
      OBVIOUS
    <2> QED BY <1>1, <1>2, <2>1 DEF SavedIsThere
  <1>6. StatusAnswered /\ PutAnswered /\ PlayAnswered /\ HostIsRight
    BY <1>1 DEF StatusAnswered, PutAnswered, PlayAnswered, HostIsRight, Uploads
  <1> QED BY <1>3, <1>4, <1>5, <1>6 DEF FileIInv

LEMMA FileStepKeeps == FileIInv /\ [FileNext]_fileVars => FileIInv'
  <1> SUFFICES ASSUME FileIInv, [FileNext]_fileVars PROVE FileIInv'
    OBVIOUS
  <1>1. CASE Board
    <2>1. ASSUME NEW content \in Tracks, PutOpenFails(content) PROVE FileIInv'
      BY <2>1, OpenFailsKeeps
    <2>2. ASSUME NEW content \in Tracks, PutFound(content) \/ PutOpens(content) PROVE FileIInv'
      BY <2>2, StartsKeep
    <2> QED BY <1>1, <2>1, <2>2, AnswersKeep, StartsKeep, FailuresKeep, ChunkStoredKeeps,
               DigestsKeep, PlaybackKeeps DEF Board
  <1>2. CASE Host
    BY <1>2, BeginsKeep, PutKeeps, ChunksKeep, PlayKeeps, HeardKeeps, StopsKeep DEF Host
  <1>3. CASE UNCHANGED fileVars
    <2>1. /\ UNCHANGED <<fp_pc, track, part, arriving, sounded, toBoard, toHost>>
          /\ UNCHANGED <<host_pc, host_track, acked, hosts, mishaps>>
      BY <1>3 DEF fileVars, boardVars, hostVars
    <2>2. FileTypeOK' /\ FileSeqs' /\ CardInStep' /\ HostIsRight' /\ SavedIsThere'
      BY <2>1 DEF FileIInv, FileTypeOK, FileSeqs, CardInStep, HostIsRight, SavedIsThere
    <2>3. CommandsInStep' /\ StatusAnswered' /\ PutAnswered' /\ PlayAnswered'
      BY <2>1 DEF FileIInv, CommandsInStep, StatusAnswered, PutAnswered, PlayAnswered, AllFit,
                  Fits, Uploads, AtRest
    <2> QED BY <2>2, <2>3 DEF FileIInv
  <1> QED BY <1>1, <1>2, <1>3, ResetKeeps, NoiseKeeps DEF FileNext

LEMMA FileInvariant == FileSpec => []FileIInv
  BY FileInitIInv, FileStepKeeps, PTL DEF FileSpec

\* The types of the file player's variables.
THEOREM FileTypeCorrect == FileSpec => []FileTypeOK
  <1>1. FileIInv => FileTypeOK
    BY DEF FileIInv
  <1> QED BY <1>1, FileInvariant, PTL

\* What the host tells its user is true of the board, whatever an earlier host left on
\* the way and whatever the port spoils: send_mp3.py's status first makes it so.
THEOREM HostStaysRight == FileSpec => []HostIsRight
  <1>1. FileIInv => HostIsRight
    BY DEF FileIInv
  <1> QED BY <1>1, FileInvariant, PTL

-----------------------------------------------------------------------------
(***************************************************************************)
(* The capture tool saves one recording.  A block that the driver drops     *)
(* leaves a report in its queue of events, and between two drains of that   *)
(* queue there is one read: no more than one block arrives after the report *)
(* without another report, so a queue of three still holds one when it is   *)
(* drained.                                                                 *)
(***************************************************************************)

Lost == "RX_Q_OVF"
Events == {Lost, "RX_DONE"}
MicItems == {Plain(word) : word \in {"status", "GET", "noise"}}
                \cup {<<"capture", <<r>>>> : r \in Rates}
PortWords == {"MIC_CAPTURE_READY", "ERROR", "RAW", "block", "END", "noise"}

OneRecording(blocks) ==
    \A n \in 1..Takes : blocks[n] \in Nat /\ blocks[n] = blocks[1] + n - 1 /\ blocks[n] >= Warmup

NextBlock == produced - Len(dma_blocks)
InOrder == \A n \in 1..Len(captureBuffer) : captureBuffer[n] = captureBuffer[1] + n - 1
Contiguous == captureBuffer # <<>> => NextBlock = captureBuffer[1] + Len(captureBuffer)
LostLately(queue, k) == \E i \in 1..Len(queue) : i > Len(queue) - k /\ queue[i] = Lost

CaptureSeqs ==
    /\ dma_blocks \in Seq(Nat) /\ captureBuffer \in Seq(Nat) /\ dma_events \in Seq(Events)
    /\ toMic \in Seq(MicItems)
    /\ \E S, T : toScript \in Seq(S) /\ raw \in Seq(T)

DriverInStep ==
    /\ produced \in Nat /\ NextBlock \in Nat /\ discarded \in Nat
    /\ \A i \in 1..Len(dma_blocks) : dma_blocks[i] = NextBlock + i - 1
    /\ mic_pc \in {"warmup", "warmup drain"} =>
          NextBlock >= discarded /\ captureBuffer = <<>> /\ errors = 0
    /\ mic_pc \in {"capture", "capture drain"} => NextBlock >= Warmup
    /\ mic_pc \in {"capture", "capture drain", "captured"} =>
          \A n \in 1..Len(captureBuffer) : captureBuffer[n] >= Warmup
    /\ mic_pc = "capture" => Len(captureBuffer) < Takes
    /\ mic_pc = "captured" => Len(captureBuffer) = Takes

\* A gap has its report among the last two events, or three once a block has been read.
GapInCapture == Len(dma_blocks) = DmaBlocks /\ LostLately(dma_events, 2)
GapInDrain ==
    \/ Len(dma_blocks) = DmaBlocks - 1 /\ LostLately(dma_events, 2)
    \/ Len(dma_blocks) = DmaBlocks /\ LostLately(dma_events, 3)

GapsAreReported ==
    errors = 0 =>
        /\ mic_pc = "capture" => InOrder /\ (Contiguous \/ GapInCapture)
        /\ mic_pc = "capture drain" => (InOrder /\ Contiguous) \/ GapInDrain
        /\ mic_pc = "captured" => InOrder

OffersAreTrue ==
    \A i \in 1..Len(toScript) : toScript[i][1] = "RAW" => OneRecording(toScript[i][2][2])

ScriptInStep ==
    /\ script_pc \in {"bytes", "end"} => OneRecording(digest)
    /\ script_pc \in {"ready", "raw", "bytes"} => Len(raw) < Takes

MicIInv ==
    /\ CaptureTypeOK /\ CaptureSeqs /\ DriverInStep /\ GapsAreReported
    /\ OffersAreTrue /\ ScriptInStep /\ SavedIsOneRecording

LEMMA CaptureConstantsAre ==
    /\ {Takes, Warmup, DmaBlocks, EventDepth} \subseteq Nat \ {0} /\ EventDepth >= 3
    /\ {MaxScripts, MaxStalls, MaxTroubles} \subseteq Nat
  BY MicCaptureConstants

\* The queue of events keeps the newest, in their order.
LEMMA NewestIs ==
    ASSUME NEW queue \in Seq(Events)
    PROVE  /\ Newest(queue) \in Seq(Events) /\ Len(Newest(queue)) \in 0..EventDepth
           /\ \A k \in 1..3 : LostLately(queue, k) => LostLately(Newest(queue), k)
  <1> DEFINE n == Len(queue)
  <1>1. n \in Nat /\ EventDepth \in Nat /\ EventDepth >= 3
    BY CaptureConstantsAre, LenProperties
  <1>2. CASE n > EventDepth
    <2> DEFINE first == n - EventDepth + 1
    <2>1. Newest(queue) = SubSeq(queue, first, n)
      BY <1>2 DEF Newest
    <2>2. /\ first \in Nat /\ first \in 1..n /\ n - first + 1 = EventDepth
          /\ \A i \in 1..EventDepth : first + i - 1 \in 1..n
      BY <1>1, <1>2
    <2>3. /\ Newest(queue) \in Seq(Events) /\ Len(Newest(queue)) = EventDepth
          /\ \A i \in 1..EventDepth : Newest(queue)[i] = queue[first + i - 1]
      BY <1>1, <2>1, <2>2, SubSeqProperties
    <2>4. ASSUME NEW k \in 1..3, LostLately(queue, k) PROVE LostLately(Newest(queue), k)
      <3>1. PICK i \in 1..n : i > n - k /\ queue[i] = Lost
        BY <2>4 DEF LostLately
      <3> DEFINE j == i - first + 1
      <3>2. j \in 1..EventDepth /\ j > EventDepth - k /\ first + j - 1 = i
        BY <1>1, <1>2, <3>1
      <3>3. Newest(queue)[j] = Lost
        BY <2>3, <3>1, <3>2
      <3> QED BY <2>3, <3>2, <3>3 DEF LostLately
    <2> QED BY <1>1, <2>3, <2>4
  <1>3. CASE ~(n > EventDepth)
    <2>1. Newest(queue) = SubSeq(queue, 1, n)
      BY <1>3 DEF Newest
    <2>2. Newest(queue) = queue
      BY <2>1, SubSeqFull
    <2> QED BY <1>1, <1>3, <2>2
  <1> QED BY <1>2, <1>3

LEMMA ReportsStay ==
    ASSUME NEW queue \in Seq(Events)
    PROVE  /\ LostLately(Newest(queue \o <<"RX_Q_OVF", "RX_DONE">>), 2)
           /\ LostLately(queue, 2) => LostLately(Newest(Append(queue, "RX_DONE")), 3)
           /\ Newest(queue \o <<"RX_Q_OVF", "RX_DONE">>) \in Seq(Events)
           /\ Newest(Append(queue, "RX_DONE")) \in Seq(Events)
           /\ Len(Newest(queue \o <<"RX_Q_OVF", "RX_DONE">>)) \in 0..EventDepth
           /\ Len(Newest(Append(queue, "RX_DONE"))) \in 0..EventDepth
  <1> DEFINE two == <<"RX_Q_OVF", "RX_DONE">>
             more == queue \o two
             one == Append(queue, "RX_DONE")
  <1>1. Len(queue) \in Nat
    BY LenProperties
  <1>2. two \in Seq(Events) /\ Len(two) = 2 /\ two[1] = Lost /\ "RX_DONE" \in Events
    BY DEF Events, Lost
  <1>3. more \in Seq(Events) /\ Len(more) = Len(queue) + 2 /\ more[Len(queue) + 1] = Lost
    <2>1. 1 \in 1..Len(two)
      BY <1>2
    <2> HIDE DEF two
    <2>2. more[Len(queue) + 1] = two[1]
      BY <1>1, <1>2, <2>1, ConcatProperties
    <2>3. two \in Seq(Events) /\ Len(two) = 2
      BY <1>2
    <2>4. \A t \in Seq(Events) : queue \o t \in Seq(Events) /\ Len(queue \o t) = Len(queue) + Len(t)
      BY ConcatProperties
    <2>5. more \in Seq(Events) /\ Len(more) = Len(queue) + 2
      BY <2>3, <2>4
    <2> QED BY <1>2, <2>2, <2>5
  <1>4. one \in Seq(Events) /\ Len(one) = Len(queue) + 1
        /\ \A i \in 1..Len(queue) : one[i] = queue[i]
    BY <1>2, AppendIs
  <1> HIDE DEF more, one
  <1>5. LostLately(more, 2)
    <2>1. Len(queue) + 1 \in 1..Len(more) /\ Len(queue) + 1 > Len(more) - 2
      BY <1>1, <1>3
    <2> QED BY <1>3, <2>1 DEF LostLately
  <1>6. LostLately(queue, 2) => LostLately(one, 3)
    <2> SUFFICES ASSUME LostLately(queue, 2) PROVE LostLately(one, 3)
      OBVIOUS
    <2>1. PICK i \in 1..Len(queue) : i > Len(queue) - 2 /\ queue[i] = Lost
      BY DEF LostLately
    <2>2. i \in 1..Len(one) /\ i > Len(one) - 3
      BY <1>1, <1>4, <2>1
    <2> QED BY <1>4, <2>1, <2>2 DEF LostLately
  <1>7. 2 \in 1..3 /\ 3 \in 1..3
    OBVIOUS
  <1> QED BY <1>3, <1>4, <1>5, <1>6, <1>7, NewestIs DEF more, one

LEMMA OverflowsAre ==
    ASSUME dma_events \in Seq(Events)
    PROVE  /\ Overflows \in Nat
           /\ Overflows = 0 => \A k \in 1..3 : ~LostLately(dma_events, k)
  <1> DEFINE L == {n \in 1..Len(dma_events) : dma_events[n] = "RX_Q_OVF"}
  <1>1. IsFiniteSet(L)
    <2>1. IsFiniteSet(1..Len(dma_events))
      BY FS_Interval, LenProperties
    <2> QED BY <2>1, FS_Subset
  <1>2. Cardinality(L) \in Nat /\ (Cardinality(L) = 0 => L = {})
    BY <1>1, FS_CardinalityType, FS_EmptySet
  <1> QED BY <1>2 DEF Overflows, LostLately, Lost

\* Types and sequences that a step of the driver or the board leaves in order.
LEMMA MicFacts ==
    ASSUME MicIInv
    PROVE  /\ dma_blocks \in Seq(Nat) /\ captureBuffer \in Seq(Nat) /\ dma_events \in Seq(Events)
           /\ toMic \in Seq(MicItems)
           /\ {Len(dma_blocks), Len(captureBuffer), Len(dma_events), errors, discarded} \subseteq Nat
           /\ produced \in Nat /\ NextBlock \in Nat
           /\ Len(dma_blocks) <= DmaBlocks /\ Len(captureBuffer) <= Takes
           /\ \A i \in 1..Len(dma_blocks) : dma_blocks[i] = NextBlock + i - 1
           /\ troubles \in 0..MaxTroubles /\ stalls \in 0..MaxStalls
           /\ (Trouble \/ NoTrouble) => troubles' \in 0..MaxTroubles
  <1>1. /\ dma_blocks \in Seq(Nat) /\ captureBuffer \in Seq(Nat) /\ dma_events \in Seq(Events)
        /\ toMic \in Seq(MicItems) /\ produced \in Nat /\ NextBlock \in Nat /\ discarded \in Nat
        /\ \A i \in 1..Len(dma_blocks) : dma_blocks[i] = NextBlock + i - 1
    BY DEF MicIInv, CaptureSeqs, DriverInStep
  <1>2. /\ Len(captureBuffer) \in 0..Takes /\ Len(dma_blocks) \in 0..DmaBlocks /\ errors \in Nat
        /\ Len(dma_events) \in 0..EventDepth
        /\ troubles \in 0..MaxTroubles /\ stalls \in 0..MaxStalls
    BY DEF MicIInv, CaptureTypeOK
  <1>3. (Trouble \/ NoTrouble) => troubles' \in 0..MaxTroubles
    BY <1>2, CaptureConstantsAre DEF Trouble, NoTrouble
  <1>4. {Len(dma_blocks), Len(captureBuffer), Len(dma_events), errors, discarded} \subseteq Nat
    BY <1>1, <1>2, CaptureConstantsAre
  <1> QED BY <1>1, <1>2, <1>3, <1>4, CaptureConstantsAre

\* What the script has is not touched by the board, but for what it prints.
LEMMA PrintKeeps ==
    ASSUME MicIInv, UNCHANGED scriptVars,
           \/ toScript' = toScript
           \/ \E item : /\ toScript' = Append(toScript, item)
                        /\ item[1] = "RAW" => OneRecording(item[2][2])
    PROVE  /\ OffersAreTrue' /\ ScriptInStep' /\ SavedIsOneRecording'
           /\ \E S, T : toScript' \in Seq(S) /\ raw' \in Seq(T)
           /\ script_pc' = script_pc /\ asked' = asked /\ raw' = raw
  <1>1. UNCHANGED <<script_pc, asked, digest, raw, saved>>
    BY DEF scriptVars
  <1>2. PICK S, T : toScript \in Seq(S) /\ raw \in Seq(T)
    BY DEF MicIInv, CaptureSeqs
  <1>3. \A i \in 1..Len(toScript) : toScript[i][1] = "RAW" => OneRecording(toScript[i][2][2])
    BY DEF MicIInv, OffersAreTrue
  <1>4. ScriptInStep' /\ SavedIsOneRecording'
    BY <1>1 DEF MicIInv, ScriptInStep, SavedIsOneRecording
  <1>5. CASE toScript' = toScript
    BY <1>1, <1>2, <1>3, <1>4, <1>5 DEF OffersAreTrue
  <1>6. ASSUME NEW item, toScript' = Append(toScript, item),
               item[1] = "RAW" => OneRecording(item[2][2])
        PROVE  OffersAreTrue' /\ \E U : toScript' \in Seq(U)
    <2>1. toScript \in Seq(S \cup {item})
      BY <1>2, LenProperties
    <2>2. /\ toScript' \in Seq(S \cup {item})
          /\ \A i \in 1..Len(toScript') :
                \/ toScript'[i] = item
                \/ i \in 1..Len(toScript) /\ toScript'[i] = toScript[i]
      BY <1>6, <2>1, AppendIs
    <2>3. OffersAreTrue'
      BY <1>3, <1>6, <2>2 DEF OffersAreTrue
    <2> QED BY <2>2, <2>3
  <1> QED BY <1>1, <1>2, <1>4, <1>5, <1>6

\* A step of the board that leaves the recording alone.
LEMMA IdleKeeps ==
    ASSUME MicIInv, mic_pc \in {"loop", "offer", "send"}, mic_pc' \in {"loop", "offer", "send"},
           toMic' = toMic \/ (toMic # <<>> /\ toMic' = Tail(toMic)),
           UNCHANGED <<rate, captureBuffer, errors, stalls>>, discarded' \in Nat,
           UNCHANGED driverVars \/ Uninstalled,
           Trouble \/ NoTrouble, UNCHANGED scriptVars,
           \/ toScript' = toScript
           \/ \E item : toScript' = Append(toScript, item) /\ item[1] # "RAW"
    PROVE  MicIInv'
  <1>1. \/ UNCHANGED <<dma_blocks, produced, dma_events>>
        \/ dma_blocks' = <<>> /\ produced' = 0 /\ dma_events' = <<>>
    BY DEF driverVars, Uninstalled
  <1>2. UNCHANGED <<script_pc, asked, digest, raw, saved, scripts>>
    BY DEF scriptVars
  <1>3. toMic' \in Seq(MicItems)
    BY MicFacts, TailIs
  <1>4. OffersAreTrue' /\ ScriptInStep' /\ SavedIsOneRecording'
        /\ \E S, T : toScript' \in Seq(S) /\ raw' \in Seq(T)
    BY PrintKeeps
  <1>5. troubles' \in 0..MaxTroubles
    BY MicFacts
  <1>6. Len(<<>>) = 0 /\ <<>> \in Seq(Nat) /\ <<>> \in Seq(Events) /\ 0 \in 0..DmaBlocks
        /\ 0 \in 0..EventDepth /\ 0 - 0 \in Nat /\ \A i \in 1..0 : FALSE
    BY CaptureConstantsAre
  <1>7. CaptureSeqs'
    BY <1>1, <1>3, <1>4, <1>6 DEF MicIInv, CaptureSeqs
  <1>8. CaptureTypeOK'
    BY <1>1, <1>2, <1>5, <1>6 DEF MicIInv, CaptureTypeOK
  <1>9. DriverInStep'
    <2>1. /\ produced' \in Nat /\ NextBlock' \in Nat
          /\ \A i \in 1..Len(dma_blocks') : dma_blocks'[i] = NextBlock' + i - 1
      <3>1. CASE UNCHANGED <<dma_blocks, produced, dma_events>>
        <4>1. NextBlock' = NextBlock
          BY <3>1 DEF NextBlock
        <4> QED BY <3>1, <4>1, MicFacts
      <3>2. CASE dma_blocks' = <<>> /\ produced' = 0 /\ dma_events' = <<>>
        BY <1>6, <3>2 DEF NextBlock
      <3> QED BY <1>1, <3>1, <3>2
    <2>2. mic_pc' \notin {"warmup", "warmup drain", "capture", "capture drain", "captured"}
      OBVIOUS
    <2> QED BY <2>1, <2>2 DEF DriverInStep
  <1>10. GapsAreReported'
    BY DEF GapsAreReported
  <1> QED BY <1>4, <1>7, <1>8, <1>9, <1>10 DEF MicIInv

LEMMA PlainWords ==
    /\ \A word : Plain(word)[1] = word /\ Plain(word) = <<word, <<>>>>
    /\ Plain("status") \in MicItems /\ Plain("GET") \in MicItems /\ Noise \in MicItems
    /\ \A r \in Rates : <<"capture", <<r>>>> \in MicItems
    /\ \A item \in MicItems : item[1] = "capture" => item[2][1] \in Rates
    /\ "ERROR" # "RAW" /\ "END" # "RAW" /\ "block" # "RAW" /\ "noise" # "RAW"
    /\ "MIC_CAPTURE_READY" # "RAW"
  BY DEF Plain, Noise, MicItems

\* Between captures, and when one is sent or given up.
LEMMA MicRestKeeps ==
    ASSUME MicIInv,
           \/ MicStatus \/ MicRefuses \/ OfferTaken \/ OfferDeclined \/ BlockSent \/ SendEnds
    PROVE  MicIInv'
  <1>1. CASE MicStatus
    <2>1. toScript' = Append(toScript, Plain("MIC_CAPTURE_READY"))
      BY <1>1 DEF MicStatus, Prints
    <2>2. \E item : toScript' = Append(toScript, item) /\ item[1] # "RAW"
      BY <2>1, PlainWords
    <2> QED BY <1>1, <2>2, MicFacts, IdleKeeps DEF MicStatus, MicReads, micVars
  <1>2. CASE MicRefuses
    <2>1. toScript' = Append(toScript, Plain("ERROR"))
      BY <1>2 DEF MicRefuses, Prints
    <2>2. \E item : toScript' = Append(toScript, item) /\ item[1] # "RAW"
      BY <2>1, PlainWords
    <2> QED BY <1>2, <2>2, MicFacts, IdleKeeps DEF MicRefuses, MicReads, micVars
  <1>3. CASE OfferTaken
    BY <1>3, IdleKeeps DEF OfferTaken, MicReads
  <1>4. CASE OfferDeclined
    <2>1. toScript' = Append(toScript, Plain("ERROR"))
      BY <1>4 DEF OfferDeclined, Prints
    <2>2. \E item : toScript' = Append(toScript, item) /\ item[1] # "RAW"
      BY <2>1, PlainWords
    <2> QED BY <1>4, <2>2, MicFacts, IdleKeeps DEF OfferDeclined, MicReads
  <1>5. CASE BlockSent
    <2>1. toScript' = Append(toScript, <<"block", <<rate, captureBuffer[discarded']>>>>)
          /\ discarded' = discarded + 1
      BY <1>5 DEF BlockSent, Prints
    <2>2. \E item : toScript' = Append(toScript, item) /\ item[1] # "RAW"
      BY <2>1
    <2>3. discarded' \in Nat
      BY <2>1, MicFacts
    <2> QED BY <1>5, <2>2, <2>3, IdleKeeps DEF BlockSent, Works
  <1>6. CASE SendEnds
    <2>1. toScript' = toScript \/ toScript' = Append(toScript, Plain("END"))
      BY <1>6 DEF SendEnds, Prints
    <2>2. toScript' = toScript \/ \E item : toScript' = Append(toScript, item) /\ item[1] # "RAW"
      BY <2>1, PlainWords
    <2> QED BY <1>6, <2>2, MicFacts, IdleKeeps DEF SendEnds, Works
  <1> QED BY <1>1, <1>2, <1>3, <1>4, <1>5, <1>6

\* A reset, a capture that fails, and one that the board does not offer.
LEMMA GivesUpKeeps ==
    ASSUME MicIInv, mic_pc' = "loop", Uninstalled, UNCHANGED <<rate, captureBuffer, errors, stalls>>,
           toMic' = toMic \/ toMic' = <<>>, discarded' = discarded,
           Trouble \/ NoTrouble, UNCHANGED scriptVars,
           \E item : toScript' = Append(toScript, item) /\ item[1] # "RAW"
    PROVE  MicIInv'
  <1>1. dma_blocks' = <<>> /\ produced' = 0 /\ dma_events' = <<>>
    BY DEF Uninstalled
  <1>2. UNCHANGED <<script_pc, asked, digest, raw, saved, scripts>>
    BY DEF scriptVars
  <1>3. toMic' \in Seq(MicItems) /\ discarded' \in Nat /\ troubles' \in 0..MaxTroubles
    <2>1. toMic' \in Seq(MicItems)
      <3>1. <<>> \in Seq(MicItems) /\ toMic \in Seq(MicItems)
        BY MicFacts
      <3> QED BY <3>1
    <2>2. discarded' \in Nat
      BY MicFacts
    <2>3. troubles' \in 0..MaxTroubles
      BY MicFacts
    <2> QED BY <2>1, <2>2, <2>3
  <1>4. OffersAreTrue' /\ ScriptInStep' /\ SavedIsOneRecording'
        /\ \E S, T : toScript' \in Seq(S) /\ raw' \in Seq(T)
    BY PrintKeeps
  <1>6. Len(<<>>) = 0 /\ <<>> \in Seq(Nat) /\ <<>> \in Seq(Events) /\ 0 \in 0..DmaBlocks
        /\ 0 \in 0..EventDepth /\ 0 - 0 \in Nat /\ \A i \in 1..0 : FALSE
    BY CaptureConstantsAre
  <1>7. CaptureSeqs'
    BY <1>1, <1>3, <1>4, <1>6 DEF MicIInv, CaptureSeqs
  <1>8. CaptureTypeOK'
    BY <1>1, <1>2, <1>3, <1>6 DEF MicIInv, CaptureTypeOK
  <1>9. DriverInStep'
    BY <1>1, <1>3, <1>6 DEF DriverInStep, NextBlock
  <1>10. GapsAreReported'
    BY DEF GapsAreReported
  <1> QED BY <1>4, <1>7, <1>8, <1>9, <1>10 DEF MicIInv

LEMMA GivingUpKeeps ==
    ASSUME MicIInv, CaptureFails \/ CaptureSpoiled \/ MicReset
    PROVE  MicIInv'
  <1>1. CASE CaptureFails
    <2>1. \E item : toScript' = Append(toScript, item) /\ item[1] # "RAW"
      BY <1>1, PlainWords DEF CaptureFails, Prints
    <2> QED BY <1>1, <2>1, GivesUpKeeps DEF CaptureFails, Works
  <1>2. CASE CaptureSpoiled
    <2>1. \E item : toScript' = Append(toScript, item) /\ item[1] # "RAW"
      BY <1>2, PlainWords DEF CaptureSpoiled, Prints
    <2> QED BY <1>2, <2>1, GivesUpKeeps DEF CaptureSpoiled, Works
  <1>3. CASE MicReset
    <2>1. \E item : toScript' = Append(toScript, item) /\ item[1] # "RAW"
      BY <1>3, PlainWords DEF MicReset, Prints
    <2> QED BY <1>3, <2>1, GivesUpKeeps DEF MicReset, MicBoots
  <1> QED BY <1>1, <1>2, <1>3

\* The board between a command and an offer: the port and the script stay as they are.
LEMMA CaptureStepKeeps ==
    ASSUME MicIInv, UNCHANGED scriptVars, toScript' = toScript,
           toMic' = toMic \/ (toMic # <<>> /\ toMic' = Tail(toMic)),
           rate' \in Rates, stalls' \in 0..MaxStalls, troubles' \in 0..MaxTroubles,
           mic_pc' \in {"warmup", "warmup drain", "capture", "capture drain", "captured"},
           dma_blocks' \in Seq(Nat), Len(dma_blocks') \in 0..DmaBlocks,
           dma_events' \in Seq(Events), Len(dma_events') \in 0..EventDepth,
           captureBuffer' \in Seq(Nat), Len(captureBuffer') \in 0..Takes, errors' \in Nat,
           DriverInStep', GapsAreReported'
    PROVE  MicIInv'
  <1>1. UNCHANGED <<script_pc, asked, digest, raw, saved, scripts>>
    BY DEF scriptVars
  <1>2. toMic' \in Seq(MicItems)
    BY MicFacts, TailIs
  <1>3. OffersAreTrue' /\ ScriptInStep' /\ SavedIsOneRecording'
        /\ \E S, T : toScript' \in Seq(S) /\ raw' \in Seq(T)
    BY PrintKeeps
  <1>4. CaptureTypeOK' /\ CaptureSeqs'
    BY <1>1, <1>2, <1>3 DEF MicIInv, CaptureTypeOK, CaptureSeqs
  <1> QED BY <1>3, <1>4 DEF MicIInv

LEMMA ArrivalKeeps == MicIInv /\ BlockArrives => MicIInv'
  <1> SUFFICES ASSUME MicIInv, BlockArrives PROVE MicIInv'
    OBVIOUS
  <1>1. /\ mic_pc \in {"warmup", "warmup drain", "capture", "capture drain"}
        /\ UNCHANGED <<mic_pc, rate, discarded, captureBuffer, errors>>
        /\ UNCHANGED <<toMic, toScript, scriptVars, troubles>> /\ produced' = produced + 1
    BY DEF BlockArrives, micVars
  <1>2. /\ dma_blocks \in Seq(Nat) /\ dma_events \in Seq(Events) /\ produced \in Nat
        /\ Len(dma_blocks) \in Nat /\ Len(dma_blocks) <= DmaBlocks /\ NextBlock \in Nat
        /\ \A i \in 1..Len(dma_blocks) : dma_blocks[i] = NextBlock + i - 1
    BY MicFacts
  <1>3. DmaBlocks \in Nat \ {0} /\ MaxStalls \in Nat
    BY CaptureConstantsAre
  <1> DEFINE Full == Len(dma_blocks) = DmaBlocks
  <1>4. ASSUME Full
        PROVE  /\ dma_blocks' \in Seq(Nat) /\ Len(dma_blocks') = DmaBlocks
               /\ NextBlock' = NextBlock + 1
               /\ \A i \in 1..Len(dma_blocks') : dma_blocks'[i] = NextBlock' + i - 1
               /\ dma_events' \in Seq(Events) /\ Len(dma_events') \in 0..EventDepth
               /\ LostLately(dma_events', 2) /\ stalls' \in 0..MaxStalls
    <2>1. /\ dma_blocks' = Append(Tail(dma_blocks), produced)
          /\ dma_events' = Newest(dma_events \o <<"RX_Q_OVF", "RX_DONE">>)
          /\ stalls < MaxStalls /\ stalls' = stalls + 1
      BY <1>4 DEF BlockArrives
    <2>2. dma_blocks # <<>>
      BY <1>3, <1>4
    <2>3. /\ Tail(dma_blocks) \in Seq(Nat) /\ Len(Tail(dma_blocks)) = DmaBlocks - 1
          /\ \A i \in 1..Len(Tail(dma_blocks)) :
                Tail(dma_blocks)[i] = dma_blocks[i + 1] /\ i + 1 \in 1..Len(dma_blocks)
      BY <1>2, <1>4, <2>2, TailIs
    <2>4. /\ dma_blocks' \in Seq(Nat) /\ Len(dma_blocks') = DmaBlocks
          /\ dma_blocks'[DmaBlocks] = produced
          /\ \A i \in 1..Len(Tail(dma_blocks)) : dma_blocks'[i] = Tail(dma_blocks)[i]
          /\ \A i \in 1..DmaBlocks : i = DmaBlocks \/ i \in 1..Len(Tail(dma_blocks))
      BY <1>2, <1>3, <2>1, <2>3, AppendIs
    <2>5. NextBlock' = NextBlock + 1 /\ NextBlock + DmaBlocks = produced
      <3>1. produced' = produced + 1 /\ produced \in Nat
        BY <1>1, <1>2
      <3>2. Len(dma_blocks') = DmaBlocks /\ Len(dma_blocks) = DmaBlocks /\ DmaBlocks \in Nat
        BY <1>3, <1>4, <2>4
      <3> QED BY <3>1, <3>2 DEF NextBlock
    <2>6. \A i \in 1..Len(dma_blocks') : dma_blocks'[i] = NextBlock' + i - 1
      <3> SUFFICES ASSUME NEW i \in 1..DmaBlocks PROVE dma_blocks'[i] = NextBlock' + i - 1
        BY <2>4
      <3>1. CASE i = DmaBlocks
        BY <1>2, <1>3, <2>4, <2>5, <3>1
      <3>2. CASE i # DmaBlocks
        <4>1. i \in 1..Len(Tail(dma_blocks))
          BY <2>4, <3>2
        <4>2. dma_blocks'[i] = dma_blocks[i + 1] /\ i + 1 \in 1..Len(dma_blocks)
          BY <2>3, <2>4, <4>1
        <4>3. dma_blocks[i + 1] = NextBlock + (i + 1) - 1
          BY <1>2, <4>2
        <4> QED BY <1>2, <2>5, <4>2, <4>3
      <3> QED BY <3>1, <3>2
    <2>7. /\ dma_events' \in Seq(Events) /\ Len(dma_events') \in 0..EventDepth
          /\ LostLately(dma_events', 2)
      BY <1>2, <2>1, ReportsStay
    <2>8. stalls' \in 0..MaxStalls
      BY <1>3, <2>1, MicFacts
    <2> QED BY <2>4, <2>5, <2>6, <2>7, <2>8
  <1>5. ASSUME ~Full
        PROVE  /\ dma_blocks' \in Seq(Nat) /\ Len(dma_blocks') = Len(dma_blocks) + 1
               /\ Len(dma_blocks') <= DmaBlocks /\ NextBlock' = NextBlock
               /\ \A i \in 1..Len(dma_blocks') : dma_blocks'[i] = NextBlock' + i - 1
               /\ dma_events' \in Seq(Events) /\ Len(dma_events') \in 0..EventDepth
               /\ LostLately(dma_events, 2) => LostLately(dma_events', 3)
               /\ stalls' \in 0..MaxStalls
    <2>1. /\ dma_blocks' = Append(dma_blocks, produced)
          /\ dma_events' = Newest(Append(dma_events, "RX_DONE")) /\ stalls' = stalls
      BY <1>5 DEF BlockArrives
    <2>2. /\ dma_blocks' \in Seq(Nat) /\ Len(dma_blocks') = Len(dma_blocks) + 1
          /\ dma_blocks'[Len(dma_blocks) + 1] = produced
          /\ \A i \in 1..Len(dma_blocks) : dma_blocks'[i] = dma_blocks[i]
          /\ \A i \in 1..Len(dma_blocks') : i = Len(dma_blocks) + 1 \/ i \in 1..Len(dma_blocks)
      BY <1>2, <2>1, AppendIs
    <2>3. Len(dma_blocks') <= DmaBlocks
      BY <1>2, <1>3, <1>5, <2>2
    <2>4. NextBlock' = NextBlock /\ NextBlock + Len(dma_blocks) = produced
      <3>1. produced' = produced + 1 /\ produced \in Nat
        BY <1>1, <1>2
      <3>2. Len(dma_blocks') = Len(dma_blocks) + 1 /\ Len(dma_blocks) \in Nat
        BY <1>2, <2>2
      <3> QED BY <3>1, <3>2 DEF NextBlock
    <2>5. \A i \in 1..Len(dma_blocks') : dma_blocks'[i] = NextBlock' + i - 1
      <3> SUFFICES ASSUME NEW i \in 1..Len(dma_blocks') PROVE dma_blocks'[i] = NextBlock' + i - 1
        OBVIOUS
      <3>1. CASE i = Len(dma_blocks) + 1
        BY <1>2, <2>2, <2>4, <3>1
      <3>2. CASE i \in 1..Len(dma_blocks)
        BY <1>2, <2>2, <2>4, <3>2
      <3> QED BY <2>2, <3>1, <3>2
    <2>6. /\ dma_events' \in Seq(Events) /\ Len(dma_events') \in 0..EventDepth
          /\ LostLately(dma_events, 2) => LostLately(dma_events', 3)
      BY <1>2, <2>1, ReportsStay
    <2>7. stalls' \in 0..MaxStalls
      BY <2>1, MicFacts
    <2> QED BY <2>2, <2>3, <2>4, <2>5, <2>6, <2>7
  <1>6. /\ dma_blocks' \in Seq(Nat) /\ Len(dma_blocks') \in 0..DmaBlocks /\ NextBlock' \in Nat
        /\ NextBlock' >= NextBlock
        /\ \A i \in 1..Len(dma_blocks') : dma_blocks'[i] = NextBlock' + i - 1
        /\ dma_events' \in Seq(Events) /\ Len(dma_events') \in 0..EventDepth
        /\ stalls' \in 0..MaxStalls
    <2>1. CASE Full
      BY <1>2, <1>3, <1>4, <2>1
    <2>2. CASE ~Full
      BY <1>2, <1>3, <1>5, <2>2
    <2> QED BY <2>1, <2>2
  <1>7. DriverInStep'
    <2>1. discarded \in Nat /\ Warmup \in Nat
      BY MicFacts, CaptureConstantsAre
    <2>2. /\ NextBlock >= discarded => NextBlock' >= discarded
          /\ NextBlock >= Warmup => NextBlock' >= Warmup
      BY <1>2, <1>6, <2>1
    <2>3. produced' \in Nat
      <3>1. produced' = produced + 1
        BY <1>1
      <3>2. produced \in Nat
        BY <1>2
      <3> QED BY <3>1, <3>2
    <2> QED BY <1>1, <1>6, <2>1, <2>2, <2>3 DEF MicIInv, DriverInStep
  <1>8. GapsAreReported'
    <2> SUFFICES ASSUME errors = 0 PROVE GapsAreReported'
      BY <1>1 DEF GapsAreReported
    <2>1. (InOrder => InOrder') /\ (NextBlock' = NextBlock => (Contiguous => Contiguous'))
      BY <1>1 DEF InOrder, Contiguous
    <2>2. CASE mic_pc = "capture"
      <3>1. InOrder /\ (Contiguous \/ GapInCapture)
        BY <2>2 DEF MicIInv, GapsAreReported
      <3>2. CASE Full
        <4>1. GapInCapture'
          BY <1>4, <3>2 DEF GapInCapture
        <4> QED BY <1>1, <2>1, <2>2, <3>1, <4>1 DEF GapsAreReported
      <3>3. CASE ~Full
        <4>1. Contiguous
          BY <3>1, <3>3 DEF GapInCapture
        <4>2. Contiguous'
          BY <1>5, <2>1, <3>3, <4>1
        <4> QED BY <1>1, <2>1, <2>2, <3>1, <4>2 DEF GapsAreReported
      <3> QED BY <3>2, <3>3
    <2>3. CASE mic_pc = "capture drain"
      <3>1. (InOrder /\ Contiguous) \/ GapInDrain
        BY <2>3 DEF MicIInv, GapsAreReported
      <3>2. CASE Full
        <4>1. LostLately(dma_events', 2) => LostLately(dma_events', 3)
          <5>1. Len(dma_events') \in Nat
            BY <1>6, LenProperties
          <5> QED BY <5>1 DEF LostLately
        <4>2. GapInDrain'
          BY <1>4, <3>2, <4>1 DEF GapInDrain
        <4> QED BY <1>1, <2>3, <4>2 DEF GapsAreReported
      <3>3. CASE ~Full /\ InOrder /\ Contiguous
        <4>1. InOrder' /\ Contiguous'
          BY <1>5, <2>1, <3>3
        <4> QED BY <1>1, <2>3, <4>1 DEF GapsAreReported
      <3>4. CASE ~Full /\ GapInDrain
        <4>1. Len(dma_blocks) = DmaBlocks - 1 /\ LostLately(dma_events, 2)
          BY <3>4 DEF GapInDrain
        <4>2. Len(dma_blocks') = DmaBlocks /\ LostLately(dma_events', 3)
          BY <1>3, <1>5, <3>4, <4>1
        <4>3. GapInDrain'
          BY <4>2 DEF GapInDrain
        <4> QED BY <1>1, <2>3, <4>3 DEF GapsAreReported
      <3> QED BY <3>1, <3>2, <3>3, <3>4
    <2>4. CASE mic_pc \in {"warmup", "warmup drain"}
      BY <1>1, <2>4 DEF GapsAreReported
    <2> QED BY <1>1, <2>2, <2>3, <2>4
  <1>9. UNCHANGED scriptVars /\ toScript' = toScript /\ toMic' = toMic /\ rate' \in Rates
        /\ troubles' \in 0..MaxTroubles /\ errors' \in Nat /\ captureBuffer' \in Seq(Nat)
        /\ Len(captureBuffer') \in 0..Takes
    BY <1>1 DEF MicIInv, CaptureTypeOK, CaptureSeqs
  <1>10. mic_pc' \in {"warmup", "warmup drain", "capture", "capture drain", "captured"}
    BY <1>1
  <1> QED BY <1>6, <1>7, <1>8, <1>9, <1>10, CaptureStepKeeps

LEMMA ReadIs ==
    ASSUME MicIInv, I2sRead
    PROVE  /\ dma_blocks' \in Seq(Nat) /\ Len(dma_blocks') = Len(dma_blocks) - 1
           /\ Len(dma_blocks) \in Nat \ {0} /\ Len(dma_blocks') \in 0..DmaBlocks
           /\ Head(dma_blocks) = NextBlock /\ NextBlock' = NextBlock + 1
           /\ NextBlock \in Nat /\ produced' = produced
           /\ \A i \in 1..Len(dma_blocks') : dma_blocks'[i] = NextBlock' + i - 1
           /\ dma_events' = dma_events
  <1>1. /\ dma_blocks # <<>> /\ dma_blocks' = Tail(dma_blocks)
        /\ produced' = produced /\ dma_events' = dma_events
    BY DEF I2sRead
  <1>2. /\ dma_blocks \in Seq(Nat) /\ produced \in Nat /\ NextBlock \in Nat
        /\ Len(dma_blocks) \in Nat /\ Len(dma_blocks) <= DmaBlocks
        /\ \A i \in 1..Len(dma_blocks) : dma_blocks[i] = NextBlock + i - 1
    BY MicFacts
  <1>3. /\ dma_blocks' \in Seq(Nat) /\ Len(dma_blocks') = Len(dma_blocks) - 1
        /\ Head(dma_blocks) = dma_blocks[1] /\ 1 \in 1..Len(dma_blocks)
        /\ \A i \in 1..Len(dma_blocks') :
              dma_blocks'[i] = dma_blocks[i + 1] /\ i + 1 \in 1..Len(dma_blocks)
    BY <1>1, <1>2, TailIs
  <1>4. NextBlock' = NextBlock + 1
    <2>1. produced' = produced /\ Len(dma_blocks') = Len(dma_blocks) - 1
      BY <1>1, <1>3
    <2>2. produced \in Nat /\ Len(dma_blocks) \in Nat
      BY <1>2
    <2> QED BY <2>1, <2>2 DEF NextBlock
  <1>5. Head(dma_blocks) = NextBlock
    BY <1>2, <1>3
  <1>6. \A i \in 1..Len(dma_blocks') : dma_blocks'[i] = NextBlock' + i - 1
    <2> SUFFICES ASSUME NEW i \in 1..Len(dma_blocks') PROVE dma_blocks'[i] = NextBlock' + i - 1
      OBVIOUS
    <2>1. dma_blocks'[i] = NextBlock + (i + 1) - 1
      BY <1>2, <1>3
    <2> QED BY <1>2, <1>4, <2>1
  <1>7. Len(dma_blocks) \in Nat \ {0} /\ Len(dma_blocks') \in 0..DmaBlocks
    BY <1>2, <1>3, CaptureConstantsAre
  <1> QED BY <1>1, <1>2, <1>3, <1>4, <1>5, <1>6, <1>7

LEMMA StartKeeps == MicIInv /\ CaptureStarts => MicIInv'
  <1> SUFFICES ASSUME MicIInv, CaptureStarts PROVE MicIInv'
    OBVIOUS
  <1>1. /\ toMic # <<>> /\ toMic' = Tail(toMic) /\ UNCHANGED <<scriptVars, stalls>>
        /\ Head(toMic)[1] = "capture" /\ rate' = Head(toMic)[2][1] /\ toScript' = toScript
        /\ mic_pc' = "warmup" /\ discarded' = 0 /\ captureBuffer' = <<>> /\ errors' = 0
        /\ dma_blocks' = <<>> /\ produced' = 0 /\ dma_events' = <<>> /\ NoTrouble
    BY DEF CaptureStarts, MicReads, Uninstalled
  <1>2. rate' \in Rates
    <2>1. Head(toMic) \in MicItems
      BY <1>1, MicFacts, TailIs
    <2> QED BY <1>1, <2>1, PlainWords
  <1>3. /\ Len(<<>>) = 0 /\ <<>> \in Seq(Nat) /\ <<>> \in Seq(Events) /\ 0 \in 0..DmaBlocks
        /\ 0 \in 0..EventDepth /\ 0 \in 0..Takes /\ 0 - 0 = 0 /\ 0 \in Nat /\ 0 >= 0
        /\ \A i \in 1..0 : FALSE
    BY CaptureConstantsAre
  <1>4. NextBlock' = 0
    BY <1>1, <1>3 DEF NextBlock
  <1>5. DriverInStep' /\ GapsAreReported'
    BY <1>1, <1>3, <1>4 DEF DriverInStep, GapsAreReported
  <1>6. stalls' \in 0..MaxStalls /\ troubles' \in 0..MaxTroubles
    BY <1>1, MicFacts
  <1> QED BY <1>1, <1>2, <1>3, <1>5, <1>6, CaptureStepKeeps

LEMMA WorkIs ==
    ASSUME MicIInv, NEW pc, Works(pc), NoTrouble
    PROVE  /\ mic_pc = pc /\ UNCHANGED <<rate, toMic, scriptVars, stalls>>
           /\ rate' \in Rates /\ stalls' \in 0..MaxStalls /\ troubles' \in 0..MaxTroubles
           /\ toMic' = toMic
  BY MicFacts DEF MicIInv, CaptureTypeOK, Works

LEMMA WarmupReadKeeps == MicIInv /\ WarmupRead => MicIInv'
  <1> SUFFICES ASSUME MicIInv, WarmupRead PROVE MicIInv'
    OBVIOUS
  <1>1. /\ mic_pc = "warmup" /\ UNCHANGED scriptVars /\ toMic' = toMic
        /\ rate' \in Rates /\ stalls' \in 0..MaxStalls /\ troubles' \in 0..MaxTroubles
    BY WorkIs DEF WarmupRead
  <1>2. /\ I2sRead /\ mic_pc' = "warmup drain" /\ discarded' = discarded + 1
        /\ UNCHANGED <<captureBuffer, errors, toScript>>
    BY DEF WarmupRead
  <1>3. /\ dma_blocks' \in Seq(Nat) /\ Len(dma_blocks') \in 0..DmaBlocks
        /\ NextBlock' = NextBlock + 1 /\ NextBlock \in Nat /\ produced' = produced
        /\ \A i \in 1..Len(dma_blocks') : dma_blocks'[i] = NextBlock' + i - 1
        /\ dma_events' = dma_events
    BY <1>2, ReadIs
  <1>4. NextBlock >= discarded /\ captureBuffer = <<>> /\ errors = 0
    BY <1>1 DEF MicIInv, DriverInStep
  <1>5. NextBlock' >= discarded' /\ discarded' \in Nat /\ NextBlock' \in Nat /\ produced' \in Nat
    <2>1. discarded' = discarded + 1 /\ discarded \in Nat /\ produced \in Nat
      BY <1>2, MicFacts
    <2> QED BY <1>3, <1>4, <2>1
  <1>6. DriverInStep' /\ GapsAreReported'
    BY <1>2, <1>3, <1>4, <1>5 DEF DriverInStep, GapsAreReported
  <1>7. /\ dma_events' \in Seq(Events) /\ Len(dma_events') \in 0..EventDepth
        /\ captureBuffer' \in Seq(Nat) /\ Len(captureBuffer') \in 0..Takes /\ errors' \in Nat
    BY <1>2, <1>3 DEF MicIInv, CaptureSeqs, CaptureTypeOK
  <1> QED BY <1>1, <1>2, <1>3, <1>6, <1>7, CaptureStepKeeps

LEMMA CaptureReadKeeps == MicIInv /\ CaptureRead => MicIInv'
  <1> SUFFICES ASSUME MicIInv, CaptureRead PROVE MicIInv'
    OBVIOUS
  <1>1. /\ mic_pc = "capture" /\ UNCHANGED scriptVars /\ toMic' = toMic
        /\ rate' \in Rates /\ stalls' \in 0..MaxStalls /\ troubles' \in 0..MaxTroubles
    BY WorkIs DEF CaptureRead
  <1>2. /\ I2sRead /\ mic_pc' = "capture drain"
        /\ captureBuffer' = Append(captureBuffer, Head(dma_blocks))
        /\ UNCHANGED <<discarded, errors, toScript>>
    BY DEF CaptureRead
  <1>3. /\ dma_blocks' \in Seq(Nat) /\ Len(dma_blocks') = Len(dma_blocks) - 1
        /\ Len(dma_blocks) \in Nat \ {0} /\ Len(dma_blocks') \in 0..DmaBlocks
        /\ Head(dma_blocks) = NextBlock /\ NextBlock' = NextBlock + 1
        /\ NextBlock \in Nat /\ produced' = produced
        /\ \A i \in 1..Len(dma_blocks') : dma_blocks'[i] = NextBlock' + i - 1
        /\ dma_events' = dma_events
    BY <1>2, ReadIs
  <1> DEFINE n == Len(captureBuffer)
  <1>4. n \in Nat /\ n < Takes /\ captureBuffer \in Seq(Nat)
    BY <1>1, MicFacts DEF MicIInv, DriverInStep
  <1>5. /\ captureBuffer' \in Seq(Nat) /\ Len(captureBuffer') = n + 1
        /\ captureBuffer'[n + 1] = NextBlock
        /\ \A i \in 1..n : captureBuffer'[i] = captureBuffer[i]
        /\ \A i \in 1..Len(captureBuffer') : i = n + 1 \/ i \in 1..n
    <2>1. captureBuffer' = Append(captureBuffer, NextBlock) /\ NextBlock \in Nat
      BY <1>2, <1>3
    <2> QED BY <1>4, <2>1, AppendIs
  <1>6. Warmup \in Nat /\ Takes \in Nat /\ NextBlock >= Warmup
        /\ \A i \in 1..n : captureBuffer[i] >= Warmup
    BY <1>1, CaptureConstantsAre DEF MicIInv, DriverInStep
  <1>7. DriverInStep'
    <2>1. produced' \in Nat /\ NextBlock' \in Nat /\ NextBlock' >= Warmup
      BY <1>3, <1>6, MicFacts
    <2>2. \A i \in 1..Len(captureBuffer') : captureBuffer'[i] >= Warmup
      BY <1>5, <1>6
    <2>3. discarded' \in Nat
      BY <1>2, MicFacts
    <2> QED BY <1>2, <1>3, <2>1, <2>2, <2>3 DEF DriverInStep
  <1>8. GapsAreReported'
    <2> SUFFICES ASSUME errors = 0 PROVE (InOrder /\ Contiguous)' \/ GapInDrain'
      BY <1>2 DEF GapsAreReported
    <2>1. InOrder /\ (Contiguous \/ GapInCapture)
      BY <1>1 DEF MicIInv, GapsAreReported
    <2>2. CASE GapInCapture
      BY <1>3, <2>2 DEF GapInCapture, GapInDrain
    <2>3. CASE Contiguous
      <3>1. CASE n = 0
        <4>1. captureBuffer'[1] = NextBlock /\ Len(captureBuffer') = 1
          BY <1>5, <3>1
        <4>2. InOrder'
          BY <4>1, <1>3 DEF InOrder
        <4>3. Contiguous'
          BY <4>1, <1>3 DEF Contiguous
        <4> QED BY <4>2, <4>3
      <3>2. CASE n # 0
        <4>1. captureBuffer # <<>> /\ 1 \in 1..n
          BY <1>4, <3>2
        <4>2. NextBlock = captureBuffer[1] + n /\ captureBuffer'[1] = captureBuffer[1]
          BY <1>5, <2>3, <4>1 DEF Contiguous
        <4>3. captureBuffer[1] \in Nat
          BY <1>4, <4>1
        <4>4. Contiguous'
          BY <1>3, <1>4, <1>5, <4>2, <4>3 DEF Contiguous
        <4>5. \A i \in 1..n : captureBuffer[i] = captureBuffer[1] + i - 1
          BY <2>1 DEF InOrder
        <4>6. captureBuffer'[n + 1] = captureBuffer'[1] + (n + 1) - 1
          BY <1>4, <1>5, <4>2, <4>3
        <4>7. InOrder'
          BY <1>5, <4>2, <4>5, <4>6 DEF InOrder
        <4> QED BY <4>4, <4>7
      <3> QED BY <3>1, <3>2
    <2> QED BY <2>1, <2>2, <2>3
  <1>9. /\ dma_events' \in Seq(Events) /\ Len(dma_events') \in 0..EventDepth /\ errors' \in Nat
    BY <1>2, <1>3 DEF MicIInv, CaptureSeqs, CaptureTypeOK
  <1>10. Len(captureBuffer') \in 0..Takes
    BY <1>4, <1>5, <1>6
  <1> QED BY <1>1, <1>2, <1>3, <1>5, <1>7, <1>8, <1>9, <1>10, CaptureStepKeeps

LEMMA DrainsKeep == MicIInv /\ (WarmupDrained \/ CaptureDrained) => MicIInv'
  <1> SUFFICES ASSUME MicIInv, WarmupDrained \/ CaptureDrained PROVE MicIInv'
    OBVIOUS
  <1>1. /\ dma_events' = <<>> /\ UNCHANGED <<dma_blocks, produced, discarded, captureBuffer, toScript>>
    BY DEF WarmupDrained, CaptureDrained, Drained
  <1>2. UNCHANGED scriptVars /\ toMic' = toMic
        /\ rate' \in Rates /\ stalls' \in 0..MaxStalls /\ troubles' \in 0..MaxTroubles
    BY WorkIs DEF WarmupDrained, CaptureDrained
  <1>3. /\ dma_events' \in Seq(Events) /\ Len(dma_events') \in 0..EventDepth
        /\ Len(dma_blocks') \in 0..DmaBlocks /\ Len(captureBuffer') \in 0..Takes
        /\ dma_blocks' \in Seq(Nat) /\ captureBuffer' \in Seq(Nat)
    <2>1. <<>> \in Seq(Events) /\ Len(<<>>) = 0 /\ 0 \in 0..EventDepth
      BY CaptureConstantsAre
    <2> QED BY <1>1, <2>1 DEF MicIInv, CaptureSeqs, CaptureTypeOK
  <1>4. /\ NextBlock' = NextBlock /\ produced' \in Nat /\ NextBlock' \in Nat /\ discarded' \in Nat
        /\ \A i \in 1..Len(dma_blocks') : dma_blocks'[i] = NextBlock' + i - 1
    BY <1>1 DEF MicIInv, DriverInStep, NextBlock
  <1>5. CASE WarmupDrained
    <2>1. /\ mic_pc = "warmup drain" /\ errors' = errors
          /\ mic_pc' = IF discarded < Warmup THEN "warmup" ELSE "capture"
      BY <1>5 DEF WarmupDrained, Works
    <2>2. NextBlock >= discarded /\ captureBuffer = <<>> /\ errors = 0
      BY <2>1 DEF MicIInv, DriverInStep
    <2>3. Len(<<>>) = 0 /\ 0 < Takes /\ Warmup \in Nat /\ \A i \in 1..0 : FALSE
      BY CaptureConstantsAre
    <2>4. ~(discarded < Warmup) => NextBlock >= Warmup
      BY <2>2, <2>3, MicFacts
    <2>5. DriverInStep'
      BY <1>1, <1>4, <2>1, <2>2, <2>3, <2>4 DEF DriverInStep
    <2>6. GapsAreReported'
      BY <1>1, <2>1, <2>2, <2>3 DEF GapsAreReported, InOrder, Contiguous
    <2>7. errors' \in Nat
      BY <2>1, <2>2
    <2>8. mic_pc' \in {"warmup", "warmup drain", "capture", "capture drain", "captured"}
      BY <2>1
    <2> QED BY <1>1, <1>2, <1>3, <2>5, <2>6, <2>7, <2>8, CaptureStepKeeps
  <1>6. CASE CaptureDrained
    <2>1. /\ mic_pc = "capture drain" /\ errors' = errors + Overflows
          /\ mic_pc' = IF Len(captureBuffer) < Takes THEN "capture" ELSE "captured"
      BY <1>6 DEF CaptureDrained, Works
    <2>2. errors \in Nat /\ Overflows \in Nat
          /\ (Overflows = 0 => \A k \in 1..3 : ~LostLately(dma_events, k))
      BY MicFacts, OverflowsAre
    <2>3. errors' \in Nat /\ (errors' = 0 => errors = 0 /\ Overflows = 0)
      <3>1. errors' = errors + Overflows
        BY <2>1
      <3> QED BY <2>2, <3>1
    <2>4. NextBlock >= Warmup /\ \A i \in 1..Len(captureBuffer) : captureBuffer[i] >= Warmup
      BY <2>1 DEF MicIInv, DriverInStep
    <2>5. Len(captureBuffer) < Takes \/ Len(captureBuffer) = Takes
      BY MicFacts, CaptureConstantsAre
    <2>6. DriverInStep'
      <3>1. \/ mic_pc' = "capture" /\ Len(captureBuffer) < Takes
            \/ mic_pc' = "captured" /\ Len(captureBuffer) = Takes
        BY <2>1, <2>5
      <3>2. captureBuffer' = captureBuffer /\ discarded' = discarded /\ discarded \in Nat
        BY <1>1, <1>4 DEF MicIInv, DriverInStep
      <3> QED BY <1>4, <2>4, <3>1, <3>2 DEF DriverInStep
    <2>7. GapsAreReported'
      <3> SUFFICES ASSUME errors' = 0 PROVE GapsAreReported'
        BY DEF GapsAreReported
      <3>1. (InOrder /\ Contiguous) \/ GapInDrain
        BY <2>1, <2>3 DEF MicIInv, GapsAreReported
      <3>2. ~GapInDrain
        <4>1. 2 \in 1..3 /\ 3 \in 1..3
          OBVIOUS
        <4> QED BY <2>2, <2>3, <4>1 DEF GapInDrain
      <3>3. InOrder' /\ Contiguous'
        BY <1>1, <1>4, <3>1, <3>2 DEF InOrder, Contiguous
      <3> QED BY <2>1, <3>3 DEF GapsAreReported
    <2>8. mic_pc' \in {"warmup", "warmup drain", "capture", "capture drain", "captured"}
      BY <2>1
    <2> QED BY <1>1, <1>2, <1>3, <2>3, <2>6, <2>7, <2>8, CaptureStepKeeps
  <1> QED BY <1>5, <1>6

\* What is offered is one recording.
LEMMA OfferKeeps == MicIInv /\ CaptureOffered => MicIInv'
  <1> SUFFICES ASSUME MicIInv, CaptureOffered PROVE MicIInv'
    OBVIOUS
  <1>1. /\ mic_pc = "captured" /\ errors = 0 /\ mic_pc' = "offer"
        /\ dma_blocks' = <<>> /\ produced' = 0 /\ dma_events' = <<>>
        /\ toScript' = Append(toScript, <<"RAW", <<rate, captureBuffer>>>>)
        /\ UNCHANGED <<rate, discarded, captureBuffer, errors, toMic, scriptVars, stalls>>
        /\ NoTrouble
    BY DEF CaptureOffered, Works, Uninstalled, Prints
  <1>2. OneRecording(captureBuffer)
    <2>1. InOrder /\ Len(captureBuffer) = Takes
          /\ \A n \in 1..Len(captureBuffer) : captureBuffer[n] >= Warmup
      BY <1>1 DEF MicIInv, GapsAreReported, DriverInStep
    <2>2. \A n \in 1..Len(captureBuffer) : captureBuffer[n] \in Nat
      BY MicFacts
    <2> QED BY <2>1, <2>2 DEF OneRecording, InOrder
  <1>3. OffersAreTrue' /\ ScriptInStep' /\ SavedIsOneRecording'
        /\ \E S, T : toScript' \in Seq(S) /\ raw' \in Seq(T)
    <2> DEFINE item == <<"RAW", <<rate, captureBuffer>>>>
    <2>1. item[1] = "RAW" => OneRecording(item[2][2])
      BY <1>2
    <2> QED BY <1>1, <2>1, PrintKeeps
  <1>4. /\ Len(<<>>) = 0 /\ <<>> \in Seq(Nat) /\ <<>> \in Seq(Events) /\ 0 \in 0..DmaBlocks
        /\ 0 \in 0..EventDepth /\ 0 - 0 = 0 /\ \A i \in 1..0 : FALSE
    BY CaptureConstantsAre
  <1>5. toMic' \in Seq(MicItems) /\ discarded' \in Nat /\ troubles' \in 0..MaxTroubles
    BY <1>1, MicFacts
  <1>6. CaptureSeqs'
    BY <1>1, <1>3, <1>4, <1>5 DEF MicIInv, CaptureSeqs
  <1>7. CaptureTypeOK'
    BY <1>1, <1>4, <1>5 DEF MicIInv, CaptureTypeOK, scriptVars
  <1>8. DriverInStep' /\ GapsAreReported'
    BY <1>1, <1>4, <1>5 DEF DriverInStep, NextBlock, GapsAreReported
  <1> QED BY <1>3, <1>6, <1>7, <1>8 DEF MicIInv

LEMMA GarblesKeep == MicIInv /\ PortGarbles => MicIInv'
  <1> SUFFICES ASSUME MicIInv, PortGarbles PROVE MicIInv'
    OBVIOUS
  <1>1. /\ UNCHANGED <<mic_pc, rate, discarded, captureBuffer, errors, dma_blocks, produced,
                       dma_events, stalls>>
        /\ UNCHANGED <<script_pc, asked, digest, raw, saved, scripts>>
        /\ troubles' \in 0..MaxTroubles
    BY MicFacts DEF PortGarbles, micVars, driverVars, scriptVars
  <1>2. CaptureTypeOK' /\ DriverInStep' /\ GapsAreReported' /\ ScriptInStep' /\ SavedIsOneRecording'
    <2>1. CaptureTypeOK' /\ ScriptInStep' /\ SavedIsOneRecording'
      BY <1>1 DEF MicIInv, CaptureTypeOK, ScriptInStep, SavedIsOneRecording
    <2>2. DriverInStep' /\ GapsAreReported'
      BY <1>1 DEF MicIInv, DriverInStep, NextBlock, GapsAreReported, InOrder, Contiguous,
                  GapInCapture, GapInDrain
    <2> QED BY <2>1, <2>2
  <1>3. toMic' \in Seq(MicItems)
    <2>1. CASE toMic' = toMic
      BY <2>1, MicFacts
    <2>2. CASE \E n \in 1..Len(toMic) : toMic' = [toMic EXCEPT ![n] = Noise]
      BY <2>2, MicFacts, PlainWords, ExceptSeq
    <2> QED BY <2>1, <2>2 DEF PortGarbles
  <1>4. PICK S, T : toScript \in Seq(S) /\ raw \in Seq(T)
    BY DEF MicIInv, CaptureSeqs
  <1>5. /\ \E U : toScript' \in Seq(U)
        /\ Len(toScript') = Len(toScript)
        /\ \A i \in 1..Len(toScript) : toScript'[i] = toScript[i] \/ toScript'[i] = Noise
    <2>1. CASE toScript' = toScript
      BY <1>4, <2>1
    <2>2. CASE \E n \in 1..Len(toScript) : toScript' = [toScript EXCEPT ![n] = Noise]
      <3>1. PICK n \in 1..Len(toScript) : toScript' = [toScript EXCEPT ![n] = Noise]
        BY <2>2
      <3>2. toScript \in Seq(S \cup {Noise})
        BY <1>4, LenProperties
      <3> QED BY <3>1, <3>2, ExceptSeq
    <2> QED BY <2>1, <2>2 DEF PortGarbles
  <1>6. OffersAreTrue'
    <2>1. Noise[1] # "RAW"
      BY PlainWords DEF Noise
    <2>2. \A i \in 1..Len(toScript) : toScript[i][1] = "RAW" => OneRecording(toScript[i][2][2])
      BY DEF MicIInv, OffersAreTrue
    <2> QED BY <1>5, <2>1, <2>2 DEF OffersAreTrue
  <1>7. CaptureSeqs'
    BY <1>1, <1>3, <1>4, <1>5 DEF MicIInv, CaptureSeqs
  <1> QED BY <1>2, <1>6, <1>7 DEF MicIInv

-----------------------------------------------------------------------------
(* record.py.                                                               *)

\* A line that the script takes.
LEMMA LineIs ==
    ASSUME MicIInv, NEW pc, NEW word, ScriptReads(pc, word)
    PROVE  /\ script_pc = pc /\ Head(toScript)[1] = word
           /\ UNCHANGED <<micVars, driverVars, asked, stalls, troubles>>
           /\ OffersAreTrue' /\ \E S : toScript' \in Seq(S)
           /\ word = "RAW" => OneRecording(Head(toScript)[2][2])
  <1>1. script_pc = pc /\ toScript # <<>> /\ Head(toScript)[1] = word /\ toScript' = Tail(toScript)
        /\ UNCHANGED <<micVars, driverVars, asked, stalls, troubles>>
    BY DEF ScriptReads
  <1>2. PICK S, T : toScript \in Seq(S) /\ raw \in Seq(T)
    BY DEF MicIInv, CaptureSeqs
  <1>3. /\ toScript' \in Seq(S)
        /\ \A i \in 1..Len(toScript') : toScript'[i] = toScript[i + 1] /\ i + 1 \in 1..Len(toScript)
        /\ Head(toScript) = toScript[1] /\ 1 \in 1..Len(toScript)
    BY <1>1, <1>2, TailIs
  <1>4. \A i \in 1..Len(toScript) : toScript[i][1] = "RAW" => OneRecording(toScript[i][2][2])
    BY DEF MicIInv, OffersAreTrue
  <1>5. OffersAreTrue'
    BY <1>3, <1>4 DEF OffersAreTrue
  <1>6. word = "RAW" => OneRecording(Head(toScript)[2][2])
    BY <1>1, <1>3, <1>4
  <1> QED BY <1>1, <1>3, <1>5, <1>6

\* What the script does leaves the capture alone.
LEMMA ScriptStepKeeps ==
    ASSUME MicIInv, UNCHANGED <<micVars, driverVars, stalls, troubles>>,
           toMic' \in Seq(MicItems), script_pc' \in {"off", "ready", "raw", "bytes", "end"},
           asked' \in Rates, Len(raw') \in 0..Takes,
           \E S : toScript' \in Seq(S), \E T : raw' \in Seq(T),
           OffersAreTrue', ScriptInStep', SavedIsOneRecording'
    PROVE  MicIInv'
  <1>1. UNCHANGED <<mic_pc, rate, discarded, captureBuffer, errors, dma_blocks, produced, dma_events>>
    BY DEF micVars, driverVars
  <1>2. CaptureTypeOK' /\ CaptureSeqs'
    BY <1>1 DEF MicIInv, CaptureTypeOK, CaptureSeqs
  <1>3. DriverInStep' /\ GapsAreReported'
    BY <1>1 DEF MicIInv, DriverInStep, NextBlock, GapsAreReported, InOrder, Contiguous,
                GapInCapture, GapInDrain
  <1> QED BY <1>2, <1>3 DEF MicIInv

LEMMA ScriptFacts ==
    ASSUME MicIInv
    PROVE  /\ asked \in Rates /\ Len(raw) \in 0..Takes /\ \E T : raw \in Seq(T)
           /\ \E S : toScript \in Seq(S)
           /\ toMic \in Seq(MicItems) /\ Takes \in Nat \ {0}
           /\ \A item \in MicItems : Append(toMic, item) \in Seq(MicItems)
  BY CaptureConstantsAre, AppendIs DEF MicIInv, CaptureTypeOK, CaptureSeqs

LEMMA ScriptBeginsKeeps == MicIInv /\ (ScriptStarts \/ ScriptResets) => MicIInv'
  <1> SUFFICES ASSUME MicIInv, ScriptStarts \/ ScriptResets PROVE MicIInv'
    OBVIOUS
  <1>1. /\ script_pc' = "ready" /\ asked' \in Rates /\ raw' = <<>> /\ saved' = <<>>
        /\ troubles' = troubles /\ stalls' = stalls
    BY DEF ScriptStarts, ScriptResets, ScriptBegins, NoTrouble, MicBoots
  <1>2. Len(raw') \in 0..Takes /\ \E T : raw' \in Seq(T)
    <2>1. Len(<<>>) = 0 /\ 0 \in 0..Takes /\ <<>> \in Seq({})
      BY CaptureConstantsAre
    <2> QED BY <1>1, <2>1
  <1>3. ScriptInStep' /\ SavedIsOneRecording'
    <2>1. Len(<<>>) < Takes
      BY CaptureConstantsAre
    <2> QED BY <1>1, <2>1 DEF ScriptInStep, SavedIsOneRecording
  <1>4. CASE ScriptStarts
    <2>1. toScript' = <<>> /\ toMic' = Append(toMic, Plain("status"))
          /\ UNCHANGED <<micVars, driverVars, stalls>>
      BY <1>4 DEF ScriptStarts, Asks
    <2>2. toMic' \in Seq(MicItems)
      BY <2>1, PlainWords, ScriptFacts
    <2>3. OffersAreTrue' /\ \E S : toScript' \in Seq(S)
      <3>1. <<>> \in Seq({}) /\ Len(<<>>) = 0 /\ \A i \in 1..0 : FALSE
        OBVIOUS
      <3> QED BY <2>1, <3>1 DEF OffersAreTrue
    <2> QED BY <1>1, <1>2, <1>3, <2>1, <2>2, <2>3, ScriptStepKeeps
  <1>5. CASE ScriptResets
    <2>1. /\ toScript' = <<Plain("MIC_CAPTURE_READY")>> /\ toMic' = <<Plain("status")>>
          /\ mic_pc' = "loop" /\ dma_blocks' = <<>> /\ produced' = 0 /\ dma_events' = <<>>
          /\ UNCHANGED <<rate, discarded, captureBuffer, errors>>
      BY <1>5 DEF ScriptResets, MicBoots, Uninstalled
    <2>2. toMic' \in Seq(MicItems)
      BY <2>1, PlainWords
    <2>3. OffersAreTrue' /\ \E S : toScript' \in Seq(S)
      <3> DEFINE line == Plain("MIC_CAPTURE_READY")
      <3>1. line[1] # "RAW"
        BY PlainWords
      <3>2. toScript' \in Seq({line}) /\ \A i \in 1..Len(toScript') : toScript'[i] = line
        BY <2>1
      <3> QED BY <3>1, <3>2 DEF OffersAreTrue
    <2>4. Len(<<>>) = 0 /\ <<>> \in Seq(Nat) /\ <<>> \in Seq(Events) /\ 0 \in 0..DmaBlocks
          /\ 0 \in 0..EventDepth /\ 0 - 0 = 0 /\ \A i \in 1..0 : FALSE
      BY CaptureConstantsAre
    <2>5. CaptureTypeOK' /\ CaptureSeqs'
      BY <1>1, <1>2, <2>1, <2>2, <2>3, <2>4 DEF MicIInv, CaptureTypeOK, CaptureSeqs
    <2>6. DriverInStep' /\ GapsAreReported'
      BY <2>1, <2>4, MicFacts DEF DriverInStep, NextBlock, GapsAreReported
    <2> QED BY <1>3, <2>3, <2>5, <2>6 DEF MicIInv
  <1> QED BY <1>4, <1>5

\* What it saves agrees with the digest it was promised, and that is of one recording.
LEMMA ScriptKeeps ==
    MicIInv /\ (ScriptAsks \/ ScriptGets \/ ScriptTakes \/ ScriptSaves \/ ScriptSkips \/ ScriptStops)
        => MicIInv'
  <1> SUFFICES ASSUME MicIInv,
                      \/ ScriptAsks \/ ScriptGets \/ ScriptTakes
                      \/ ScriptSaves \/ ScriptSkips \/ ScriptStops
               PROVE  MicIInv'
    OBVIOUS
  <1>1. CASE ScriptAsks
    <2>1. ScriptReads("ready", "MIC_CAPTURE_READY") /\ script_pc' = "raw"
          /\ toMic' = Append(toMic, <<"capture", <<asked>>>>) /\ UNCHANGED <<digest, raw, saved>>
      BY <1>1 DEF ScriptAsks, Asks
    <2>2. /\ UNCHANGED <<micVars, driverVars, asked, stalls, troubles>>
          /\ OffersAreTrue' /\ \E S : toScript' \in Seq(S) /\ script_pc = "ready"
      BY <2>1, LineIs
    <2>3. toMic' \in Seq(MicItems)
      BY <2>1, PlainWords, ScriptFacts
    <2>4. ScriptInStep' /\ SavedIsOneRecording'
      BY <2>1, <2>2 DEF MicIInv, ScriptInStep, SavedIsOneRecording
    <2> QED BY <2>1, <2>2, <2>3, <2>4, ScriptFacts, ScriptStepKeeps
  <1>2. CASE ScriptGets
    <2>1. ScriptReads("raw", "RAW") /\ script_pc' = "bytes" /\ digest' = Head(toScript)[2][2]
          /\ toMic' = Append(toMic, Plain("GET")) /\ UNCHANGED <<raw, saved>>
      BY <1>2 DEF ScriptGets, Asks
    <2>2. /\ UNCHANGED <<micVars, driverVars, asked, stalls, troubles>>
          /\ OffersAreTrue' /\ \E S : toScript' \in Seq(S)
          /\ OneRecording(digest') /\ script_pc = "raw"
      BY <2>1, LineIs
    <2>3. toMic' \in Seq(MicItems)
      BY <2>1, PlainWords, ScriptFacts
    <2>4. SavedIsOneRecording'
      BY <2>1, <2>2 DEF MicIInv, SavedIsOneRecording
    <2>5. Len(raw) < Takes
      BY <2>2 DEF MicIInv, ScriptInStep
    <2>6. ScriptInStep'
      BY <2>1, <2>2, <2>5 DEF ScriptInStep
    <2> QED BY <2>1, <2>2, <2>3, <2>4, <2>6, ScriptFacts, ScriptStepKeeps
  <1>3. CASE ScriptTakes
    <2> DEFINE piece == IF Head(toScript)[1] = "block" THEN Head(toScript)[2] ELSE <<0, 0>>
    <2>1. PICK word : ScriptReads("bytes", word)
      BY <1>3 DEF ScriptTakes
    <2>2. /\ raw' = Append(raw, piece)
          /\ script_pc' = IF Len(raw') < Takes THEN "bytes" ELSE "end"
          /\ UNCHANGED <<toMic, digest, saved>>
      BY <1>3 DEF ScriptTakes
    <2>3. /\ UNCHANGED <<micVars, driverVars, asked, stalls, troubles>>
          /\ OffersAreTrue' /\ \E S : toScript' \in Seq(S) /\ script_pc = "bytes"
      BY <2>1, LineIs
    <2>4. PICK T : raw \in Seq(T)
      BY ScriptFacts
    <2>5. Len(raw) < Takes /\ OneRecording(digest)
      BY <2>3 DEF MicIInv, ScriptInStep
    <2> HIDE DEF piece
    <2>6. raw' \in Seq(T \cup {piece}) /\ Len(raw') = Len(raw) + 1
      <3>1. raw \in Seq(T \cup {piece})
        BY <2>4, LenProperties
      <3> QED BY <2>2, <3>1, AppendIs
    <2>7. Len(raw') \in 0..Takes
      <3>1. Len(raw) \in 0..Takes /\ Takes \in Nat
        BY ScriptFacts
      <3> QED BY <2>5, <2>6, <3>1
    <2>8. ScriptInStep'
      BY <2>2, <2>5 DEF ScriptInStep
    <2>9. SavedIsOneRecording'
      BY <2>2, <2>3 DEF MicIInv, SavedIsOneRecording
    <2>10. toMic' \in Seq(MicItems) /\ asked' \in Rates
      BY <2>2, <2>3, ScriptFacts
    <2>11. script_pc' \in {"off", "ready", "raw", "bytes", "end"}
      BY <2>2
    <2> QED BY <2>3, <2>6, <2>7, <2>8, <2>9, <2>10, <2>11, ScriptStepKeeps
  <1>4. CASE ScriptSaves
    <2>1. /\ ScriptReads("end", "END") /\ raw = [n \in 1..Takes |-> <<asked, digest[n]>>]
          /\ script_pc' = "off" /\ saved' = raw /\ UNCHANGED <<toMic, digest, raw>>
      BY <1>4 DEF ScriptSaves
    <2>2. /\ UNCHANGED <<micVars, driverVars, asked, stalls, troubles>>
          /\ OffersAreTrue' /\ \E S : toScript' \in Seq(S) /\ script_pc = "end"
      BY <2>1, LineIs
    <2>3. OneRecording(digest)
      BY <2>2 DEF MicIInv, ScriptInStep
    <2>4. \A n \in 1..Takes : saved'[n] = <<asked', digest[n]>> /\ saved'[n][2] = digest[n]
      BY <2>1, <2>2
    <2>5. SavedIsOneRecording'
      <3>1. 1 \in 1..Takes
        BY ScriptFacts
      <3>2. saved'[1][2] = digest[1]
        BY <2>4, <3>1
      <3>3. \A n \in 1..Takes : digest[n] = digest[1] + n - 1 /\ digest[n] >= Warmup
        BY <2>3 DEF OneRecording
      <3> QED BY <2>4, <3>2, <3>3 DEF SavedIsOneRecording
    <2>6. ScriptInStep'
      BY <2>1 DEF ScriptInStep
    <2>7. toMic' \in Seq(MicItems) /\ asked' \in Rates /\ Len(raw') \in 0..Takes
          /\ \E T : raw' \in Seq(T)
      BY <2>1, <2>2, ScriptFacts
    <2>8. script_pc' \in {"off", "ready", "raw", "bytes", "end"}
      BY <2>1
    <2> QED BY <2>2, <2>5, <2>6, <2>7, <2>8, ScriptStepKeeps
  <1>5. CASE ScriptSkips
    <2>1. PICK word : ScriptReads(script_pc, word)
      BY <1>5 DEF ScriptSkips
    <2>2. script_pc \in {"ready", "raw", "end"} /\ UNCHANGED <<script_pc, toMic, digest, raw, saved>>
      BY <1>5 DEF ScriptSkips
    <2>3. /\ UNCHANGED <<micVars, driverVars, asked, stalls, troubles>>
          /\ OffersAreTrue' /\ \E S : toScript' \in Seq(S)
      BY <2>1, LineIs
    <2>4. ScriptInStep' /\ SavedIsOneRecording'
      BY <2>2, <2>3 DEF MicIInv, ScriptInStep, SavedIsOneRecording
    <2>5. script_pc' \in {"off", "ready", "raw", "bytes", "end"}
      BY <2>2
    <2> QED BY <2>2, <2>3, <2>4, <2>5, ScriptFacts, ScriptStepKeeps
  <1>6. CASE ScriptStops
    <2>1. /\ script_pc' = "off"
          /\ UNCHANGED <<micVars, driverVars, toMic, toScript, asked, digest, raw, saved, stalls,
                         troubles>>
      BY <1>6 DEF ScriptStops
    <2>2. ScriptInStep' /\ SavedIsOneRecording' /\ OffersAreTrue'
      BY <2>1 DEF MicIInv, ScriptInStep, SavedIsOneRecording, OffersAreTrue
    <2> QED BY <2>1, <2>2, ScriptFacts, ScriptStepKeeps
  <1> QED BY <1>1, <1>2, <1>3, <1>4, <1>5, <1>6

-----------------------------------------------------------------------------

LEMMA MicInitIInv == CaptureInit => MicIInv
  <1> SUFFICES ASSUME CaptureInit PROVE MicIInv
    OBVIOUS
  <1>1. /\ mic_pc = "loop" /\ rate \in Rates /\ discarded = 0 /\ captureBuffer = <<>> /\ errors = 0
        /\ dma_blocks = <<>> /\ produced = 0 /\ dma_events = <<>> /\ toMic = <<>> /\ toScript = <<>>
        /\ script_pc = "off" /\ asked \in Rates /\ raw = <<>> /\ saved = <<>>
        /\ stalls = 0 /\ troubles = 0
    BY DEF CaptureInit
  <1>2. /\ Len(<<>>) = 0 /\ <<>> \in Seq(Nat) /\ <<>> \in Seq(Events) /\ <<>> \in Seq(MicItems)
        /\ 0 \in 0..DmaBlocks /\ 0 \in 0..EventDepth /\ 0 \in 0..Takes /\ 0 \in 0..MaxStalls
        /\ 0 \in 0..MaxTroubles /\ 0 - 0 = 0 /\ 0 \in Nat /\ \A i \in 1..0 : FALSE
    BY CaptureConstantsAre
  <1>3. CaptureTypeOK
    BY <1>1, <1>2 DEF CaptureTypeOK
  <1>4. CaptureSeqs
    BY <1>1, <1>2 DEF CaptureSeqs
  <1>5. DriverInStep /\ GapsAreReported
    BY <1>1, <1>2 DEF DriverInStep, NextBlock, GapsAreReported
  <1>6. OffersAreTrue /\ ScriptInStep /\ SavedIsOneRecording
    BY <1>1, <1>2 DEF OffersAreTrue, ScriptInStep, SavedIsOneRecording
  <1> QED BY <1>3, <1>4, <1>5, <1>6 DEF MicIInv

LEMMA MicStepKeeps == MicIInv /\ [CaptureNext]_captureVars => MicIInv'
  <1>1. MicIInv /\ CaptureNext => MicIInv'
    BY ArrivalKeeps, MicRestKeeps, StartKeeps, WarmupReadKeeps, CaptureReadKeeps, DrainsKeep,
       GivingUpKeeps, OfferKeeps, GarblesKeep, ScriptBeginsKeeps, ScriptKeeps DEF CaptureNext
  <1>2. MicIInv /\ UNCHANGED captureVars => MicIInv'
    <2> SUFFICES ASSUME MicIInv, UNCHANGED captureVars PROVE MicIInv'
      OBVIOUS
    <2>1. UNCHANGED <<micVars, driverVars, stalls, troubles, toMic, toScript, script_pc, asked,
                      digest, raw, saved>>
      BY DEF captureVars, scriptVars
    <2>2. ScriptInStep' /\ SavedIsOneRecording' /\ OffersAreTrue'
      BY <2>1 DEF MicIInv, ScriptInStep, SavedIsOneRecording, OffersAreTrue
    <2>3. script_pc' \in {"off", "ready", "raw", "bytes", "end"}
      BY <2>1 DEF MicIInv, CaptureTypeOK
    <2> QED BY <2>1, <2>2, <2>3, ScriptFacts, ScriptStepKeeps
  <1> QED BY <1>1, <1>2

LEMMA MicInvariant == CaptureSpec => []MicIInv
  BY MicInitIInv, MicStepKeeps, PTL DEF CaptureSpec

\* The types of the capture tool's variables.
THEOREM CaptureTypeCorrect == CaptureSpec => []CaptureTypeOK
  <1>1. MicIInv => CaptureTypeOK
    BY DEF MicIInv
  <1> QED BY <1>1, MicInvariant, PTL

\* What record.py saves is one recording without a gap, at the rate asked for and after
\* the start-up samples, however often the driver drops a block and its report of it.
THEOREM SavedStaysOneRecording == CaptureSpec => []SavedIsOneRecording
  <1>1. MicIInv => SavedIsOneRecording
    BY DEF MicIInv
  <1> QED BY <1>1, MicInvariant, PTL

-----------------------------------------------------------------------------
(* The parts side by side.                                                  *)

\* A step of one part is a step or a stutter of each.
LEMMA OneAtATime ==
    ASSUME [Next]_vars
    PROVE  /\ [WindowNext]_window /\ [ButtonNext]_buttonVars /\ [AvNext]_avVars
           /\ [LocalNext]_localVars /\ [LoraNext]_loraVars /\ [AdpcmNext]_adpcmVars
           /\ [FileNext]_fileVars /\ [CaptureNext]_captureVars
  BY DEF Next, vars, partVars, InWindow, InButton, InAvPlayer, InLocalPlayer, InLora, InCoder,
         InFilePlayer, InCapture

AllIInv ==
    /\ WindowIInv /\ ButtonIInv /\ IInv /\ LocalIInv /\ LoraIInv /\ AdpcmIInv
    /\ FileIInv /\ MicIInv

\* Whichever part runs, its variables have their types, and those of the others.
THEOREM TypesStayOK == Spec => []TypesOK
  <1>1. Init => AllIInv
    BY WindowInitIInv, ButtonInitIInv, InitIInv, LocalInitIInv, LoraInitIInv, AdpcmInitIInv,
       FileInitIInv, MicInitIInv DEF Init, AllIInv
  <1>2. AllIInv /\ [Next]_vars => AllIInv'
    BY OneAtATime, WindowStepIInv, ButtonNextKeeps, AvStepKeeps, LocalStepKeeps, LoraStepKeeps,
       AdpcmStepKeeps, FileStepKeeps, MicStepKeeps DEF AllIInv
  <1>3. AllIInv => TypesOK
    <2>1. WindowIInv => WindowTypeOK
      BY DEF WindowIInv, WindowTypeOK, WindowOK
    <2>2. AdpcmIInv => AdpcmTypeOK
      BY AdpcmTypes
    <2> QED BY <2>1, <2>2
         DEF AllIInv, TypesOK, ButtonIInv, IInv, LocalIInv, LoraIInv, FileIInv, MicIInv
  <1> QED BY <1>1, <1>2, <1>3, PTL DEF Spec
=============================================================================
