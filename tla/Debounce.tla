------------------------------ MODULE Debounce ------------------------------
(***************************************************************************)
(* The button of every board: button_test/src/main.cpp is the debouncer on  *)
(* its own; poll_button of button_lcd_test, wireless_av and wireless_stream *)
(* is the same code, and calls toggle_pause or start_send where button_test *)
(* counts a press.                                                          *)
(*                                                                          *)
(* millis() is a counter that wraps; time itself, which the properties are  *)
(* about, is kept beside it.                                                *)
(***************************************************************************)
EXTENDS WrappingClock

CONSTANTS
    DebounceMs,     \* debounce_ms
    MaxGap,         \* how long one turn of loop() may take
    HeldCounts,     \* "A button held at startup counts as a press": not on the radio boards
    MaxPresses      \* bound: presses counted

ASSUME DebounceConstants ==
    /\ DebounceMs \in Nat \ {0} /\ MaxGap \in Nat \ {0}
    /\ DebounceMs + MaxGap <= Wrap
    /\ HeldCounts \in BOOLEAN /\ MaxPresses \in Nat

VARIABLES
    now_ms, raw_pressed, stable_pressed, raw_changed_ms, pressed_ms, press_count,
    \* history, in milliseconds that do not wrap and end at Wrap: since the samples
    \* last changed, since the press was accepted; was a released button sampled
    steady, held, seen_released

buttonVars == <<now_ms, raw_pressed, stable_pressed, raw_changed_ms, pressed_ms, press_count,
          steady, held, seen_released>>

\* setup(): the level the program starts from.
Starts(raw, stable) ==
    /\ now_ms \in 0..MaxGap
    /\ raw_pressed = raw /\ stable_pressed = stable
    /\ raw_changed_ms = now_ms /\ pressed_ms = 0 /\ press_count = 0
    /\ steady = 0 /\ held = 0 /\ seen_released = ~raw

ButtonInit == \E raw \in BOOLEAN : Starts(raw, raw /\ ~HeldCounts)

-----------------------------------------------------------------------------

\* raw_changed_ms, once this sample is taken.
ChangedAt(sampled, ms) == IF sampled # raw_pressed THEN ms ELSE raw_changed_ms

\* The edge is accepted at this sample.
Accepts(sampled, ms) ==
    sampled # stable_pressed /\ Elapsed(ms, ChangedAt(sampled, ms)) >= DebounceMs

\* Time passes, and the samples' level is what it is.
Sampled(sampled, gap) ==
    /\ now_ms' = Later(now_ms, gap)
    /\ raw_pressed' = sampled
    /\ raw_changed_ms' = ChangedAt(sampled, now_ms')
    /\ steady' = IF sampled # raw_pressed THEN 0 ELSE Grown(steady, gap)
    /\ seen_released' = (seen_released \/ ~sampled)

\* One turn of loop() that accepts nothing.
Waits(sampled, gap) ==
    /\ Sampled(sampled, gap)
    /\ ~Accepts(sampled, now_ms')
    /\ held' = Grown(held, gap)
    /\ UNCHANGED <<stable_pressed, pressed_ms, press_count>>

\* One that accepts a press.
Presses(gap) ==
    /\ Sampled(TRUE, gap)
    /\ Accepts(TRUE, now_ms') /\ press_count < MaxPresses
    /\ stable_pressed' = TRUE
    /\ pressed_ms' = now_ms' /\ press_count' = press_count + 1
    /\ held' = 0

\* One that accepts a release, and tells how long the button was held.
Releases(gap) ==
    /\ Sampled(FALSE, gap)
    /\ Accepts(FALSE, now_ms')
    /\ stable_pressed' = FALSE
    /\ held' = Grown(held, gap)
    /\ UNCHANGED <<pressed_ms, press_count>>

ButtonNext ==
    \E gap \in 1..MaxGap :
        \/ \E sampled \in BOOLEAN : Waits(sampled, gap)
        \/ Presses(gap)
        \/ Releases(gap)

ButtonSpec == ButtonInit /\ [][ButtonNext]_buttonVars

-----------------------------------------------------------------------------
(* Properties.                                                              *)

\* The type invariant.
ButtonTypeOK ==
    /\ {now_ms, raw_changed_ms, pressed_ms} \subseteq 0..(Wrap - 1)
    /\ {raw_pressed, stable_pressed, seen_released} \subseteq BOOLEAN
    /\ press_count \in 0..MaxPresses
    /\ {steady, held} \subseteq 0..Wrap

\* No edge waits once its level has been steady for debounce_ms.
NoneWaits ==
    raw_pressed # stable_pressed /\ (raw_pressed => press_count < MaxPresses) =>
        steady < DebounceMs

\* "Accept an edge only after the input stays unchanged for debounce_ms"
\* (main.cpp:50), and then at once: whatever bounces before, however long a turn
\* takes and however old raw_changed_ms is when millis() wraps.
EdgesAreExact ==
    [][stable_pressed' # stable_pressed <=>
          /\ raw_pressed' # stable_pressed /\ steady' >= DebounceMs
          /\ raw_pressed' => press_count < MaxPresses]_buttonVars

\* What a release tells is how long the button was held, unless for 2^32 ms.
TellsHeld ==
    [][stable_pressed /\ ~stable_pressed' /\ press_count > 0 /\ held' < Wrap =>
          Elapsed(now_ms', pressed_ms) = held']_buttonVars

\* A press seen by the radio boards was preceded by a released button: none is
\* made of a button held while the board starts.
NotAtStart == [][~stable_pressed /\ stable_pressed' => HeldCounts \/ seen_released]_buttonVars
=============================================================================
