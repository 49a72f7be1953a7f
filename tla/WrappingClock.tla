---------------------------- MODULE WrappingClock ----------------------------
(***************************************************************************)
(* millis() and micros(): counters of 32 bits that wrap, what the programs  *)
(* compute from them, and the time a property measures beside them, which   *)
(* does not wrap and ends at Wrap.                                          *)
(***************************************************************************)
EXTENDS Integers

CONSTANT Wrap           \* 2^32: where the counter starts again

ASSUME WrapAssumption == Wrap \in Nat \ {0}

\* Mutant: the counter has one value too many.
LaterPast(ticks, gap) == IF ticks + gap <= Wrap THEN ticks + gap ELSE ticks + gap - Wrap

\* The counter, so much later.
Later(ticks, gap) == IF ticks + gap < Wrap THEN ticks + gap ELSE ticks + gap - Wrap

\* Mutant: a subtraction that does not wrap.
ElapsedSigned(now, since) == now - since

\* now - since, in unsigned arithmetic.
Elapsed(now, since) == IF now >= since THEN now - since ELSE now - since + Wrap

\* Time that does not wrap.
Grown(time, gap) == IF time + gap < Wrap THEN time + gap ELSE Wrap
=============================================================================
