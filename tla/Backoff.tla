------------------------------ MODULE Backoff ------------------------------
(***************************************************************************)
(* The delays between a loop's restarts (shared/routine/backoff.go), in    *)
(* integers of W bits: Go's time.Duration has 64.                          *)
(***************************************************************************)
EXTENDS Integers

CONSTANTS W,           \* the width of a duration, its sign included
          MaxAttempts  \* bound: delays since the last Reset

ASSUME BackoffAssumption == W \in Nat /\ W > 2 /\ MaxAttempts \in Nat

VARIABLES min, max,  \* Backoff.min and max
          attempt,   \* Backoff.attempt
          delay      \* the last delay, -1 before the first

backoff == <<min, max, attempt, delay>>

Largest == 2^(W - 1) - 1

\* x in two's complement.
Wrapped(x) ==
  LET low == x % 2^W
  IN  IF low <= Largest THEN low ELSE low - 2^W

\* checkBackoff panics on any other pair.
Legal(lo, hi) == 0 < lo /\ lo <= hi

BackoffInit ==
  /\ min \in 1..Largest
  /\ max \in 1..Largest
  /\ Legal(min, max)
  /\ attempt = 0
  /\ delay = -1

\* The delay before its jitter.
Base ==
  LET grown == Wrapped(min * 2^attempt)
  IN  IF attempt < W - 2 /\ grown > 0 /\ grown < max THEN grown ELSE max

\* Mutant of NextDelay: the jitter is added to the whole delay.
NextDelayOver ==
  /\ attempt < MaxAttempts
  /\ delay' \in {Base + j : j \in 0..(Base \div 2)}
  /\ attempt' = attempt + 1
  /\ UNCHANGED <<min, max>>

\* Backoff.Next: half the delay, and a random part of as much again.
NextDelay ==
  /\ attempt < MaxAttempts
  /\ delay' \in {Base \div 2 + j : j \in 0..(Base \div 2)}
  /\ attempt' = attempt + 1
  /\ UNCHANGED <<min, max>>

\* A run that lasted longer than max starts the delays over.
Reset ==
  /\ attempt' = 0
  /\ UNCHANGED <<min, max, delay>>

BackoffNext == NextDelay \/ Reset

BackoffSpec == BackoffInit /\ [][BackoffNext]_backoff
-----------------------------------------------------------------------------
(* Properties.                                                             *)

\* lo doubled once per attempt so far, capped at max, in integers without a width.
Doubled(lo) == IF lo * 2^attempt < max THEN lo * 2^attempt ELSE max

\* The delay that is made of d.
Jitters(d) == 2 * delay' >= d - 1 /\ delay' <= d

OddPart(x) == CHOOSE odd \in 1..x : odd % 2 = 1 /\ \E k \in 0..W : x = odd * 2^k

\* Pairs for which what is left of a shift that lost bits, a multiple of
\* 2^attempt, is no smaller than max.  The pairs in use are such: a Loop's
\* default, 1s to 30s, has 5^9 * 3 * 10^10 < 2^62.
Narrow(lo, hi) == OddPart(lo) * hi <= 2^(W - 2)

\* The pair and the attempt leave a delay to what a shift happens to leave.
Lossy == ~Narrow(min, max) /\ min * 2^attempt >= 2^(W - 2)

\* "Each is between half and all of min doubled once per attempt before it,
\* capped at max" (backoff.go:30), however many attempts came before: no
\* overflow of the shift makes a delay negative or none at all, and none
\* shortens one but for pairs that are not Narrow, which checkBackoff takes too.
\* What is left of min by a shift that lost bits may then pass for a delay below
\* max (backoff.go:35), as may max where min is doubled no further: such a delay
\* is no shorter than half of a single unit doubled as often, and no longer than
\* max.
DelayAsDocumented ==
  [][attempt' = attempt + 1 =>
       \/ Jitters(Doubled(min))
       \/ Lossy /\ 2 * delay' >= Doubled(1) - 1 /\ delay' <= max]_backoff

=============================================================================
