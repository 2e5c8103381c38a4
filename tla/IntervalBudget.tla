--------------------------- MODULE IntervalBudget ---------------------------
(***************************************************************************)
(* The byte budget of the pacer (rtc/modules/pacing/interval_budget.cpp):  *)
(* the class as a record and one operator per method.                      *)
(***************************************************************************)
EXTENDS Integers

CONSTANTS WindowMs,        \* kWindowMs, 500 in the code
          CanBuildUp,      \* can_build_up_underuse_, FALSE in the pacer
          IntLimit         \* largest int plus one, 2^31 in the build

ASSUME BudgetAssumption ==
  /\ WindowMs \in Nat \ {0}
  /\ CanBuildUp \in BOOLEAN
  /\ IntLimit \in Nat \ {0}

Larger(a, b) == IF a >= b THEN a ELSE b
Smaller(a, b) == IF a <= b THEN a ELSE b

\* int arithmetic wraps around, and integer division truncates towards zero.
Wrap(n) == ((n + IntLimit) % (2 * IntLimit)) - IntLimit
TruncDiv(n, d) == IF n >= 0 THEN n \div d ELSE -((-n) \div d)

MaxBytesInBudget(kbps) == TruncDiv(Wrap(kbps * WindowMs), 8)

SetTargetBitrate(b, kbps) ==
  LET max == MaxBytesInBudget(kbps)
  IN  [rate |-> kbps, max |-> max,
       remaining |-> Smaller(Larger(-max, b.remaining), max)]

BytesOf(b, ms) == (ms * b.rate) \div 8

IncreaseBudget(b, ms) ==
  LET base == IF b.remaining < 0 \/ CanBuildUp THEN b.remaining ELSE 0
  IN  [b EXCEPT !.remaining = Smaller(base + BytesOf(b, ms), b.max)]

\* [mutant: the overdraft of the last packet is forgotten]
UseBudgetNoDebt(b, bytes) == [b EXCEPT !.remaining = Larger(@ - bytes, 0)]

UseBudget(b, bytes) ==
  [b EXCEPT !.remaining = Larger(@ - bytes, -b.max)]

BytesRemaining(b) == Larger(0, b.remaining)

\* The constructor runs set_target_bitrate_kbps(0) over an uninitialised
\* bytes_remaining_: whatever it held is clamped to [0, 0].
InitialBudget == [rate |-> 0, max |-> 0, remaining |-> 0]
=============================================================================
