------------------------------- MODULE Backoff -------------------------------
(***************************************************************************)
(* How long a restart waits, in the integers of the code: durations are    *)
(* signed and Width bits wide, and a shift drops what no longer fits.      *)
(***************************************************************************)
EXTENDS Integers

CONSTANTS
  Width,          \* bits of a duration
  Shifts,         \* how often the base is doubled at most
  BaseBackoff,    \* the wait of a workload that names none
  MaxBackoff      \* the ceiling

ASSUME BackoffAssumption ==
  /\ Width \in Nat \ {0, 1} /\ Shifts \in Nat
  /\ BaseBackoff \in 1..MaxBackoff /\ MaxBackoff \in 1..(2^(Width - 1) - 1)
  \* What arithmetic says of these powers.
  /\ {2^(Width - 1), 2^Width} \subseteq Nat \ {0} /\ \A n \in 0..Shifts : 2^n \in Nat

\* A value as it reads once it is cut to the width of a duration.
Wrapped(x) == ((x + 2^(Width - 1)) % 2^Width) - 2^(Width - 1)

Lesser(x, y) == IF x <= y THEN x ELSE y

\* How often the base is doubled before an attempt.
Doublings(attempts) == IF attempts <= 1 THEN 0 ELSE Lesser(attempts - 1, Shifts)

\* The wait before the given attempt: the base, doubled with each attempt in a row, up to
\* the ceiling, which also catches a shift that overflowed into the sign.
delay(attempts, base) ==
  LET from == IF base <= 0 THEN BaseBackoff ELSE base
      d == Wrapped(from * 2^Doublings(attempts))
  IN IF d > MaxBackoff \/ d <= 0 THEN MaxBackoff ELSE d

===============================================================================
