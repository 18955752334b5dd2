--------------------------- MODULE MCHealthChecker ---------------------------
(* Small instances of HealthChecker. *)
EXTENDS HealthChecker, TLC

CONSTANTS quick, slow

\* quick is probed on every tick, allowed no grace and no second failure; slow is given
\* a grace long enough for failures on either side of it.
\* The second instance is only ever given the quick one.
MCChecks(k) == IF k[2] = 1 THEN {quick, slow} ELSE {quick}
MCInterval(c) == 1
MCStartPeriod(c) == IF c = quick THEN 0 ELSE 1
MCRetries(c) == IF c = quick THEN 1 ELSE 2
==============================================================================
