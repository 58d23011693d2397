---------------------------- MODULE StorageMeter ----------------------------
(***************************************************************************)
(* Storage charges of saved pods: storage_mcents_per_minute, and the       *)
(* metering loop its docstring describes, which is the control plane's: it *)
(* accrues the charge for the minutes since its last tick, debits whole    *)
(* cents and carries the remainder.                                        *)
(***************************************************************************)
EXTENDS Integers

CONSTANTS
    Rates,      \* cents per day
    MaxGap,     \* bound: minutes between two ticks of the metering loop
    MaxMinutes  \* bound: minutes metered

ASSUME MeterAssumption == Rates \subseteq Nat /\ MaxGap \in Nat /\ MaxMinutes \in Nat

VARIABLES
    cents_per_day,
    minutes,         \* minutes metered so far
    debited,         \* cents debited so far
    remainder        \* storage_remainder_mcents

vars == <<cents_per_day, minutes, debited, remainder>>

_MINUTES_PER_DAY == 1440

\* Fault: int() for round().
Truncated(n, d) == n \div d

\* Python's round of n/d: to the nearest, ties to the even.
Round(n, d) ==
    LET q == n \div d
        r == n % d
    IN IF 2 * r < d \/ (2 * r = d /\ q % 2 = 0) THEN q ELSE q + 1

storage_mcents_per_minute(c) == Round(c * 1000, _MINUTES_PER_DAY)

Init ==
    /\ cents_per_day \in Rates
    /\ minutes = 0 /\ debited = 0 /\ remainder = 0

\* One tick; ticks come late and then account for the minutes missed.
Tick ==
    /\ \E gap \in 1..MaxGap :
          /\ minutes + gap <= MaxMinutes
          /\ minutes' = minutes + gap
          /\ LET due == remainder + gap * storage_mcents_per_minute(cents_per_day)
             IN debited' = debited + due \div 1000 /\ remainder' = due % 1000
    /\ UNCHANGED cents_per_day

Next == Tick

Spec == Init /\ [][Next]_vars

-----------------------------------------------------------------------------
\* Properties.

\* The remainder stays below a cent, and debits and time keep their types.
TypeOK ==
    /\ cents_per_day \in Rates
    /\ minutes \in Nat /\ debited \in Nat
    /\ remainder \in 0..999

\* Nothing accrued is lost or billed twice, however late the ticks come.
Conserved ==
    1000 * debited + remainder = minutes * storage_mcents_per_minute(cents_per_day)

\* What is accrued strays from the daily rate by at most half a millicent per
\* minute, 720 millicents a day.  (In millicents times 1440.)
DriftBounded ==
    LET billed == 1440 * (1000 * debited + remainder)
        due == minutes * cents_per_day * 1000
    IN 2 * billed - 2 * due \in -(1440 * minutes) .. 1440 * minutes

\* What the docstring of storage_mcents_per_minute says (billing_rates.py:93):
\* "it converges to exactly `cents_per_day` over any 24h window regardless of
\* tick jitter": after whole days, the accrued charge is the daily one.
ExactOverDays ==
    minutes % _MINUTES_PER_DAY = 0
        => 1000 * debited + remainder = (minutes \div _MINUTES_PER_DAY) * cents_per_day * 1000

=============================================================================
