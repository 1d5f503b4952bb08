------------------------------- MODULE Backoff -------------------------------
(***************************************************************************)
(* The retry delay of the outbox publisher: Task.backoffDuration of        *)
(* outbox/publisher/task.go.  Durations are Go int64 values, so the shift   *)
(* and the product wrap.                                                    *)
(***************************************************************************)
EXTENDS Integers

CONSTANT Width    \* bits of a duration: 64 in the program, few in a run

ASSUME WidthAssumption == Width \in Nat \ {0}

\* The weight of bit n, and of the highest bit of a duration.
Pow2[n \in Nat] == IF n = 0 THEN 1 ELSE 2 * Pow2[n - 1]
SignBit == Pow2[Width - 1]

\* What a Width-bit two's complement register holds after computing x.
Wrap(x) == ((x + SignBit) % (2 * SignBit)) - SignBit

\* 1 << n : every bit is shifted out once n reaches the width.
ShiftOne(n) == IF n >= Width THEN 0 ELSE Wrap(Pow2[n])

\* The wrapped product, before the code looks at its sign and its size.
RawBackoff(initial, attempts) ==
    Wrap(initial * ShiftOne(IF attempts < 0 THEN 0 ELSE attempts))

\* Mutant: the sign of the product is not looked at.
BackoffUnchecked(initial, max, attempts) ==
    LET raw == RawBackoff(initial, attempts)
    IN  IF max > 0 /\ raw > max THEN max ELSE raw

BackoffDuration(initial, max, attempts) ==
    LET raw  == RawBackoff(initial, attempts)
        base == IF raw <= 0 THEN initial ELSE raw
    IN  IF max > 0 /\ base > max THEN max ELSE base
=============================================================================
