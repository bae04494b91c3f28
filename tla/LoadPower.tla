------------------------------ MODULE LoadPower ------------------------------
(***************************************************************************)
(* The conversions of load-power values (eebus_sdk/_load_power.py) and of  *)
(* their durations (_spine_helpers.py, cli.py): the sign of production     *)
(* limits, scaled numbers, and the text of a duration.                     *)
(***************************************************************************)
EXTENDS Integers

Abs(n) == IF n < 0 THEN -n ELSE n

\* encode_limit_watts: a production limit (1) is negative, a consumption limit
\* (0) positive, and of another limit nothing is known.
EncodeWatts(watts, limitId) ==
    CASE limitId = 0 -> Abs(watts)
      [] limitId = 1 -> -Abs(watts)
      [] OTHER       -> watts

\* Fault: a fraction is cut off.
Truncated(n, d) == n \div d

\* round(n / d) of Python, for d > 0: halves go to the even neighbour.
Rounded(n, d) ==
    LET q == n \div d
        r == n % d
    IN  IF 2 * r < d \/ (2 * r = d /\ q % 2 = 0) THEN q ELSE q + 1

\* The powers of ten, as a function that can be reasoned about for every scale.
PowerOfTen[n \in Nat] == IF n = 0 THEN 1 ELSE 10 * PowerOfTen[n - 1]

\* _apply_scale: the number times ten to the power of the scale.
ApplyScale(number, scale) ==
    IF scale >= 0 THEN number * PowerOfTen[scale] ELSE Rounded(number, PowerOfTen[-scale])

\* decode_limit_watts: the sign of the known limits is dropped.
DecodeWatts(number, limitId, scale) ==
    IF limitId \in {0, 1} THEN Abs(ApplyScale(number, scale)) ELSE ApplyScale(number, scale)

\* format_duration, as the numbers before its letters; a part that is zero is
\* not written.
FormatDuration(seconds) ==
    [H |-> seconds \div 3600, M |-> (seconds \div 60) % 60, S |-> seconds % 60]

\* _parse_duration, of any numbers.
ParseDuration(text) == 3600 * text.H + 60 * text.M + text.S
=============================================================================
