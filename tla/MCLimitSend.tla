----------------------------- MODULE MCLimitSend ----------------------------
\* LimitSend for 20 W: the wallbox may apply a value that rounds to it from
\* above and below, one that does not, the opposite sign, or ten times as much.
EXTENDS LimitSend

MCApplied == {195, 204, 205, 206, -200, 2000}
\* The LPC limit is listed first, as the library's own profile does.
MCListed == <<0, 1>>
MCScales == {-1, 0, 1}
=============================================================================
