----------------------------- MODULE MCLpBridge -----------------------------
\* LpBridge with every form of command, and with commands
\* that can all be forwarded.
EXTENDS LpBridge

AllForms ==
    {[limits |-> {0}, form |-> f] : f \in Forms}
GoodCommands == {[limits |-> {i}, form |-> "good"] : i \in Limits}
=============================================================================
