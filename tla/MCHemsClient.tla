----------------------------- MODULE MCHemsClient ---------------------------
\* HemsClient with a peer that may move once, to another host, path and a
\* smaller address, and another service beside it.
EXTENDS HemsClient

At(target, path, address) == [target |-> target, path |-> path, address |-> address]
MCPlaces == [s \in {"peer", "other"} |->
                IF s = "peer" THEN <<At("h1", "/ship/", 2), At("h1", "/new/", 1)>>
                ELSE <<At("h2", "/ship/", 3)>>]

Caller(profile, configured, rediscovers, calls, times) ==
    [profile |-> profile, configured |-> configured, rediscovers |-> rediscovers,
     calls |-> calls, operations |-> times]
MCCallers ==
    {Caller("hems-reference", FALSE, FALSE, {"measure", "bootstrap", "listen"}, 3),
     Caller("cls-adapter", FALSE, FALSE, {"measure"}, 2),
     Caller("default", FALSE, FALSE, {"discover", "reconnect"}, 4),
     Caller("hems-reference", TRUE, FALSE, {"listen", "reconnect", "close"}, 5),
     Caller("default", FALSE, TRUE, {"reconnect"}, 2)}
=============================================================================
