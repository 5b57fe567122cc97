--------------------------- MODULE MCNetworkAgent ---------------------------
(* Small instances of the network agent: a home network, and another one that is stronger. *)
EXTENDS NetworkAgent, TLC

CONSTANTS home, other

TwoNets     == {home, other}
MCRssi      == [n \in Net |-> IF n = home THEN -70 ELSE -50]
MCMinSignal == -75

From(h, o, profiles, who, n) ==
    [air |-> [m \in Net |-> IF m = home THEN h ELSE o],
     saved |-> profiles, actors |-> who, reenable |-> TRUE, events |-> n]

(* A remote command at home that may fall back to it; a phone or a command where the locker
   cannot connect by itself; the scan loop at home; roaming to the stronger of two; and BLE that
   is not offered again. *)
Starts == {From("online", "out", {home}, {"remote"}, 1),
           From("out", "online", {home}, {"remote", "phone"}, 1),
           From("online", "out", {home}, {"scan"}, 1),
           From("online", "online", {home, other}, {"scan"}, 0),
           [From("out", "out", {home}, {}, 0) EXCEPT !.reenable = FALSE]}

(* The scan loop at home, and one change on the air. *)
AtHome == {From("online", "out", {home}, {"scan"}, 1)}
=============================================================================
