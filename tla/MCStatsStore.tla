---------------------------- MODULE MCStatsStore ----------------------------
(***************************************************************************)
(* Small instances of StatsStore and Dashboard.                            *)
(***************************************************************************)
EXTENDS Dashboard

CONSTANTS c1, c2

Pkt(s, d, p, n, f) == [src |-> s, dst |-> d, proto |-> p, size |-> n, flagged |-> f]

MCIPs    == {"10.0.0.1", "10.0.0.2"}
MCProtos == {"TCP", "DNS"}
MCPlaced == {"10.0.0.2"}

\* A connection, and a flagged packet of another protocol from its destination to itself.
TwoKinds == {Pkt("10.0.0.1", "10.0.0.2", "TCP", 3, FALSE),
             Pkt("10.0.0.2", "10.0.0.2", "DNS", 2, TRUE)}

\* For the feed the contents of a packet do not matter.
FeedKinds == {Pkt("10.0.0.1", "10.0.0.2", "TCP", 1, FALSE)}

TwoChans == {c1, c2}
=============================================================================
