----------------------------- MODULE MCLiveFeed -----------------------------
(***************************************************************************)
(* A small instance of LiveFeed.  All that matters of a packet is whether  *)
(* its addresses can be located: an address is private or public.          *)
(***************************************************************************)
EXTENDS LiveFeed

CONSTANTS engine, v1

MCIPs     == {"10.0.0.1", "172.40.0.1"}
MCPublic  == {"172.40.0.1"}
MCProtos  == {"TCP"}
Pkt(ip)   == [src |-> "10.0.0.1", dst |-> ip, proto |-> "TCP", size |-> 1, flagged |-> FALSE]
Both      == {Pkt(ip) : ip \in MCIPs}

OneViewer == {engine, v1}
=============================================================================
