----------------------------- MODULE Dashboard ------------------------------
(***************************************************************************)
(* What the dashboard shows: Store.Snapshot, taken under the read lock, so *)
(* of one state of the store, and the three handlers that derive a table,  *)
(* a graph and a map from it.  The order of ties is that of a walk over a  *)
(* Go map, which is any order.                                             *)
(***************************************************************************)
EXTENDS StatsStore

CONSTANTS
  MaxTopIPs, MaxTopConns,  \* lengths of the top lists, 6 and 25 in the code
  Placed                   \* addresses Locate finds a place for; none without a GeoIP reader

ASSUME TopAssumption == MaxTopIPs \in Nat /\ MaxTopConns \in Nat
\* Addresses have a length, protocol names are a fixed list.
ASSUME NamesAssumption == IsFiniteSet(IPs) /\ IsFiniteSet(Protos)

\* The keys that count something, busiest first, cut to n: every outcome of the sort.
TopLists(counts, n) ==
  LET sorted == {s \in SetToSeqs({k \in DOMAIN counts : counts[k] > 0}) :
                   \A i, j \in DOMAIN s : i < j => counts[s[i]] >= counts[s[j]]}
  IN {SubSeq(s, 1, Min({n, Len(s)})) : s \in sorted}

\* The entries of the two lists.
Sources(ips) == [i \in DOMAIN ips |-> [ip |-> ips[i], count |-> agg.ipCounts[ips[i]]]]
Links(conns) == [i \in DOMAIN conns |-> [src |-> conns[i][1], dst |-> conns[i][2],
                                         count |-> agg.connections[conns[i]]]]

\* Snapshot, with the lists it has sorted and cut.
SnapshotOf(ips, conns) ==
  [total_pkts |-> agg.totalPkts, protos |-> agg.protoCounts, traffic |-> agg.trafficSecs,
   connections |-> Cardinality({c \in IPs \X IPs : agg.connections[c] > 0}),
   cur_bandwidth |-> Last(agg.bandwidthSecs), bandwidth |-> agg.bandwidthSecs,
   top_ips |-> Sources(ips), top_conns |-> Links(conns)]
Snapshots ==
  {SnapshotOf(ips, conns) : ips \in TopLists(agg.ipCounts, MaxTopIPs),
                            conns \in TopLists(agg.connections, MaxTopConns)}

\* The counts of a list, and of its entries with property P.
CountsWith(s, P(_)) == Total([i \in DOMAIN s |-> IF P(s[i]) THEN s[i].count ELSE 0])
CountsOf(s) == Total([i \in DOMAIN s |-> s[i].count])

\* Variant: a node's count is set where it should be added to.
NodesOverwritten(snap) ==
  [a \in {e.src : e \in ToSet(snap.top_conns)} \cup {e.dst : e \in ToSet(snap.top_conns)} |->
     FoldLeft(LAMBDA n, e : IF a \in {e.src, e.dst} THEN e.count ELSE n, 0, snap.top_conns)]

\* apiConnections: the packets at each end of the links shown.
Nodes(snap) ==
  [a \in {e.src : e \in ToSet(snap.top_conns)} \cup {e.dst : e \in ToSet(snap.top_conns)} |->
     CountsWith(snap.top_conns, LAMBDA e : e.src = a)
       + CountsWith(snap.top_conns, LAMBDA e : e.dst = a)]

\* apiGeoIPs: the packets of each source on the map, by the connections shown; a source
\* that Locate returns an error for is passed over.
Located(snap) ==
  [a \in {e.src : e \in ToSet(snap.top_conns)} \cap Placed |->
     CountsWith(snap.top_conns, LAMBDA e : e.src = a)]

-----------------------------------------------------------------------------
(* Properties *)

\* The links and nodes of the connection graph balance: each packet of a link is
\* counted at its two ends, a connection of an address with itself included.
GraphBalances == \A snap \in Snapshots : Total(Nodes(snap)) = 2 * CountsOf(snap.top_conns)

\* What one snapshot shows agrees: protocols add up to the total, the chart holds no
\* more than the total, and the map never shows a source with more packets than the
\* counters do, nor with fewer unless a connection was cut from the list.
DashboardAgrees ==
  \A snap \in Snapshots :
    /\ Total(snap.protos) = snap.total_pkts
    /\ Total(snap.traffic) <= snap.total_pkts
    /\ CountsOf(snap.top_ips) <= snap.total_pkts
    /\ \A a \in DOMAIN Located(snap) :
         /\ Located(snap)[a] <= agg.ipCounts[a]
         /\ snap.connections <= MaxTopConns => Located(snap)[a] = agg.ipCounts[a]
=============================================================================
