--------------------------- MODULE PacketDbProofs ---------------------------
(***************************************************************************)
(* Theorems about PacketDb for any number of requests and packets.         *)
(***************************************************************************)
EXTENDS PacketDb, FiniteSetTheorems, TLAPS

\* The two tables agree: one copy a packet, marks and copies go together, a copy is
\* of the packet it names, and no copy names an id still to be given.
Agree(p, q) ==
  /\ \A i, j \in DOMAIN q : q[i].packet_id = q[j].packet_id => i = j
  /\ \A i \in DOMAIN p : p[i].quarantined <=> \E n \in DOMAIN q : q[n].packet_id = i
  /\ \A n \in DOMAIN q : q[n].packet_id \in DOMAIN p => p[q[n].packet_id].flow = q[n].flow
  /\ \A n \in DOMAIN q : q[n].packet_id < nextId

\* The copies of the pending packets have been appended.
Appended ==
  \E ids \in SetToSeqs(Pending(packets)) :
    tx.quarantine = quarantine \o CopiesOf(packets, ids)

\* What a transaction has done so far to the tables it found, which nobody else
\* has touched since.
Progress ==
  \A r \in Requests :
    /\ pc[r] = "copy" => tx.packets = packets /\ tx.quarantine = quarantine
    /\ pc[r] = "mark" => tx.packets = packets /\ Appended
    /\ pc[r] = "commit" => tx.packets = Marked(packets) /\ Appended

\* Pending rows are rows, and there are at most as many as ids were given.
LEMMA PendingFinite ==
  ASSUME TypeOK, NEW p, IsTable(p), NEW S \in SUBSET DOMAIN p
  PROVE  IsFiniteSet(S) /\ Cardinality(S) \in 0..MaxRows
<1>1. nextId - 1 \in 0..MaxRows /\ S \subseteq 1..nextId - 1
  BY BoundAssumption DEF TypeOK, IsTable
<1>2. IsFiniteSet(1..nextId - 1) /\ Cardinality(1..nextId - 1) = nextId - 1
  BY <1>1, FS_Interval, BoundAssumption
<1>3. IsFiniteSet(S) /\ Cardinality(S) <= nextId - 1
  BY <1>1, <1>2, FS_Subset
<1> QED
  BY <1>1, <1>3, FS_CardinalityType, BoundAssumption

\* A listing of a finite set names each of its members once.
LEMMA ListingOfSet ==
  ASSUME NEW S, IsFiniteSet(S), NEW ids \in SetToSeqs(S)
  PROVE  /\ ids \in Seq(S) /\ Len(ids) = Cardinality(S)
         /\ \A i, j \in DOMAIN ids : ids[i] = ids[j] => i = j
         /\ \A x \in S : \E n \in DOMAIN ids : ids[n] = x
<1> DEFINE D == 1..Cardinality(S)
<1>1. Cardinality(S) \in Nat
  BY FS_CardinalityType
<1>2. ids \in [D -> S] /\ \A i, j \in D : i # j => ids[i] # ids[j]
  BY DEF SetToSeqs
<1>3. ids \in Injection(D, S)
  BY <1>2 DEF Injection, IsInjective
<1>4. Cardinality(D) = Cardinality(S)
  BY <1>1, FS_Interval
<1>5. ids \in Surjection(D, S)
  BY <1>3, <1>4, FS_Injection
<1>6. ids \in Seq(S) /\ Len(ids) = Cardinality(S) /\ DOMAIN ids = D
  BY <1>1, <1>2
<1> QED
  BY <1>2, <1>5, <1>6 DEF Surjection

\* Appending the copies and setting the marks keeps the tables in agreement.
LEMMA QuarantineAgrees ==
  ASSUME TypeOK, Agree(packets, quarantine), NEW ids \in SetToSeqs(Pending(packets))
  PROVE  Agree(Marked(packets), quarantine \o CopiesOf(packets, ids))
<1> DEFINE new == CopiesOf(packets, ids)
           all == quarantine \o new
           L == Len(quarantine)
<1>1. Pending(packets) \subseteq DOMAIN packets /\ IsFiniteSet(Pending(packets))
  BY PendingFinite DEF TypeOK, Pending, Flagged
<1>2. /\ ids \in Seq(Pending(packets))
      /\ \A i, j \in DOMAIN ids : ids[i] = ids[j] => i = j
      /\ \A x \in Pending(packets) : \E n \in DOMAIN ids : ids[n] = x
  BY <1>1, ListingOfSet
<1>3. /\ IsTable(packets) /\ quarantine \in Copies /\ nextId \in Nat /\ L \in Nat
      /\ DOMAIN packets \subseteq 1..nextId - 1
  BY BoundAssumption DEF TypeOK, IsTable, Copies
<1>4. /\ new \in Seq([packet_id : Pending(packets), flow : Flows]) /\ DOMAIN new = DOMAIN ids
      /\ \A n \in DOMAIN new : new[n].packet_id = ids[n] /\ new[n].flow = packets[ids[n]].flow
  <2>1. \A n \in DOMAIN ids : ids[n] \in Pending(packets) /\ packets[ids[n]].flow \in Flows
    BY <1>1, <1>2, <1>3 DEF IsTable, Rows
  <2>2. DOMAIN ids = 1..Len(ids) /\ Len(ids) \in Nat
    BY <1>2
  <2> QED
    BY <2>1, <2>2 DEF CopiesOf
<1>5. /\ \A n \in DOMAIN quarantine : n \in DOMAIN all /\ all[n] = quarantine[n]
      /\ \A n \in DOMAIN new : L + n \in DOMAIN all /\ all[L + n] = new[n]
      /\ \A n \in DOMAIN all : n \in DOMAIN quarantine \/ (n > L /\ n - L \in DOMAIN new)
  BY <1>3, <1>4 DEF Copies
<1>6. \A n \in DOMAIN all : \/ n \in DOMAIN quarantine /\ all[n] = quarantine[n]
                            \/ n > L /\ n - L \in DOMAIN new /\ all[n] = new[n - L]
  BY <1>3, <1>4, <1>5 DEF Copies
<1>7. \A n \in DOMAIN quarantine : quarantine[n].packet_id \notin Pending(packets)
  BY <1>1 DEF Agree, Pending, Flagged
<1>8. \A i, j \in DOMAIN all : all[i].packet_id = all[j].packet_id => i = j
  <2> SUFFICES ASSUME NEW i \in DOMAIN all, NEW j \in DOMAIN all,
                      all[i].packet_id = all[j].packet_id
               PROVE  i = j
    OBVIOUS
  <2>1. CASE i \in DOMAIN quarantine /\ j \in DOMAIN quarantine
    BY <2>1, <1>5 DEF Agree
  <2>2. CASE i > L /\ i - L \in DOMAIN new /\ all[i] = new[i - L]
             /\ j > L /\ j - L \in DOMAIN new /\ all[j] = new[j - L]
    <3>1. i - L = j - L
      BY <2>2, <1>2, <1>4
    <3> QED
      BY <3>1, <1>3, <2>2, <1>2, <1>4
  <2>3. \A m \in DOMAIN new : new[m].packet_id \in Pending(packets)
    BY <1>4, <1>2
  <2> QED
    BY <2>1, <2>2, <2>3, <1>6, <1>7
<1>9. \A i \in DOMAIN Marked(packets) :
        Marked(packets)[i].quarantined <=> \E n \in DOMAIN all : all[n].packet_id = i
  <2> SUFFICES ASSUME NEW i \in DOMAIN packets
               PROVE  Marked(packets)[i].quarantined <=> \E n \in DOMAIN all : all[n].packet_id = i
    BY DEF Marked
  <2>1. Marked(packets)[i].quarantined <=> packets[i].quarantined \/ i \in Pending(packets)
    BY <1>3 DEF Marked, IsTable, Rows
  <2>2. packets[i].quarantined <=> \E n \in DOMAIN quarantine : quarantine[n].packet_id = i
    BY DEF Agree
  <2>3. i \in Pending(packets) <=> \E n \in DOMAIN new : new[n].packet_id = i
    <3>1. ASSUME NEW n \in DOMAIN new, new[n].packet_id = i PROVE i \in Pending(packets)
      BY <3>1, <1>2, <1>4
    <3> QED
      BY <3>1, <1>2, <1>4
  <2>4. (\E n \in DOMAIN all : all[n].packet_id = i)
          <=> \/ \E n \in DOMAIN quarantine : quarantine[n].packet_id = i
              \/ \E n \in DOMAIN new : new[n].packet_id = i
    <3>1. ASSUME NEW n \in DOMAIN all, all[n].packet_id = i
          PROVE  \/ \E m \in DOMAIN quarantine : quarantine[m].packet_id = i
                 \/ \E m \in DOMAIN new : new[m].packet_id = i
      BY <3>1, <1>6
    <3>2. ASSUME NEW n \in DOMAIN quarantine, quarantine[n].packet_id = i
          PROVE  \E m \in DOMAIN all : all[m].packet_id = i
      BY <3>2, <1>5
    <3>3. ASSUME NEW n \in DOMAIN new, new[n].packet_id = i
          PROVE  \E m \in DOMAIN all : all[m].packet_id = i
      BY <3>3, <1>5
    <3> QED
      BY <3>1, <3>2, <3>3
  <2> QED
    BY <2>1, <2>2, <2>3, <2>4
<1>10. \A n \in DOMAIN all : all[n].packet_id \in DOMAIN Marked(packets) =>
         Marked(packets)[all[n].packet_id].flow = all[n].flow
  <2>1. \A i \in DOMAIN packets : Marked(packets)[i].flow = packets[i].flow
    BY <1>3 DEF Marked, IsTable, Rows
  <2>2. DOMAIN Marked(packets) = DOMAIN packets
    BY DEF Marked
  <2>3. ASSUME NEW n \in DOMAIN all, all[n].packet_id \in DOMAIN packets
        PROVE  packets[all[n].packet_id].flow = all[n].flow
    BY <2>3, <1>4, <1>6 DEF Agree
  <2> QED
    BY <2>1, <2>2, <2>3
<1>11. \A n \in DOMAIN all : all[n].packet_id < nextId
  <2>1. \A m \in DOMAIN new : new[m].packet_id \in DOMAIN packets
    BY <1>1, <1>2, <1>4
  <2>2. \A m \in DOMAIN new : new[m].packet_id < nextId
    BY <2>1, <1>3
  <2> QED
    BY <2>2, <1>6 DEF Agree
<1> QED
  BY <1>8, <1>9, <1>10, <1>11 DEF Agree

-----------------------------------------------------------------------------
\* Marking keeps a table a table.
LEMMA MarkedTable ==
  ASSUME NEW p, IsTable(p)
  PROVE  IsTable(Marked(p))
BY DEF IsTable, Marked, Rows

\* The type invariant, by the operation that is taken.
THEOREM DbTypeCorrect == Spec => []TypeOK
<1>1. Init => TypeOK
  <2> SUFFICES ASSUME Init PROVE TypeOK
    OBVIOUS
  <2>1. DOMAIN <<>> = {} /\ <<>> \in Copies
    BY DEF Copies
  <2> QED
    BY <2>1, BoundAssumption, NoneAssumption DEF Init, TypeOK, NoTx, IsTable, InTx
<1>2. TypeOK /\ [Next]_vars => TypeOK'
  <2> SUFFICES ASSUME TypeOK, [Next]_vars PROVE TypeOK'
    OBVIOUS
  <2>0. /\ tx = [packets |-> tx.packets, quarantine |-> tx.quarantine]
        /\ IsTable(packets) /\ IsTable(tx.packets) /\ nextId \in 1..MaxRows + 1
        /\ quarantine \in Copies /\ tx.quarantine \in Copies
        /\ pc \in [Requests -> {"new", "copy", "mark", "commit", "replied", "failed"}]
        /\ count \in [Requests -> 0..MaxRows]
        /\ conn \in Requests \cup {None}
        /\ \A r \in Requests : InTx(r) <=> conn = r
    BY DEF TypeOK
  <2>e. IsTable(NoTx.packets) /\ NoTx.quarantine \in Copies
    <3>1. DOMAIN <<>> = {} /\ <<>> \in Copies
      BY DEF Copies
    <3> QED
      BY <3>1, <2>0, BoundAssumption DEF NoTx, IsTable
  <2>1. ASSUME NEW f \in Flows, NEW flagged \in BOOLEAN, Insert(f, flagged) PROVE TypeOK'
    <3>1. /\ nextId <= MaxRows /\ nextId' = nextId + 1
          /\ packets' = [i \in DOMAIN packets \cup {nextId} |->
                IF i = nextId THEN [flow |-> f, flagged |-> flagged, quarantined |-> FALSE]
                              ELSE packets[i]]
          /\ UNCHANGED <<quarantine, conn, tx, pc, count>>
      BY <2>1 DEF Insert, NewId, reqVars
    <3>2. nextId' \in 1..MaxRows + 1 /\ IsTable(packets)' /\ IsTable(tx.packets)'
      BY <3>1, <2>0, BoundAssumption DEF IsTable, Rows
    <3> QED
      BY <3>1, <3>2, <2>0 DEF TypeOK, InTx
  <2>2. ASSUME NEW r \in Requests, DeleteAllFlagged(r) PROVE TypeOK'
    <3>0. pc[r] = "new" /\ conn = None /\ UNCHANGED <<nextId, quarantine, conn, tx>>
      BY <2>2 DEF DeleteAllFlagged
    <3>1. CASE /\ packets' = [i \in DOMAIN packets \ Flagged(packets) |-> packets[i]]
               /\ pc' = [pc EXCEPT ![r] = "replied"]
               /\ count' = [count EXCEPT ![r] = Cardinality(Flagged(packets))]
      <4>1. Flagged(packets) \in SUBSET DOMAIN packets
        BY DEF Flagged
      <4>2. Cardinality(Flagged(packets)) \in 0..MaxRows
        BY <4>1, <2>0, PendingFinite
      <4>3. IsTable(packets)' /\ IsTable(tx.packets)'
        BY <3>0, <3>1, <2>0 DEF IsTable
      <4> QED
        BY <3>0, <3>1, <4>2, <4>3, <2>0, NoneAssumption DEF TypeOK, InTx
    <3>2. CASE pc' = [pc EXCEPT ![r] = "failed"] /\ UNCHANGED <<packets, count>>
      BY <3>0, <3>2, <2>0, NoneAssumption DEF TypeOK, InTx, IsTable
    <3> QED
      BY <2>2, <3>1, <3>2 DEF DeleteAllFlagged
  <2>3. ASSUME NEW r \in Requests, Begin(r) PROVE TypeOK'
    <3>0. pc[r] = "new" /\ conn = None /\ UNCHANGED <<packets, nextId, quarantine, count>>
      BY <2>3 DEF Begin, dbVars
    <3>1. CASE /\ conn' = r /\ pc' = [pc EXCEPT ![r] = "copy"]
               /\ tx' = [packets |-> packets, quarantine |-> quarantine]
      BY <3>0, <3>1, <2>0, NoneAssumption DEF TypeOK, InTx, IsTable
    <3>2. CASE pc' = [pc EXCEPT ![r] = "failed"] /\ UNCHANGED <<conn, tx>>
      BY <3>0, <3>2, <2>0, NoneAssumption DEF TypeOK, InTx, IsTable
    <3> QED
      BY <2>3, <3>1, <3>2 DEF Begin
  <2>4. ASSUME NEW r \in Requests, Copy(r) PROVE TypeOK'
    <3>1. PICK ids \in SetToSeqs(Pending(tx.packets)) :
            tx' = [tx EXCEPT !.quarantine = @ \o CopiesOf(tx.packets, ids)]
      BY <2>4 DEF Copy
    <3>2. Pending(tx.packets) \subseteq DOMAIN tx.packets
      BY DEF Pending, Flagged
    <3>3. ids \in Seq(Pending(tx.packets))
      BY <3>2, <2>0, PendingFinite, ListingOfSet
    <3>4. CopiesOf(tx.packets, ids) \in Copies
      <4>1. \A n \in DOMAIN ids : ids[n] \in 1..MaxRows /\ tx.packets[ids[n]].flow \in Flows
        BY <3>2, <3>3, <2>0, BoundAssumption DEF IsTable, Rows
      <4>2. DOMAIN ids = 1..Len(ids) /\ Len(ids) \in Nat
        BY <3>3
      <4> QED
        BY <4>1, <4>2 DEF CopiesOf, Copies
    <3>5. /\ tx' = [packets |-> tx.packets,
                     quarantine |-> tx.quarantine \o CopiesOf(tx.packets, ids)]
          /\ tx.quarantine \o CopiesOf(tx.packets, ids) \in Copies
      <4>1. tx' = [packets |-> tx.packets,
                   quarantine |-> tx.quarantine \o CopiesOf(tx.packets, ids)]
        BY <3>1, <2>0
      <4> QED
        BY <4>1, <3>4, <2>0 DEF Copies
    <3>6. pc[r] = "copy" /\ pc' = [pc EXCEPT ![r] = "mark"]
          /\ UNCHANGED <<packets, nextId, quarantine, conn, count>>
      BY <2>4 DEF Copy, dbVars
    <3>7. IsTable(tx.packets)' /\ IsTable(packets)'
      BY <3>5, <3>6, <2>0 DEF IsTable
    <3> QED
      BY <3>5, <3>6, <3>7, <2>0 DEF TypeOK, InTx
  <2>5. ASSUME NEW r \in Requests, Mark(r) PROVE TypeOK'
    <3>1. /\ pc[r] = "mark" /\ pc' = [pc EXCEPT ![r] = "commit"]
          /\ tx' = [tx EXCEPT !.packets = Marked(@)]
          /\ count' = [count EXCEPT ![r] = Cardinality(Pending(tx.packets))]
          /\ UNCHANGED <<packets, nextId, quarantine, conn>>
      BY <2>5 DEF Mark, dbVars
    <3>2. Cardinality(Pending(tx.packets)) \in 0..MaxRows
      BY <2>0, PendingFinite DEF Pending, Flagged
    <3>3. /\ tx' = [packets |-> Marked(tx.packets), quarantine |-> tx.quarantine]
          /\ IsTable(Marked(tx.packets))
      BY <3>1, <2>0, MarkedTable
    <3>4. IsTable(tx.packets)' /\ IsTable(packets)'
      BY <3>1, <3>3, <2>0 DEF IsTable
    <3> QED
      BY <3>1, <3>2, <3>3, <3>4, <2>0 DEF TypeOK, InTx
  <2>6. ASSUME NEW r \in Requests, Commit(r) PROVE TypeOK'
    <3>1. /\ pc[r] = "commit" /\ pc' = [pc EXCEPT ![r] = "replied"]
          /\ packets' = tx.packets /\ quarantine' = tx.quarantine
          /\ conn' = None /\ tx' = NoTx /\ UNCHANGED <<nextId, count>>
      BY <2>6 DEF Commit
    <3>2. IsTable(tx.packets)' /\ IsTable(packets)' /\ tx'.quarantine \in Copies
      BY <3>1, <2>0, <2>e DEF IsTable
    <3> QED
      BY <3>1, <3>2, <2>0, NoneAssumption DEF TypeOK, InTx, NoTx
  <2>7. ASSUME NEW r \in Requests, Fail(r) PROVE TypeOK'
    <3>1. /\ InTx(r) /\ pc' = [pc EXCEPT ![r] = "failed"]
          /\ conn' = None /\ tx' = NoTx /\ UNCHANGED <<packets, nextId, quarantine, count>>
      BY <2>7 DEF Fail, dbVars
    <3>2. IsTable(tx.packets)' /\ IsTable(packets)' /\ tx'.quarantine \in Copies
      BY <3>1, <2>0, <2>e DEF IsTable
    <3> QED
      BY <3>1, <3>2, <2>0, NoneAssumption DEF TypeOK, InTx, NoTx
  <2>8. CASE Restart
    <3>1. /\ pc' = [r \in Requests |-> IF InTx(r) THEN "failed" ELSE pc[r]]
          /\ conn' = None /\ tx' = NoTx /\ UNCHANGED <<packets, nextId, quarantine, count>>
      BY <2>8 DEF Restart, dbVars
    <3>2. IsTable(tx.packets)' /\ IsTable(packets)' /\ tx'.quarantine \in Copies
      BY <3>1, <2>0, <2>e DEF IsTable
    <3> QED
      BY <3>1, <3>2, <2>0, NoneAssumption DEF TypeOK, InTx, NoTx
  <2>9. CASE UNCHANGED vars
    BY <2>9, <2>0 DEF TypeOK, InTx, IsTable, vars, dbVars, reqVars
  <2> QED
    BY <2>1, <2>2, <2>3, <2>4, <2>5, <2>6, <2>7, <2>8, <2>9 DEF Next, Work
<1> QED
  BY <1>1, <1>2, PTL DEF Spec

-----------------------------------------------------------------------------
\* What the safety theorems rest on.
DbInv == TypeOK /\ Agree(packets, quarantine) /\ Progress

\* The tables go on agreeing as long as neither changes.
LEMMA AgreeStays ==
  ASSUME UNCHANGED <<packets, quarantine, nextId>>, Agree(packets, quarantine)
  PROVE  Agree(packets, quarantine)'
BY DEF Agree

\* The entries of a sequence over a set are members of it.
LEMMA InSeq == ASSUME NEW S, NEW q \in Seq(S) PROVE \A n \in DOMAIN q : q[n] \in S
OBVIOUS

\* What is read off an unchanged table does not change.
LEMMA ReadingStays ==
  ASSUME packets' = packets
  PROVE  /\ Pending(packets)' = Pending(packets) /\ Marked(packets)' = Marked(packets)
         /\ \A ids : CopiesOf(packets', ids) = CopiesOf(packets, ids)
BY DEF Pending, Flagged, Marked, CopiesOf

\* Nobody is inside a transaction while the connection is free.
LEMMA FreeConnection ==
  ASSUME TypeOK, conn = None
  PROVE  \A r \in Requests : pc[r] \notin {"copy", "mark", "commit"}
BY NoneAssumption DEF TypeOK, InTx

\* Only the request that holds the connection is inside a transaction.
LEMMA OneTransaction ==
  ASSUME TypeOK, NEW r \in Requests, InTx(r)
  PROVE  \A q \in Requests \ {r} : pc[q] \notin {"copy", "mark", "commit"}
BY DEF TypeOK, InTx

\* Every operation keeps the tables in agreement and the transaction on its way.
LEMMA DbInvStep == DbInv /\ TypeOK' /\ [Next]_vars => DbInv'
<1> SUFFICES ASSUME DbInv, TypeOK', [Next]_vars PROVE Agree(packets, quarantine)' /\ Progress'
  BY DEF DbInv
<1>0. /\ TypeOK /\ Agree(packets, quarantine) /\ Progress
      /\ IsTable(packets) /\ nextId \in Nat /\ quarantine \in Copies
      /\ tx = [packets |-> tx.packets, quarantine |-> tx.quarantine]
      /\ pc \in [Requests -> {"new", "copy", "mark", "commit", "replied", "failed"}]
  BY BoundAssumption DEF DbInv, TypeOK
<1>1. ASSUME NEW f \in Flows, NEW flagged \in BOOLEAN, Insert(f, flagged)
      PROVE  Agree(packets, quarantine)' /\ Progress'
  <2>1. /\ conn = None /\ nextId' = nextId + 1
        /\ packets' = [i \in DOMAIN packets \cup {nextId} |->
              IF i = nextId THEN [flow |-> f, flagged |-> flagged, quarantined |-> FALSE]
                            ELSE packets[i]]
        /\ UNCHANGED <<quarantine, pc>>
    BY <1>1 DEF Insert, NewId, reqVars
  <2>2. \A n \in DOMAIN quarantine : quarantine[n].packet_id # nextId
    BY <1>0 DEF Agree, Copies
  <2>3. \A n \in DOMAIN quarantine : quarantine[n].packet_id < nextId'
    <3>1. \A n \in DOMAIN quarantine : quarantine[n].packet_id \in 1..MaxRows
      <4>1. quarantine \in Seq([packet_id : 1..MaxRows, flow : Flows])
        BY <1>0 DEF Copies
      <4>2. \A n \in DOMAIN quarantine : quarantine[n] \in [packet_id : 1..MaxRows, flow : Flows]
        BY <4>1, InSeq
      <4> QED
        BY <4>2
    <3> QED
      BY <3>1, <1>0, <2>1, BoundAssumption DEF Agree
  <2>4. nextId \notin DOMAIN packets
    BY <1>0 DEF IsTable
  <2>5. Agree(packets, quarantine)'
    BY <1>0, <2>1, <2>2, <2>3, <2>4 DEF Agree
  <2> QED
    BY <1>0, <2>1, <2>5, FreeConnection DEF Progress
<1>2. ASSUME NEW r \in Requests, DeleteAllFlagged(r)
      PROVE  Agree(packets, quarantine)' /\ Progress'
  <2>1. /\ conn = None /\ UNCHANGED <<nextId, quarantine>>
        /\ \E S : packets' = [i \in DOMAIN packets \ S |-> packets[i]] \/ packets' = packets
        /\ \E l \in {"replied", "failed"} : pc' = [pc EXCEPT ![r] = l]
    BY <1>2 DEF DeleteAllFlagged
  <2>2. Agree(packets, quarantine)'
    BY <1>0, <2>1 DEF Agree
  <2> QED
    BY <1>0, <2>1, <2>2, FreeConnection DEF Progress
<1>3. ASSUME NEW r \in Requests, Begin(r)
      PROVE  Agree(packets, quarantine)' /\ Progress'
  <2>1. /\ conn = None /\ UNCHANGED <<packets, nextId, quarantine>>
        /\ \/ /\ tx' = [packets |-> packets, quarantine |-> quarantine]
              /\ pc' = [pc EXCEPT ![r] = "copy"]
           \/ pc' = [pc EXCEPT ![r] = "failed"]
    BY <1>3 DEF Begin, dbVars
  <2> QED
    BY <1>0, <2>1, AgreeStays, FreeConnection DEF Progress
<1>4. ASSUME NEW r \in Requests, Copy(r)
      PROVE  Agree(packets, quarantine)' /\ Progress'
  <2>1. PICK ids \in SetToSeqs(Pending(tx.packets)) :
          tx' = [tx EXCEPT !.quarantine = @ \o CopiesOf(tx.packets, ids)]
    BY <1>4 DEF Copy
  <2>2. /\ pc[r] = "copy" /\ pc' = [pc EXCEPT ![r] = "mark"]
        /\ UNCHANGED <<packets, nextId, quarantine>>
    BY <1>4 DEF Copy, dbVars
  <2>3. tx.packets = packets /\ tx.quarantine = quarantine
    BY <1>0, <2>2 DEF Progress
  <2>4. tx' = [packets |-> packets, quarantine |-> quarantine \o CopiesOf(packets, ids)]
    BY <1>0, <2>1, <2>3
  <2>5. tx'.packets = packets' /\ Appended'
    <3>1. ids \in SetToSeqs(Pending(packets)')
      BY <2>1, <2>2, <2>3, ReadingStays
    <3>2. tx'.quarantine = quarantine' \o CopiesOf(packets', ids)
      BY <2>2, <2>4, ReadingStays
    <3> QED
      BY <2>2, <2>4, <3>1, <3>2 DEF Appended
  <2>6. \A q \in Requests \ {r} : pc'[q] \notin {"copy", "mark", "commit"}
    BY <1>0, <2>2, OneTransaction DEF InTx
  <2>7. pc'[r] = "mark"
    BY <1>0, <2>2
  <2> QED
    BY <1>0, <2>2, <2>5, <2>6, <2>7, AgreeStays DEF Progress
<1>5. ASSUME NEW r \in Requests, Mark(r)
      PROVE  Agree(packets, quarantine)' /\ Progress'
  <2>1. /\ pc[r] = "mark" /\ pc' = [pc EXCEPT ![r] = "commit"]
        /\ tx' = [tx EXCEPT !.packets = Marked(@)]
        /\ UNCHANGED <<packets, nextId, quarantine>>
    BY <1>5 DEF Mark, dbVars
  <2>2. tx.packets = packets /\ Appended
    BY <1>0, <2>1 DEF Progress
  <2>3. tx' = [packets |-> Marked(packets), quarantine |-> tx.quarantine]
    BY <1>0, <2>1, <2>2
  <2>4. tx'.packets = Marked(packets)' /\ Appended'
    <3>1. tx'.packets = Marked(packets) /\ tx'.quarantine = tx.quarantine
      BY <2>3
    <3>2. PICK ids \in SetToSeqs(Pending(packets)) :
            tx.quarantine = quarantine \o CopiesOf(packets, ids)
      BY <2>2 DEF Appended
    <3>3. ids \in SetToSeqs(Pending(packets)')
      BY <2>1, <3>2, ReadingStays
    <3>4. tx'.quarantine = quarantine' \o CopiesOf(packets', ids)
      BY <2>1, <3>1, <3>2, ReadingStays
    <3> QED
      BY <2>1, <3>1, <3>3, <3>4, ReadingStays DEF Appended
  <2>5. \A q \in Requests \ {r} : pc'[q] \notin {"copy", "mark", "commit"}
    BY <1>0, <2>1, OneTransaction DEF InTx
  <2>6. pc'[r] = "commit"
    BY <1>0, <2>1
  <2> QED
    BY <1>0, <2>1, <2>4, <2>5, <2>6, AgreeStays DEF Progress
<1>6. ASSUME NEW r \in Requests, Commit(r)
      PROVE  Agree(packets, quarantine)' /\ Progress'
  <2>1. /\ pc[r] = "commit" /\ pc' = [pc EXCEPT ![r] = "replied"]
        /\ packets' = tx.packets /\ quarantine' = tx.quarantine /\ UNCHANGED nextId
    BY <1>6 DEF Commit
  <2>2. tx.packets = Marked(packets) /\ Appended
    BY <1>0, <2>1 DEF Progress
  <2>3. Agree(tx.packets, tx.quarantine)
    BY <1>0, <2>2, QuarantineAgrees DEF Appended
  <2>4. Agree(packets, quarantine)'
    BY <2>1, <2>3 DEF Agree
  <2>5. \A q \in Requests : pc'[q] \notin {"copy", "mark", "commit"}
    BY <1>0, <2>1, OneTransaction DEF InTx
  <2> QED
    BY <2>4, <2>5 DEF Progress
<1>7. ASSUME NEW r \in Requests, Fail(r)
      PROVE  Agree(packets, quarantine)' /\ Progress'
  <2>1. /\ InTx(r) /\ pc' = [pc EXCEPT ![r] = "failed"]
        /\ UNCHANGED <<packets, nextId, quarantine>>
    BY <1>7 DEF Fail, dbVars
  <2>2. \A q \in Requests : pc'[q] \notin {"copy", "mark", "commit"}
    BY <1>0, <2>1, OneTransaction
  <2> QED
    BY <1>0, <2>1, <2>2, AgreeStays DEF Progress
<1>8. CASE Restart
  <2>1. /\ pc' = [r \in Requests |-> IF InTx(r) THEN "failed" ELSE pc[r]]
        /\ UNCHANGED <<packets, nextId, quarantine>>
    BY <1>8 DEF Restart, dbVars
  <2>2. \A q \in Requests : pc'[q] \notin {"copy", "mark", "commit"}
    BY <2>1 DEF InTx
  <2> QED
    BY <1>0, <2>1, <2>2, AgreeStays DEF Progress
<1>9. CASE UNCHANGED vars
  <2>1. UNCHANGED <<packets, nextId, quarantine, tx, pc>>
    BY <1>9 DEF vars, dbVars, reqVars
  <2> QED
    <3>1. Marked(packets)' = Marked(packets) /\ (Appended => Appended')
      BY <2>1, ReadingStays DEF Appended
    <3> QED
      BY <1>0, <2>1, <3>1, AgreeStays DEF Progress
<1> QED
  BY <1>1, <1>2, <1>3, <1>4, <1>5, <1>6, <1>7, <1>8, <1>9 DEF Next, Work

\* The invariant of the database and its transactions.
LEMMA DbInvariant == Spec => []DbInv
<1>1. Init /\ TypeOK => DbInv
  BY DEF Init, DbInv, Agree, Progress
<1> QED
  BY <1>1, DbInvStep, DbTypeCorrect, PTL DEF Spec

\* No packet is ever quarantined twice, whatever requests overlap, fail or are
\* cut off by a crash.
THEOREM DbQuarantinedOnce == Spec => []QuarantinedOnce
<1>1. DbInv => QuarantinedOnce
  BY DEF DbInv, Agree, QuarantinedOnce
<1> QED
  BY <1>1, DbInvariant, PTL

\* A packet is marked exactly when its copy exists.
THEOREM DbCopyIffMarked == Spec => []CopyIffMarked
<1>1. DbInv => CopyIffMarked
  BY DEF DbInv, Agree, CopyIffMarked
<1> QED
  BY <1>1, DbInvariant, PTL

\* A copy never names another packet than the one it was made of.
THEOREM DbCopyOfThatPacket == Spec => []CopyOfThatPacket
<1>1. DbInv => CopyOfThatPacket
  BY DEF DbInv, Agree, CopyOfThatPacket
<1> QED
  BY <1>1, DbInvariant, PTL

\* The transaction is indivisible: the database implements FlaggedEvidence.
THEOREM DbQuarantineIsAtomic == Spec => QuarantineIsAtomic
<1>1. Init => Evidence!Init
  BY DEF Init, Evidence!Init
<1>2. DbInv /\ [Next]_vars => [Evidence!Next]_(Evidence!vars)
  <2> SUFFICES ASSUME DbInv, [Next]_vars PROVE Evidence!Next \/ UNCHANGED <<packets, quarantine>>
    BY DEF Evidence!vars
  <2>0. TypeOK /\ Progress /\ IsTable(packets)
    BY DEF DbInv, TypeOK
  <2>1. ASSUME NEW f \in Flows, NEW flagged \in BOOLEAN, Insert(f, flagged) PROVE Evidence!Store
    <3>1. /\ packets' = [j \in DOMAIN packets \cup {nextId} |->
                IF j = nextId THEN [flow |-> f, flagged |-> flagged, quarantined |-> FALSE]
                              ELSE packets[j]]
          /\ UNCHANGED quarantine
      BY <2>1 DEF Insert, NewId
    <3>2. nextId \notin DOMAIN packets
      BY <2>0 DEF IsTable, TypeOK
    <3>3. nextId \in DOMAIN packets' \ DOMAIN packets
      BY <3>1, <3>2
    <3> QED
      BY <3>1, <3>3 DEF Evidence!Store
  <2>2. ASSUME NEW r \in Requests, DeleteAllFlagged(r)
        PROVE  Evidence!DeleteAll \/ UNCHANGED <<packets, quarantine>>
    <3>1. DOMAIN packets \ Flagged(packets) = {j \in DOMAIN packets : ~packets[j].flagged}
      BY DEF Flagged
    <3> QED
      BY <2>2, <3>1 DEF DeleteAllFlagged, Evidence!DeleteAll
  <2>3. ASSUME NEW r \in Requests, Commit(r) PROVE Evidence!Quarantine
    <3>1. packets' = Marked(packets) /\ quarantine' = tx.quarantine /\ Appended
      BY <2>3, <2>0 DEF Commit, Progress
    <3>2. Pending(packets) = Evidence!Pending
      BY DEF Pending, Flagged, Evidence!Pending
    <3>3. PICK ids \in SetToSeqs(Pending(packets)) :
            quarantine' = quarantine \o CopiesOf(packets, ids)
      BY <3>1 DEF Appended
    <3>4. quarantine' = quarantine
            \o [n \in DOMAIN ids |-> [packet_id |-> ids[n], flow |-> packets[ids[n]].flow]]
      BY <3>3 DEF CopiesOf
    <3>5. ids \in Evidence!SetToSeqs(Evidence!Pending)
      BY <3>2, <3>3 DEF SetToSeqs, Evidence!SetToSeqs, Cardinality, Evidence!Cardinality
    <3>6. packets' = [i \in DOMAIN packets |-> IF i \in Evidence!Pending
                        THEN [packets[i] EXCEPT !.quarantined = TRUE] ELSE packets[i]]
      BY <3>1, <3>2 DEF Marked
    <3> QED
      BY <3>4, <3>5, <3>6 DEF Evidence!Quarantine
  <2>4. ASSUME NEW r \in Requests, Begin(r) \/ Copy(r) \/ Mark(r) \/ Fail(r)
        PROVE  UNCHANGED <<packets, quarantine>>
    BY <2>4 DEF Begin, Copy, Mark, Fail, dbVars
  <2>5. CASE Restart \/ UNCHANGED vars
    BY <2>5 DEF Restart, vars, dbVars
  <2> QED
    BY <2>1, <2>2, <2>3, <2>4, <2>5 DEF Next, Work, Evidence!Next
<1> QED
  BY <1>1, <1>2, DbInvariant, PTL DEF Spec, QuarantineIsAtomic, Evidence!Spec

\* A request about to commit has counted the packets it copied.
Told == \A r \in Requests : pc[r] = "commit" => count[r] = Cardinality(Pending(packets))

\* Every step keeps the number a request will report that of the rows it commits.
LEMMA ToldStep == DbInv /\ Told /\ [Next]_vars => Told'
<1> SUFFICES ASSUME DbInv, Told, [Next]_vars, NEW r \in Requests, pc'[r] = "commit"
             PROVE  count'[r] = Cardinality(Pending(packets)')
  BY DEF Told
<1>0. /\ TypeOK /\ Progress /\ count \in [Requests -> 0..MaxRows]
      /\ pc \in [Requests -> {"new", "copy", "mark", "commit", "replied", "failed"}]
  BY DEF DbInv, TypeOK
<1>1. CASE pc[r] = "commit" /\ packets' = packets /\ count'[r] = count[r]
  BY <1>1, ReadingStays DEF Told
<1>2. ASSUME NEW f \in Flows, NEW flagged \in BOOLEAN, Insert(f, flagged) PROVE FALSE
  BY <1>0, <1>2, FreeConnection DEF Insert, reqVars
<1>3. ASSUME NEW q \in Requests, DeleteAllFlagged(q) PROVE FALSE
  <2>1. conn = None /\ \E l \in {"replied", "failed"} : pc' = [pc EXCEPT ![q] = l]
    BY <1>3 DEF DeleteAllFlagged
  <2> QED
    BY <1>0, <2>1, FreeConnection
<1>4. ASSUME NEW q \in Requests, Begin(q) PROVE FALSE
  <2>1. conn = None /\ \E l \in {"copy", "failed"} : pc' = [pc EXCEPT ![q] = l]
    BY <1>4 DEF Begin
  <2> QED
    BY <1>0, <2>1, FreeConnection
<1>5. ASSUME NEW q \in Requests, Copy(q) \/ Commit(q) \/ Fail(q) PROVE FALSE
  <2>1. InTx(q) /\ \E l \in {"mark", "replied", "failed"} : pc' = [pc EXCEPT ![q] = l]
    BY <1>5 DEF Copy, Commit, Fail, InTx
  <2> QED
    BY <1>0, <2>1, OneTransaction
<1>6. ASSUME NEW q \in Requests, Mark(q) PROVE count'[r] = Cardinality(Pending(packets)')
  <2>1. /\ pc[q] = "mark" /\ pc' = [pc EXCEPT ![q] = "commit"] /\ packets' = packets
        /\ count' = [count EXCEPT ![q] = Cardinality(Pending(tx.packets))]
    BY <1>6 DEF Mark, dbVars
  <2>2. r = q
    BY <1>0, <2>1, OneTransaction DEF InTx
  <2>3. tx.packets = packets
    BY <1>0, <2>1 DEF Progress
  <2> QED
    BY <1>0, <2>1, <2>2, <2>3, ReadingStays
<1>7. CASE Restart
  BY <1>7 DEF Restart, InTx
<1>8. CASE UNCHANGED vars
  BY <1>1, <1>8 DEF vars, dbVars, reqVars
<1> QED
  BY <1>2, <1>3, <1>4, <1>5, <1>6, <1>7, <1>8 DEF Next, Work

\* What an admin is told is the number of copies that request has made: the table of
\* copies changes in no other step and by no other number.
THEOREM DbToldHowMany == Spec => ToldHowMany
<1>1. Init => Told
  BY DEF Init, Told
<1>2. DbInv /\ Told /\ [Next]_vars
        => (quarantine' # quarantine => \E r \in Requests :
              pc[r] = "commit" /\ pc'[r] = "replied"
              /\ count'[r] = Len(quarantine') - Len(quarantine))
  <2> SUFFICES ASSUME DbInv, Told, [Next]_vars, quarantine' # quarantine
               PROVE  \E r \in Requests : /\ pc[r] = "commit" /\ pc'[r] = "replied"
                                          /\ count'[r] = Len(quarantine') - Len(quarantine)
    OBVIOUS
  <2>1. PICK r \in Requests : Commit(r)
    BY DEF Next, Work, Insert, DeleteAllFlagged, Begin, Copy, Mark, Fail, Restart, vars, dbVars
  <2>2. /\ TypeOK /\ Progress /\ IsTable(packets) /\ quarantine \in Copies
        /\ pc \in [Requests -> {"new", "copy", "mark", "commit", "replied", "failed"}]
    BY DEF DbInv, TypeOK
  <2>3. /\ pc[r] = "commit" /\ pc' = [pc EXCEPT ![r] = "replied"] /\ count' = count
        /\ quarantine' = tx.quarantine
    BY <2>1 DEF Commit
  <2>4. PICK ids \in SetToSeqs(Pending(packets)) :
          tx.quarantine = quarantine \o CopiesOf(packets, ids)
    BY <2>2, <2>3 DEF Progress, Appended
  <2>5. IsFiniteSet(Pending(packets)) /\ Cardinality(Pending(packets)) \in Nat
    <3>1. Pending(packets) \in SUBSET DOMAIN packets
      BY DEF Pending, Flagged
    <3> QED
      BY <2>2, <3>1, PendingFinite, FS_CardinalityType
  <2>6. Len(CopiesOf(packets, ids)) = Cardinality(Pending(packets))
    <3>1. ids \in Seq(Pending(packets)) /\ Len(ids) = Cardinality(Pending(packets))
      BY <2>5, ListingOfSet
    <3>2. DOMAIN ids = 1..Len(ids)
      BY <3>1
    <3>3. DOMAIN CopiesOf(packets, ids) = 1..Len(ids)
      BY <3>2 DEF CopiesOf
    <3> QED
      BY <2>5, <3>1, <3>3
  <2>7. Len(quarantine') = Len(quarantine) + Cardinality(Pending(packets)) /\ Len(quarantine) \in Nat
    <3>1. quarantine \in Seq([packet_id : 1..MaxRows, flow : Flows])
      BY <2>2 DEF Copies
    <3>2. CopiesOf(packets, ids) \in Seq([packet_id : 1..MaxRows, flow : Flows])
      <4>1. ids \in Seq(Pending(packets)) /\ DOMAIN ids = 1..Len(ids) /\ Len(ids) \in Nat
        BY <2>5, ListingOfSet
      <4>2. \A n \in DOMAIN ids : ids[n] \in 1..MaxRows /\ packets[ids[n]].flow \in Flows
        <5>1. \A n \in DOMAIN ids : ids[n] \in DOMAIN packets
          BY <4>1, InSeq DEF Pending, Flagged
        <5>2. DOMAIN packets \subseteq 1..MaxRows /\ \A i \in DOMAIN packets : packets[i].flow \in Flows
          BY <2>2, BoundAssumption DEF TypeOK, IsTable, Rows
        <5> QED
          BY <5>1, <5>2
      <4> QED
        BY <4>1, <4>2 DEF CopiesOf
    <3>3. Cardinality(Pending(packets)) = Len(CopiesOf(packets, ids))
      BY <2>6
    <3> QED
      BY <2>3, <2>4, <3>1, <3>2, <3>3
  <2>8. count'[r] = Len(quarantine') - Len(quarantine)
    BY <2>3, <2>5, <2>7 DEF Told
  <2> QED
    BY <2>2, <2>3, <2>8
<1> QED
  BY <1>1, <1>2, ToldStep, DbInvariant, PTL DEF Spec, ToldHowMany
=============================================================================
