------------------------------ MODULE PacketDb ------------------------------
(***************************************************************************)
(* db.DB, the session database, and the handlers with which admins review  *)
(* flagged packets.  The pool holds one connection: a statement needs it   *)
(* for an instant, a transaction from Begin to Commit or Rollback, and     *)
(* whoever asks for it meanwhile waits.  The SSE handlers insert, each     *)
(* admin request runs in a goroutine of its own, any statement may fail    *)
(* and the process may die at any point and be started again.              *)
(*                                                                         *)
(* What a packet says is its flow; SQLite itself is taken at its word.     *)
(***************************************************************************)
EXTENDS Integers, Sequences, FiniteSets, SequencesExt

CONSTANTS
  Flows,     \* what a stored packet says: addresses, protocol, hosts
  Requests,  \* requests of admins; a request is made once
  None,      \* no request holds the connection
  MaxRows    \* bound: packets inserted in a behaviour

ASSUME NoneAssumption == None \notin Requests
ASSUME BoundAssumption == MaxRows \in Nat

VARIABLES
  packets,     \* table packets: the rows by id
  nextId,      \* the AUTOINCREMENT sequence of packets
  quarantine,  \* table quarantine in the order of its ids
  conn,        \* the request whose transaction holds the connection, or None
  tx,          \* the tables as the transaction sees them
  pc,          \* each request: "new", then "copy", "mark", "commit", then "replied" or "failed"
  count        \* what each request replies: rows affected

dbVars  == <<packets, nextId, quarantine>>
reqVars == <<pc, count>>
vars    == <<dbVars, conn, tx, reqVars>>

NoTx == [packets |-> <<>>, quarantine |-> <<>>]

Init ==
  /\ packets = <<>> /\ nextId = 1 /\ quarantine = <<>>
  /\ conn = None /\ tx = NoTx
  /\ pc = [r \in Requests |-> "new"]
  /\ count = [r \in Requests |-> 0]

-----------------------------------------------------------------------------
\* Variant: no AUTOINCREMENT, SQLite then takes the largest rowid plus one.
NextRowid == IF DOMAIN packets = {} THEN 1 ELSE 1 + Max(DOMAIN packets)

NewId == nextId

\* Variant: a pool of several connections, the insert does not wait.
InsertBeside(f, flagged) ==
  /\ nextId <= MaxRows
  /\ packets' = [i \in DOMAIN packets \cup {NewId} |->
                   IF i = NewId THEN [flow |-> f, flagged |-> flagged, quarantined |-> FALSE]
                                ELSE packets[i]]
  /\ nextId' = nextId + 1
  /\ UNCHANGED <<quarantine, conn, tx, reqVars>>

\* Insert; when it fails nothing is stored and nobody is told.
Insert(f, flagged) ==
  /\ conn = None
  /\ nextId <= MaxRows
  /\ packets' = [i \in DOMAIN packets \cup {NewId} |->
                   IF i = NewId THEN [flow |-> f, flagged |-> flagged, quarantined |-> FALSE]
                                ELSE packets[i]]
  /\ nextId' = nextId + 1
  /\ UNCHANGED <<quarantine, conn, tx, reqVars>>

\* flagged=1 in table p, and flagged=1 AND quarantined=0.
Flagged(p) == {i \in DOMAIN p : p[i].flagged}
Pending(p) == {i \in Flagged(p) : ~p[i].quarantined}

\* The copies of the rows of p with these ids, and p with pending rows marked.
CopiesOf(p, ids) == [n \in DOMAIN ids |-> [packet_id |-> ids[n], flow |-> p[ids[n]].flow]]
Marked(p) ==
  [i \in DOMAIN p |-> IF i \in Pending(p) THEN [p[i] EXCEPT !.quarantined = TRUE] ELSE p[i]]

\* deleteFlagged and DeleteAllFlagged: one statement.
DeleteAllFlagged(r) ==
  /\ pc[r] = "new" /\ conn = None
  /\ \/ /\ packets' = [i \in DOMAIN packets \ Flagged(packets) |-> packets[i]]
        /\ pc' = [pc EXCEPT ![r] = "replied"]
        /\ count' = [count EXCEPT ![r] = Cardinality(Flagged(packets))]
     \/ pc' = [pc EXCEPT ![r] = "failed"] /\ UNCHANGED <<packets, count>>
  /\ UNCHANGED <<nextId, quarantine, conn, tx>>

-----------------------------------------------------------------------------
(* quarantineFlagged and QuarantineFlagged *)

\* Begin takes the connection; when it fails there is nothing to roll back.
Begin(r) ==
  /\ pc[r] = "new" /\ conn = None
  /\ \/ /\ conn' = r
        /\ tx' = [packets |-> packets, quarantine |-> quarantine]
        /\ pc' = [pc EXCEPT ![r] = "copy"]
     \/ pc' = [pc EXCEPT ![r] = "failed"] /\ UNCHANGED <<conn, tx>>
  /\ UNCHANGED <<dbVars, count>>

\* Variant: the copy forgets quarantined=0.
CopyAll(r) ==
  /\ pc[r] = "copy"
  /\ \E ids \in SetToSeqs(Flagged(tx.packets)) :
       tx' = [tx EXCEPT !.quarantine = @ \o CopiesOf(tx.packets, ids)]
  /\ pc' = [pc EXCEPT ![r] = "mark"]
  /\ UNCHANGED <<dbVars, conn, count>>

\* INSERT INTO quarantine ... SELECT, whose order SQL leaves open.
Copy(r) ==
  /\ pc[r] = "copy"
  /\ \E ids \in SetToSeqs(Pending(tx.packets)) :
       tx' = [tx EXCEPT !.quarantine = @ \o CopiesOf(tx.packets, ids)]
  /\ pc' = [pc EXCEPT ![r] = "mark"]
  /\ UNCHANGED <<dbVars, conn, count>>

\* Variant: the update forgets quarantined=0.
MarkAll(r) ==
  /\ pc[r] = "mark"
  /\ tx' = [tx EXCEPT !.packets = Marked(@)]
  /\ count' = [count EXCEPT ![r] = Cardinality(Flagged(tx.packets))]
  /\ pc' = [pc EXCEPT ![r] = "commit"]
  /\ UNCHANGED <<dbVars, conn>>

\* UPDATE packets SET quarantined=1; its rows affected are the reply.
Mark(r) ==
  /\ pc[r] = "mark"
  /\ tx' = [tx EXCEPT !.packets = Marked(@)]
  /\ count' = [count EXCEPT ![r] = Cardinality(Pending(tx.packets))]
  /\ pc' = [pc EXCEPT ![r] = "commit"]
  /\ UNCHANGED <<dbVars, conn>>

\* Commit, after which the deferred Rollback does nothing.
Commit(r) ==
  /\ pc[r] = "commit"
  /\ packets' = tx.packets /\ quarantine' = tx.quarantine
  /\ conn' = None /\ tx' = NoTx
  /\ pc' = [pc EXCEPT ![r] = "replied"]
  /\ UNCHANGED <<nextId, count>>

InTx(r) == pc[r] \in {"copy", "mark", "commit"}

\* Variants: no deferred Rollback, the connection is never given back; the copy is
\* made outside of the transaction and stays.
FailHolding(r) ==
  /\ InTx(r)
  /\ pc' = [pc EXCEPT ![r] = "failed"]
  /\ UNCHANGED <<dbVars, conn, tx, count>>

FailCopied(r) ==
  /\ InTx(r)
  /\ quarantine' = tx.quarantine
  /\ conn' = None /\ tx' = NoTx
  /\ pc' = [pc EXCEPT ![r] = "failed"]
  /\ UNCHANGED <<packets, nextId, count>>

\* A statement or the Commit fails: an early return, the deferred Rollback runs.
Fail(r) ==
  /\ InTx(r)
  /\ conn' = None /\ tx' = NoTx
  /\ pc' = [pc EXCEPT ![r] = "failed"]
  /\ UNCHANGED <<dbVars, count>>

\* The process dies and is started again on the same file: requests are gone, so
\* is what was not committed.
Restart ==
  /\ conn' = None /\ tx' = NoTx
  /\ pc' = [r \in Requests |-> IF InTx(r) THEN "failed" ELSE pc[r]]
  /\ UNCHANGED <<dbVars, count>>

Work(r) == Copy(r) \/ Mark(r) \/ Commit(r) \/ Fail(r)

Next ==
  \/ \E f \in Flows, flagged \in BOOLEAN : Insert(f, flagged)
  \/ \E r \in Requests : DeleteAllFlagged(r) \/ Begin(r) \/ Work(r)
  \/ Restart

\* The goroutine of a request keeps running, and the pool, which picks any of those
\* that wait for the connection, passes over none for ever.
Spec == /\ Init /\ [][Next]_vars
        /\ \A r \in Requests : WF_vars(Work(r)) /\ SF_vars(Begin(r) \/ DeleteAllFlagged(r))
-----------------------------------------------------------------------------
(* Properties *)

Rows   == [flow : Flows, flagged : BOOLEAN, quarantined : BOOLEAN]
Copies == Seq([packet_id : 1..MaxRows, flow : Flows])

IsTable(p) == DOMAIN p \subseteq 1..nextId - 1 /\ \A i \in DOMAIN p : p[i] \in Rows

\* The types; a transaction is open exactly while a request holds the connection.
TypeOK ==
  /\ nextId \in 1..MaxRows + 1
  /\ IsTable(packets) /\ quarantine \in Copies
  /\ tx = [packets |-> tx.packets, quarantine |-> tx.quarantine]
  /\ IsTable(tx.packets) /\ tx.quarantine \in Copies
  /\ pc \in [Requests -> {"new", "copy", "mark", "commit", "replied", "failed"}]
  /\ count \in [Requests -> 0..MaxRows]
  /\ conn \in Requests \cup {None}
  /\ \A r \in Requests : InTx(r) <=> conn = r

\* A packet is quarantined at most once, whatever requests overlap or fail, and
\* its mark says so: no copy without the mark, no mark without the copy.
QuarantinedOnce ==
  \A i, j \in DOMAIN quarantine : quarantine[i].packet_id = quarantine[j].packet_id => i = j

CopyIffMarked ==
  \A i \in DOMAIN packets :
    packets[i].quarantined <=> \E n \in DOMAIN quarantine : quarantine[n].packet_id = i

\* The packet a copy refers to, while it is there, is the one that was copied: an
\* id freed by a delete is never given to another packet.
CopyOfThatPacket ==
  \A n \in DOMAIN quarantine : quarantine[n].packet_id \in DOMAIN packets =>
    packets[quarantine[n].packet_id].flow = quarantine[n].flow

\* The number an admin is told is the number of packets that request quarantined.
ToldHowMany ==
  [][quarantine' # quarantine => \E r \in Requests :
       pc[r] = "commit" /\ pc'[r] = "replied"
       /\ count'[r] = Len(quarantine') - Len(quarantine)]_vars

\* Every request is answered, error or not: a failed transaction gives the only
\* connection back.
AllServed == \A r \in Requests : <>(pc[r] \in {"replied", "failed"})

\* To everyone else a quarantine happens at once and whole, over inserts, deletes,
\* failures and crashes; copies are never lost.
Evidence == INSTANCE FlaggedEvidence WITH rows <- packets, copies <- quarantine
QuarantineIsAtomic == Evidence!Spec
=============================================================================
