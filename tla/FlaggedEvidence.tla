--------------------------- MODULE FlaggedEvidence ---------------------------
(***************************************************************************)
(* What the session database promises the admins who review flagged        *)
(* packets: quarantining is one indivisible step that copies every flagged *)
(* packet not yet quarantined and marks it; deleting takes all flagged     *)
(* packets away and leaves the copies alone.                               *)
(***************************************************************************)
EXTENDS Integers, Sequences, FiniteSets, SequencesExt

CONSTANT Flows  \* what a stored packet says: addresses, protocol, hosts

VARIABLES
  rows,   \* the stored packets by id: [flow, flagged, quarantined]
  copies  \* the quarantined copies in order: [packet_id, flow]

vars == <<rows, copies>>

Init == rows = <<>> /\ copies = <<>>

Pending == {i \in DOMAIN rows : rows[i].flagged /\ ~rows[i].quarantined}

Store == \E i \in DOMAIN rows' \ DOMAIN rows, f \in Flows, flagged \in BOOLEAN :
  /\ rows' = [j \in DOMAIN rows \cup {i} |->
                IF j = i THEN [flow |-> f, flagged |-> flagged, quarantined |-> FALSE]
                         ELSE rows[j]]
  /\ UNCHANGED copies

Quarantine == \E ids \in SetToSeqs(Pending) :
  /\ rows' = [i \in DOMAIN rows |->
                IF i \in Pending THEN [rows[i] EXCEPT !.quarantined = TRUE] ELSE rows[i]]
  /\ copies' = copies \o [n \in DOMAIN ids |-> [packet_id |-> ids[n], flow |-> rows[ids[n]].flow]]

DeleteAll ==
  /\ rows' = [i \in {j \in DOMAIN rows : ~rows[j].flagged} |-> rows[i]]
  /\ UNCHANGED copies

Next == Store \/ Quarantine \/ DeleteAll

Spec == Init /\ [][Next]_vars
=============================================================================
