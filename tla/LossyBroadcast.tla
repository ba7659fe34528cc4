--------------------------- MODULE LossyBroadcast ---------------------------
(***************************************************************************)
(* What stats.Store promises its subscribers, without mutex, lists or      *)
(* buffers: a growing log, and for each subscriber the positions of the    *)
(* log it has been given.  Only the newest entry is ever given, at most    *)
(* once, to a subscriber that joined before it and has not left.  Entries  *)
(* may be skipped; none is delayed behind another or replayed.             *)
(***************************************************************************)
EXTENDS Integers, Sequences

CONSTANTS Entries, Readers

VARIABLES
  log,     \* what was published, oldest first
  member,  \* each reader: "never", "in" or "left"
  since,   \* the length of the log when the reader joined
  given    \* the positions of the log the reader was given

vars == <<log, member, since, given>>

Init ==
  /\ log = <<>>
  /\ member = [r \in Readers |-> "never"]
  /\ since = [r \in Readers |-> 0]
  /\ given = [r \in Readers |-> <<>>]

Publish(e) ==
  /\ log' = Append(log, e)
  /\ UNCHANGED <<member, since, given>>

Join(r) ==
  /\ member[r] = "never"
  /\ member' = [member EXCEPT ![r] = "in"]
  /\ since' = [since EXCEPT ![r] = Len(log)]
  /\ UNCHANGED <<log, given>>

Give(r) ==
  /\ member[r] = "in"
  /\ since[r] < Len(log)
  /\ \A i \in DOMAIN given[r] : given[r][i] < Len(log)
  /\ given' = [given EXCEPT ![r] = Append(@, Len(log))]
  /\ UNCHANGED <<log, member, since>>

Leave(r) ==
  /\ member[r] = "in"
  /\ member' = [member EXCEPT ![r] = "left"]
  /\ UNCHANGED <<log, since, given>>

Next == \/ \E e \in Entries : Publish(e)
        \/ \E r \in Readers : Join(r) \/ Give(r) \/ Leave(r)

Spec == Init /\ [][Next]_vars
=============================================================================
