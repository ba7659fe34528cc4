------------------------- MODULE AlertEngineProofs -------------------------
(***************************************************************************)
(* Theorems about the alert engine and its rules.                          *)
(***************************************************************************)
EXTENDS AlertEngine, FiniteSetTheorems, FunctionTheorems, SequenceTheorems, TLAPS

Call == [rule : RuleRow, at : Nat, round : Nat, stamped : BOOLEAN]

ClockOK == now \in 1..MaxTime /\ started \in 1..now /\ due \in BOOLEAN
BufOK   == packets \in Seq(Packet) /\ ingested \in Seq(Packet)
RuleOK  == /\ nextId \in 1..MaxRules + 1 /\ DOMAIN table \subseteq 1..nextId - 1
           /\ \A i \in DOMAIN table : table[i] \in RuleRow
EvalOK  == /\ phase \in {"idle", "listed", "judging", "calling"}
           /\ copy \in Seq(Packet) /\ todo \in Seq(RuleRow) /\ fires \in Seq(Call) /\ round \in Nat
           /\ phase = "calling" => todo # <<>> /\ fires # <<>>
Types   == ClockOK /\ BufOK /\ RuleOK /\ EvalOK

-----------------------------------------------------------------------------
(* What the steps do *)

LEMMA CutType == ASSUME NEW S, NEW s \in Seq(S)
                 PROVE  /\ Cut(s) \in Seq(S) /\ Len(Cut(s)) = (IF Len(s) > Cap THEN Keep ELSE Len(s))
                        /\ \A k \in 1..Len(Cut(s)) : Cut(s)[k] = s[Len(s) - Len(Cut(s)) + k]
<1>1. Len(s) \in Nat /\ Cap \in Nat /\ Keep \in 1..Cap
  BY BufferAssumption
<1>2. CASE Len(s) > Cap
  <2>1. Cut(s) = SubSeq(s, Len(s) - Keep + 1, Len(s))
    BY <1>2 DEF Cut
  <2>2. \A k \in Len(s) - Keep + 1..Len(s) : s[k] \in S
    BY <1>1, <1>2, ElementOfSeq
  <2> QED
    BY <1>1, <1>2, <2>1, <2>2, SubSeqProperties
<1>3. CASE ~(Len(s) > Cap)
  BY <1>1, <1>3 DEF Cut
<1> QED
  BY <1>2, <1>3

\* Ingest appends one packet, the same to the buffer and to the history.
LEMMA IngestType == ASSUME BufOK, ClockOK, NEW c \in Contents, Ingest(c)
                    PROVE  \E p \in Packet : /\ packets' = Cut(Append(packets, p))
                                             /\ ingested' = Append(ingested, p)
<1> DEFINE From == IF ingested = <<>> THEN 1 ELSE Last(ingested).time
<1>1. PICK t \in From..now :
        LET p == [time |-> t, ips |-> c.ips, flagged |-> c.flagged] IN
          /\ packets' = Cut(Append(packets, p))
          /\ ingested' = Append(ingested, p)
  BY DEF Ingest
<1>2. From \in 1..MaxTime
  <2>1. CASE ingested = <<>>
    BY <2>1, BoundsAssumption
  <2>2. CASE ingested # <<>>
    <3>1. Last(ingested) \in Packet
      BY <2>2, EmptySeq, ElementOfSeq DEF BufOK, Last
    <3> QED
      BY <2>2, <3>1 DEF Packet
  <2> QED
    BY <2>1, <2>2
<1>3. t \in 1..MaxTime
  BY <1>2, BoundsAssumption DEF ClockOK
<1>4. [time |-> t, ips |-> c.ips, flagged |-> c.flagged] \in Packet
  BY <1>3, InputsAssumption DEF Packet
<1> QED
  BY <1>1, <1>4

\* A listing holds rows of the table, each at most once, in the order of their ids.
LEMMA ListingType == ASSUME RuleOK, NEW s \in Listings
                     PROVE  /\ s \in Seq(RuleRow)
                            /\ \A n \in 1..Len(s) : \E i \in DOMAIN table : s[n] = table[i]
                            /\ \A m, n \in 1..Len(s) : m < n => s[m].id < s[n].id
<1>1. Cardinality(DOMAIN table) \in Nat
  <2>1. IsFiniteSet(1..nextId - 1)
    BY FS_Interval, BoundsAssumption DEF RuleOK
  <2> QED
    BY <2>1, FS_Subset, FS_CardinalityType DEF RuleOK
<1>2. s \in [1..Cardinality(DOMAIN table) -> {table[i] : i \in DOMAIN table}] /\ IsListing(s)
  BY DEF Listings
<1>3. {table[i] : i \in DOMAIN table} \subseteq RuleRow
  BY DEF RuleOK
<1>4. s \in Seq(RuleRow) /\ DOMAIN s = 1..Len(s)
  BY <1>1, <1>2, <1>3
<1> QED
  BY <1>2, <1>4 DEF IsListing

\* CreateRule adds one fresh, never-fired rule and leaves the others as they are.
LEMMA CreateFacts ==
  ASSUME RuleOK, NEW f \in Forms, CreateRule(f)
  PROVE  \E r \in RuleRow :
           /\ r.id = nextId /\ r.serial = nextId /\ r.last = 0
           /\ nextId \notin DOMAIN table /\ DOMAIN table' = DOMAIN table \cup {nextId}
           /\ table'[nextId] = r /\ \A i \in DOMAIN table : table'[i] = table[i]
           /\ nextId' = nextId + 1 /\ nextId <= MaxRules
<1> DEFINE r == [id |-> nextId, serial |-> nextId, type |-> f.type, target |-> f.target,
                 threshold |-> f.threshold, window |-> f.window,
                 cooldown |-> IF f.cooldown = 0 THEN DefaultCooldown ELSE f.cooldown,
                 last |-> 0, enabled |-> TRUE]
<1>1. table' = [i \in DOMAIN table \cup {nextId} |-> IF i = nextId THEN r ELSE table[i]]
  BY DEF CreateRule, NewId
<1>2. nextId \in Nat /\ nextId <= MaxRules /\ nextId' = nextId + 1
  BY BoundsAssumption DEF RuleOK, CreateRule
<1>3. r \in RuleRow /\ r.id = nextId /\ r.serial = nextId /\ r.last = 0
  BY <1>2, InputsAssumption, TimeAssumption DEF RuleRow
<1> HIDE DEF r
<1>4. nextId \notin DOMAIN table
  BY <1>2 DEF RuleOK
<1> QED
  BY <1>1, <1>2, <1>3, <1>4

\* Fire appends one call, of the first rule due, stamped with the present time.
LEMMA FireFacts ==
  ASSUME ClockOK, EvalOK, Fire
  PROVE  /\ todo[1] \in RuleRow /\ 1 \in 1..Len(todo)
         /\ \E c \in Call : /\ c.rule = todo[1] /\ c.at = now /\ c.round = round /\ c.stamped = FALSE
                            /\ fires' = Append(fires, c)
<1>1. todo[1] \in RuleRow /\ Head(todo) = todo[1] /\ 1 \in 1..Len(todo)
  BY HeadTailProperties, EmptySeq, ElementOfSeq DEF EvalOK, Fire
<1> DEFINE c == [rule |-> Head(todo), at |-> now, round |-> round, stamped |-> FALSE]
<1>2. fires' = Append(fires, c)
  BY DEF Fire
<1>3. c \in Call /\ c.rule = todo[1] /\ c.at = now /\ c.round = round /\ c.stamped = FALSE
  BY <1>1, BoundsAssumption DEF EvalOK, ClockOK, Call
<1> HIDE DEF c
<1> QED
  BY <1>1, <1>2, <1>3

\* The call that is over is recorded, in the table if its rule is still there.
Recorded ==
  /\ DOMAIN table' = DOMAIN table
  /\ \A j \in DOMAIN table :
       /\ table'[j] \in RuleRow /\ table'[j].id = table[j].id /\ table'[j].serial = table[j].serial
       /\ table'[j].last = IF j = todo[1].id THEN now ELSE table[j].last
  /\ fires' \in Seq(Call) /\ Len(fires') = Len(fires)
  /\ \A n \in 1..Len(fires) :
       /\ fires'[n].rule = fires[n].rule /\ fires'[n].at = fires[n].at /\ fires'[n].round = fires[n].round
       /\ fires'[n].stamped = IF n = Len(fires) THEN TRUE ELSE fires[n].stamped

\* Stamp records a call, or finds its rule gone and changes nothing.
LEMMA StampFacts ==
  ASSUME ClockOK, RuleOK, EvalOK, Stamp
  PROVE  Recorded \/ UNCHANGED <<table, fires>>
<1>1. Head(todo) = todo[1] /\ now \in Nat
  BY HeadTailProperties, BoundsAssumption DEF EvalOK, Stamp, ClockOK
<1> DEFINE l == Len(fires)
           c == [fires[l] EXCEPT !.stamped = TRUE]
<1>2. CASE /\ table' = [j \in DOMAIN table |->
                          IF j = todo[1].id THEN [table[j] EXCEPT !.last = now] ELSE table[j]]
           /\ fires' = [fires EXCEPT ![l].stamped = TRUE]
  <2>1. l \in 1..Len(fires) /\ fires[l] \in Call
    BY EmptySeq, ElementOfSeq DEF EvalOK, Stamp
  <2>2. /\ c \in Call /\ c.rule = fires[l].rule /\ c.at = fires[l].at /\ c.round = fires[l].round
        /\ c.stamped = TRUE
    BY <2>1 DEF Call
  <2>3. fires' = [fires EXCEPT ![l] = c]
    BY <1>2
  <2> HIDE DEF c, l
  <2>4. fires' \in Seq(Call) /\ Len(fires') = Len(fires)
    BY <2>1, <2>2, <2>3, ExceptSeq DEF EvalOK
  <2>5. \A n \in 1..Len(fires) : fires'[n] = IF n = l THEN c ELSE fires[n]
    BY <2>1, <2>2, <2>3, ExceptSeq DEF EvalOK
  <2>6. ASSUME NEW j \in DOMAIN table
        PROVE  /\ table'[j] \in RuleRow /\ table'[j].id = table[j].id /\ table'[j].serial = table[j].serial
               /\ table'[j].last = IF j = todo[1].id THEN now ELSE table[j].last
    <3> DEFINE r == table[j]
    <3>1. r \in RuleRow
      BY DEF RuleOK
    <3>2. /\ [r EXCEPT !.last = now] \in RuleRow /\ [r EXCEPT !.last = now].id = r.id
          /\ [r EXCEPT !.last = now].serial = r.serial /\ [r EXCEPT !.last = now].last = now
      BY <1>1, <3>1 DEF RuleRow
    <3>3. table'[j] = IF j = todo[1].id THEN [r EXCEPT !.last = now] ELSE r
      BY <1>2
    <3> HIDE DEF r
    <3> QED
      BY <3>1, <3>2, <3>3 DEF r
  <2>7. DOMAIN table' = DOMAIN table
    BY <1>2
  <2> QED
    BY <2>2, <2>4, <2>5, <2>6, <2>7 DEF Recorded, l
<1> QED
  BY <1>1, <1>2 DEF Stamp

\* What is left of the rules due after one of them has been dealt with.
LEMMA TailFacts ==
  ASSUME EvalOK, todo # <<>>, todo' = Tail(todo)
  PROVE  /\ todo' \in Seq(RuleRow) /\ Len(todo) \in Nat /\ Len(todo') = Len(todo) - 1
         /\ \A n \in 1..Len(todo') : n + 1 \in 1..Len(todo) /\ todo'[n] = todo[n + 1]
BY HeadTailProperties DEF EvalOK

-----------------------------------------------------------------------------
(* Types *)

LEMMA TypeInit == Init => Types
<1> SUFFICES ASSUME Init PROVE Types
  OBVIOUS
<1>1. table = <<>> /\ DOMAIN table = {}
  BY EmptySeq DEF Init
<1>2. ClockOK
  <2>1. now = 1 /\ started = 1 /\ due \in BOOLEAN
    BY Zenon DEF Init
  <2> QED
    BY <2>1, BoundsAssumption DEF ClockOK
<1>5. BufOK
  BY EmptySeq DEF Init, BufOK
<1>3. RuleOK
  BY <1>1, BoundsAssumption DEF Init, RuleOK
<1>4. EvalOK
  BY EmptySeq DEF Init, EvalOK
<1> QED
  BY <1>2, <1>3, <1>4, <1>5 DEF Types

\* Every step keeps the types of the engine.
LEMMA TypeStep == Types /\ [Next]_vars => Types'
<1> SUFFICES ASSUME Types, [Next]_vars PROVE Types'
  OBVIOUS
<1>0. ClockOK /\ BufOK /\ RuleOK /\ EvalOK
  BY DEF Types
<1>1. UNCHANGED clockVars => ClockOK'
  BY <1>0 DEF clockVars, ClockOK
<1>2. UNCHANGED bufVars => BufOK'
  BY <1>0 DEF bufVars, BufOK
<1>3. UNCHANGED ruleVars => RuleOK'
  BY <1>0 DEF ruleVars, RuleOK
<1>4. UNCHANGED evalVars => EvalOK'
  BY <1>0 DEF evalVars, EvalOK
<1>5. CASE UNCHANGED vars
  BY <1>1, <1>2, <1>3, <1>4, <1>5 DEF vars, Types
<1>6. CASE Second
  <2>1. ClockOK'
    BY <1>0, <1>6, BoundsAssumption DEF ClockOK, Second
  <2> QED
    BY <1>2, <1>3, <1>4, <1>6, <2>1 DEF Second, Types
<1>7. ASSUME NEW c \in Contents, Ingest(c) PROVE Types'
  <2>1. PICK p \in Packet : packets' = Cut(Append(packets, p)) /\ ingested' = Append(ingested, p)
    BY <1>0, <1>7, IngestType
  <2>2. Append(packets, p) \in Seq(Packet) /\ Append(ingested, p) \in Seq(Packet)
    BY <1>0, AppendProperties DEF BufOK
  <2>3. BufOK'
    BY <2>1, <2>2, CutType DEF BufOK
  <2> QED
    BY <1>1, <1>3, <1>4, <1>7, <2>3 DEF Ingest, Types
<1>8. ASSUME NEW f \in Forms, CreateRule(f) PROVE Types'
  <2>1. RuleOK'
    BY <1>0, <1>8, CreateFacts, BoundsAssumption DEF RuleOK
  <2> QED
    BY <1>1, <1>2, <1>4, <1>8, <2>1 DEF CreateRule, Types
<1>9. ASSUME NEW i \in DOMAIN table, DeleteRule(i) PROVE Types'
  <2>1. RuleOK'
    BY <1>0, <1>9 DEF DeleteRule, RuleOK
  <2> QED
    BY <1>1, <1>2, <1>4, <1>9, <2>1 DEF DeleteRule, Types
<1>10. CASE ListRules
  <2>1. EvalOK'
    <3>1. CASE phase' = "listed" /\ todo' \in Listings /\ round' = round + 1
      BY <1>0, <1>10, <3>1, ListingType DEF ListRules, EvalOK
    <3>2. CASE UNCHANGED <<phase, todo, round>>
      BY <1>0, <1>10, <3>2 DEF ListRules, EvalOK
    <3> QED
      BY <1>10, <3>1, <3>2 DEF ListRules
  <2>2. ClockOK'
    BY <1>0, <1>10 DEF ListRules, ClockOK
  <2> QED
    BY <1>2, <1>3, <1>10, <2>1, <2>2 DEF ListRules, Types
<1>11. CASE CopyPackets
  BY <1>0, <1>1, <1>2, <1>3, <1>11 DEF CopyPackets, Types, EvalOK, BufOK
<1>12. CASE PassOver
  BY <1>0, <1>1, <1>2, <1>3, <1>12, TailFacts DEF PassOver, Types, EvalOK
<1>13. CASE Fire
  <2>1. PICK c \in Call : fires' = Append(fires, c)
    BY <1>0, <1>13, FireFacts
  <2>2. fires' \in Seq(Call) /\ fires' # <<>>
    BY <1>0, <2>1, AppendProperties DEF EvalOK
  <2> QED
    BY <1>0, <1>1, <1>2, <1>3, <1>13, <2>2 DEF Fire, Types, EvalOK
<1>14. CASE Stamp
  <2>1. Recorded \/ UNCHANGED <<table, fires>>
    BY <1>0, <1>14, StampFacts
  <2>2. RuleOK'
    BY <1>0, <1>14, <2>1 DEF Stamp, Recorded, RuleOK
  <2>3. fires' \in Seq(Call)
    BY <1>0, <2>1 DEF Recorded, EvalOK
  <2>4. EvalOK'
    BY <1>0, <1>14, <2>3, TailFacts DEF Stamp, EvalOK
  <2> QED
    BY <1>1, <1>2, <1>14, <2>2, <2>4 DEF Stamp, Types
<1>15. CASE EndRound
  BY <1>0, <1>1, <1>2, <1>3, <1>15, EmptySeq DEF EndRound, Types, EvalOK
<1>16. CASE Restart
  <2>1. ClockOK'
    <3>1. now' = now /\ started' = now /\ due' \in BOOLEAN
      BY <1>16, Zenon DEF Restart
    <3> QED
      BY <1>0, <3>1, BoundsAssumption DEF ClockOK
  <2>3. BufOK'
    BY <1>16, EmptySeq DEF Restart, BufOK
  <2>2. EvalOK'
    BY <1>0, <1>16, EmptySeq DEF Restart, EvalOK
  <2> QED
    BY <1>3, <1>16, <2>1, <2>2, <2>3 DEF Restart, Types
<1> QED
  BY <1>5, <1>6, <1>7, <1>8, <1>9, <1>10, <1>11, <1>12, <1>13, <1>14, <1>15, <1>16 DEF Next, Evaluate

\* The specification keeps to its types; a rule is on the list while its webhook is called.
THEOREM TypesHold == Spec => []TypeOK
<1>1. Types => TypeOK
  BY BoundsAssumption DEF Types, ClockOK, BufOK, RuleOK, EvalOK, Call, TypeOK
<1> QED
  BY <1>1, TypeInit, TypeStep, PTL DEF Spec

-----------------------------------------------------------------------------
(* The buffer *)

LEMMA BufferStep == Types /\ BufferRecent /\ [Next]_vars => BufferRecent'
<1> SUFFICES ASSUME Types, BufferRecent, [Next]_vars PROVE BufferRecent'
  OBVIOUS
<1>1. CASE UNCHANGED bufVars
  BY <1>1 DEF bufVars, BufferRecent
<1>2. ASSUME NEW c \in Contents, Ingest(c) PROVE BufferRecent'
  <2>0. BufOK /\ ClockOK /\ Cap \in Nat /\ Keep \in 1..Cap
    BY BufferAssumption DEF Types
  <2>1. PICK p \in Packet : packets' = Cut(Append(packets, p)) /\ ingested' = Append(ingested, p)
    BY <1>2, <2>0, IngestType
  <2> DEFINE all == Append(packets, p)
  <2>2. /\ all \in Seq(Packet) /\ Len(all) = Len(packets) + 1 /\ all[Len(packets) + 1] = p
        /\ \A k \in 1..Len(packets) : all[k] = packets[k]
        /\ ingested' \in Seq(Packet) /\ Len(ingested') = Len(ingested) + 1
        /\ ingested'[Len(ingested) + 1] = p
        /\ \A k \in 1..Len(ingested) : ingested'[k] = ingested[k]
        /\ Len(packets) \in Nat /\ Len(ingested) \in Nat
    BY <2>0, <2>1, AppendProperties DEF BufOK
  <2>3. /\ packets' \in Seq(Packet) /\ Len(packets') = (IF Len(all) > Cap THEN Keep ELSE Len(all))
        /\ \A k \in 1..Len(packets') : packets'[k] = all[Len(all) - Len(packets') + k]
    <3> HIDE DEF all
    <3> QED
      BY <2>1, <2>2, CutType DEF all
  <2>4. packets = ingested => all = ingested'
    BY <2>1
  <2>5. ~(Len(all) > Cap) => packets' = all
    BY <2>1 DEF Cut
  <2> HIDE DEF all
  <2>6. /\ Len(packets) <= Len(ingested) /\ (Len(packets) >= Keep \/ packets = ingested)
        /\ \A k \in 1..Len(packets) : packets[k] = ingested[Len(ingested) - Len(packets) + k]
    BY <2>0 DEF BufOK, BufferRecent
  <2>7. ASSUME NEW k \in 1..Len(all) PROVE all[k] = ingested'[Len(ingested') - Len(all) + k]
    <3> DEFINE m == Len(ingested) - Len(packets) + k
    <3>1. Len(ingested') - Len(all) + k = m
      BY <2>2
    <3>2. CASE k = Len(packets) + 1
      <4>1. m = Len(ingested) + 1
        BY <2>2, <3>2
      <4> QED
        BY <2>2, <3>1, <3>2, <4>1
    <3>3. CASE k # Len(packets) + 1
      <4>1. k \in 1..Len(packets) /\ m \in 1..Len(ingested)
        BY <2>2, <2>6, <3>3
      <4>2. packets[k] = ingested[m]
        BY <2>6, <4>1
      <4> HIDE DEF m
      <4> QED
        BY <2>2, <3>1, <4>1, <4>2
    <3> QED
      BY <3>2, <3>3
  <2>8. /\ Len(packets') <= Cap /\ Len(packets') <= Len(ingested')
        /\ Len(packets') >= Keep \/ packets' = ingested'
    BY <2>0, <2>2, <2>3, <2>4, <2>5, <2>6
  <2>9. ASSUME NEW k \in 1..Len(packets') PROVE packets'[k] = ingested'[Len(ingested') - Len(packets') + k]
    <3> DEFINE m == Len(all) - Len(packets') + k
    <3>1. m \in 1..Len(all) /\ Len(ingested') - Len(all) + m = Len(ingested') - Len(packets') + k
      BY <2>0, <2>2, <2>3
    <3>2. packets'[k] = all[m]
      BY <2>3
    <3>3. all[m] = ingested'[Len(ingested') - Len(all) + m]
      BY <2>7, <3>1
    <3> QED
      BY <3>1, <3>2, <3>3
  <2>10. DOMAIN packets' = 1..Len(packets')
    BY <2>3
  <2> QED
    BY <2>8, <2>9, <2>10 DEF BufferRecent
<1>3. CASE Restart
  BY <1>3, EmptySeq, BufferAssumption DEF Restart, BufferRecent
<1> QED
  BY <1>1, <1>2, <1>3 DEF Next, Evaluate, Second, CreateRule, DeleteRule, ListRules, CopyPackets,
                          PassOver, Fire, Stamp, EndRound, vars

\* The buffer always holds the newest packets, without a hole.
THEOREM BufferIsRecent == Spec => []BufferRecent
<1>1. Init => BufferRecent
  BY EmptySeq, BufferAssumption DEF Init, BufferRecent
<1> QED
  BY <1>1, TypeInit, TypeStep, BufferStep, PTL DEF Spec

-----------------------------------------------------------------------------
(* Rules, those listed and those called *)

\* A rule goes by its id everywhere, on the list in ascending order; the call under way
\* is the last one and is for the head of the list.
IdsOK ==
  /\ \A i \in DOMAIN table : table[i].id = i /\ table[i].serial = i
  /\ \A n \in 1..Len(todo) : todo[n].id = todo[n].serial /\ todo[n].serial \in 1..nextId - 1
  /\ \A m, n \in 1..Len(todo) : m < n => todo[m].serial < todo[n].serial
  /\ \A n \in 1..Len(fires) : /\ fires[n].rule.serial \in 1..nextId - 1
                              /\ fires[n].at \in 1..now /\ fires[n].round <= round
  /\ phase = "calling" => fires[Len(fires)].rule.serial = todo[1].serial

\* Every step keeps identifiers below the next one, and an evaluation in their order.
LEMMA IdsStep == Types /\ IdsOK /\ [Next]_vars => IdsOK'
<1> SUFFICES ASSUME Types, IdsOK, [Next]_vars PROVE IdsOK'
  OBVIOUS
<1>0. /\ ClockOK /\ RuleOK /\ EvalOK /\ Types' /\ now \in Nat /\ round \in Nat /\ nextId \in Nat
      /\ Len(todo) \in Nat /\ Len(fires) \in Nat /\ now' \in Nat
  BY TypeStep, BoundsAssumption DEF Types, ClockOK, EvalOK, RuleOK
<1>1. CASE UNCHANGED <<table, nextId, phase, todo, fires, round>> /\ now' >= now
  BY <1>0, <1>1 DEF IdsOK
<1>2. ASSUME NEW f \in Forms, CreateRule(f) PROVE IdsOK'
  <2>1. UNCHANGED <<now, phase, todo, fires, round>>
    BY <1>2 DEF CreateRule, clockVars, evalVars
  <2> QED
    BY <1>0, <1>2, <2>1, CreateFacts DEF IdsOK
<1>3. ASSUME NEW i \in DOMAIN table, DeleteRule(i) PROVE IdsOK'
  BY <1>0, <1>3 DEF DeleteRule, clockVars, evalVars, IdsOK
<1>4. CASE ListRules
  <2>1. CASE phase' = "listed" /\ todo' \in Listings /\ round' = round + 1
    <3>1. UNCHANGED <<table, nextId, fires, now>>
      BY <1>4 DEF ListRules, ruleVars
    <3>2. /\ \A n \in 1..Len(todo') : todo'[n].id = todo'[n].serial /\ todo'[n].serial \in 1..nextId - 1
          /\ \A m, n \in 1..Len(todo') : m < n => todo'[m].serial < todo'[n].serial
      <4>1. /\ \A n \in 1..Len(todo') : \E i \in DOMAIN table : todo'[n] = table[i]
            /\ \A m, n \in 1..Len(todo') : m < n => todo'[m].id < todo'[n].id
        BY <1>0, <2>1, ListingType
      <4>2. \A i \in DOMAIN table : table[i].id = i /\ table[i].serial = i /\ i \in 1..nextId - 1
        BY <1>0 DEF IdsOK, RuleOK
      <4>3. \A n \in 1..Len(todo') : todo'[n].id = todo'[n].serial /\ todo'[n].serial \in 1..nextId - 1
        BY <4>1, <4>2
      <4> QED
        BY <4>1, <4>3
    <3>3. phase' # "calling"
      BY <2>1
    <3>4. \A n \in 1..Len(fires) : fires[n].round \in Nat
      <4>1. \A c \in Call : c.round \in Nat
        BY DEF Call
      <4> QED
        BY <1>0, <4>1, ElementOfSeq DEF EvalOK
    <3> QED
      BY <1>0, <2>1, <3>1, <3>2, <3>3, <3>4 DEF IdsOK
  <2>2. CASE UNCHANGED <<phase, todo, round>>
    BY <1>0, <1>1, <1>4, <2>2 DEF ListRules, ruleVars
  <2> QED
    BY <1>4, <2>1, <2>2 DEF ListRules
<1>5. CASE CopyPackets \/ EndRound
  <2>1. UNCHANGED <<now, table, nextId, todo, fires, round>> /\ phase' # "calling"
    BY <1>5 DEF CopyPackets, EndRound, clockVars, ruleVars
  <2> QED
    BY <2>1 DEF IdsOK
<1>6. CASE PassOver
  <2>1. UNCHANGED <<now, table, nextId, phase, fires, round>> /\ phase' # "calling" /\ todo # <<>>
    BY <1>6 DEF PassOver, clockVars, ruleVars
  <2> QED
    BY <1>0, <1>6, <2>1, TailFacts DEF PassOver, IdsOK
<1>7. CASE Fire
  <2>1. UNCHANGED <<now, table, nextId, todo, round>>
    BY <1>7 DEF Fire, clockVars, ruleVars
  <2>2. PICK c \in Call : c.rule = todo[1] /\ c.at = now /\ c.round = round /\ fires' = Append(fires, c)
    BY <1>0, <1>7, FireFacts
  <2>3. /\ Len(fires') = Len(fires) + 1 /\ fires'[Len(fires) + 1] = c
        /\ \A n \in 1..Len(fires) : fires'[n] = fires[n]
    BY <1>0, <2>2, AppendProperties DEF EvalOK
  <2>4. now >= 1 /\ 1 \in 1..Len(todo)
    BY <1>0, <1>7, FireFacts DEF ClockOK
  <2> QED
    BY <1>0, <2>1, <2>2, <2>3, <2>4 DEF IdsOK
<1>8. CASE Stamp
  <2>1. UNCHANGED <<now, nextId, round>> /\ phase' # "calling" /\ todo' = Tail(todo) /\ todo # <<>>
    BY <1>0, <1>8 DEF Stamp, clockVars, EvalOK
  <2>2. Recorded \/ UNCHANGED <<table, fires>>
    BY <1>0, <1>8, StampFacts
  <2>3. CASE UNCHANGED <<table, fires>>
    BY <1>0, <2>1, <2>3, TailFacts DEF IdsOK
  <2>4. CASE Recorded
    <3>1. \A i \in DOMAIN table' : table'[i].id = i /\ table'[i].serial = i
      BY <2>4 DEF IdsOK, Recorded
    <3>2. \A n \in 1..Len(fires') : /\ fires'[n].rule.serial \in 1..nextId - 1
                                   /\ fires'[n].at \in 1..now /\ fires'[n].round <= round
      BY <2>4 DEF IdsOK, Recorded
    <3>3. /\ \A n \in 1..Len(todo') : todo'[n].id = todo'[n].serial /\ todo'[n].serial \in 1..nextId - 1
          /\ \A m, n \in 1..Len(todo') : m < n => todo'[m].serial < todo'[n].serial
      BY <1>0, <2>1, TailFacts DEF IdsOK
    <3> QED
      BY <2>1, <3>1, <3>2, <3>3 DEF IdsOK
  <2> QED
    BY <2>2, <2>3, <2>4
<1>9. CASE Restart
  <2>1. UNCHANGED <<now, table, nextId, fires, round>> /\ phase' # "calling" /\ todo' = <<>>
    BY <1>9 DEF Restart, ruleVars
  <2>2. 1..Len(todo') = {}
    BY <2>1, EmptySeq
  <2> QED
    BY <1>0, <2>1, <2>2 DEF IdsOK
<1>10. CASE Second \/ \E c \in Contents : Ingest(c)
  <2>1. UNCHANGED <<table, nextId, phase, todo, fires, round>> /\ now' >= now
    BY <1>0, <1>10 DEF Second, Ingest, clockVars, ruleVars, evalVars
  <2> QED
    BY <1>1, <2>1
<1>11. CASE UNCHANGED vars
  BY <1>0, <1>1, <1>11 DEF vars, clockVars, ruleVars, evalVars
<1> QED
  BY <1>2, <1>3, <1>4, <1>5, <1>6, <1>7, <1>8, <1>9, <1>10, <1>11 DEF Next, Evaluate

\* The empty table has no identifier to clash with.
LEMMA IdsInit == Init => IdsOK
<1> SUFFICES ASSUME Init PROVE IdsOK
  OBVIOUS
<1>1. DOMAIN table = {} /\ 1..Len(todo) = {} /\ 1..Len(fires) = {} /\ phase # "calling"
  BY EmptySeq DEF Init
<1> QED
  BY <1>1 DEF IdsOK

\* What is known of a deleted rule: it is on no listing but the one of its last round.
SilentOK ==
  /\ DeletedIsSilent
  /\ DOMAIN dropped \subseteq 1..nextId - 1 /\ DOMAIN dropped \cap DOMAIN table = {}
  /\ \A n \in 1..Len(todo) : todo[n].serial \in DOMAIN dropped => dropped[todo[n].serial] >= round

\* Every step keeps the bookkeeping behind a deleted rule's silence.
LEMMA SilentStep == Types /\ IdsOK /\ SilentOK /\ [Next]_vars => SilentOK'
<1> SUFFICES ASSUME Types, IdsOK, SilentOK, [Next]_vars PROVE SilentOK'
  OBVIOUS
<1>0. /\ ClockOK /\ RuleOK /\ EvalOK /\ IdsOK' /\ round \in Nat /\ nextId \in Nat
      /\ Len(todo) \in Nat /\ Len(fires) \in Nat /\ DOMAIN fires = 1..Len(fires)
  BY TypeStep, IdsStep, BoundsAssumption DEF Types, ClockOK, EvalOK, RuleOK
<1>1. CASE UNCHANGED <<table, nextId, dropped, todo, fires, round>>
  BY <1>1 DEF SilentOK, DeletedIsSilent
<1>2. ASSUME NEW f \in Forms, CreateRule(f) PROVE SilentOK'
  <2>1. UNCHANGED <<dropped, todo, fires, round>>
    BY <1>2 DEF CreateRule, evalVars
  <2>2. DOMAIN table' = DOMAIN table \cup {nextId} /\ nextId' = nextId + 1
    BY <1>0, <1>2, CreateFacts
  <2>3. DOMAIN dropped \cap DOMAIN table' = {} /\ DOMAIN dropped \subseteq 1..nextId' - 1
    BY <1>0, <2>2 DEF SilentOK
  <2> QED
    BY <2>1, <2>3 DEF SilentOK, DeletedIsSilent
<1>3. ASSUME NEW i \in DOMAIN table, DeleteRule(i) PROVE SilentOK'
  <2>1. /\ UNCHANGED <<nextId, todo, fires, round>> /\ table[i].serial = i /\ i \in 1..nextId - 1
        /\ DOMAIN table' = DOMAIN table \ {i}
    BY <1>0, <1>3 DEF DeleteRule, evalVars, IdsOK, RuleOK
  <2>2. dropped' = [j \in DOMAIN dropped \cup {i} |-> IF j = i THEN round ELSE dropped[j]]
    BY <1>3, <2>1 DEF DeleteRule
  <2>3. \A n \in 1..Len(fires) : fires[n].round <= round
    BY DEF IdsOK
  <2>4. DeletedIsSilent'
    BY <1>0, <2>1, <2>2, <2>3 DEF SilentOK, DeletedIsSilent
  <2>5. \A n \in 1..Len(todo) : todo[n].serial \in DOMAIN dropped' => dropped'[todo[n].serial] >= round
    BY <1>0, <2>2 DEF SilentOK
  <2> QED
    BY <2>1, <2>2, <2>4, <2>5 DEF SilentOK
<1>4. CASE ListRules
  <2>1. CASE phase' = "listed" /\ todo' \in Listings /\ round' = round + 1
    <3>1. UNCHANGED <<table, nextId, dropped, fires>>
      BY <1>4 DEF ListRules, ruleVars
    <3>2. \A n \in 1..Len(todo') : todo'[n].serial \in DOMAIN table
      <4>1. \A n \in 1..Len(todo') : \E i \in DOMAIN table : todo'[n] = table[i]
        BY <1>0, <2>1, ListingType
      <4> QED
        BY <4>1 DEF IdsOK
    <3> QED
      BY <3>1, <3>2 DEF SilentOK, DeletedIsSilent
  <2>2. CASE UNCHANGED <<phase, todo, round>>
    BY <1>1, <1>4, <2>2 DEF ListRules, ruleVars
  <2> QED
    BY <1>4, <2>1, <2>2 DEF ListRules
<1>5. CASE PassOver
  <2>1. UNCHANGED <<table, nextId, dropped, fires, round>> /\ todo # <<>>
    BY <1>5 DEF PassOver, ruleVars
  <2> QED
    BY <1>0, <1>5, <2>1, TailFacts DEF PassOver, SilentOK, DeletedIsSilent
<1>6. CASE Fire
  <2>1. UNCHANGED <<table, nextId, dropped, todo, round>>
    BY <1>6 DEF Fire, ruleVars
  <2>2. PICK c \in Call : c.rule = todo[1] /\ c.round = round /\ fires' = Append(fires, c)
    BY <1>0, <1>6, FireFacts
  <2>3. /\ Len(fires') = Len(fires) + 1 /\ fires'[Len(fires) + 1] = c
        /\ \A n \in 1..Len(fires) : fires'[n] = fires[n]
        /\ DOMAIN fires' = 1..Len(fires) + 1
    BY <1>0, <2>2, AppendProperties DEF EvalOK
  <2>4. 1 \in 1..Len(todo)
    BY <1>0, <1>6, FireFacts
  <2>5. todo[1].serial \in DOMAIN dropped => round <= dropped[todo[1].serial]
    BY <2>4 DEF SilentOK
  <2>6. DeletedIsSilent'
    BY <1>0, <2>1, <2>2, <2>3, <2>5 DEF SilentOK, DeletedIsSilent
  <2> QED
    BY <2>1, <2>6 DEF SilentOK
<1>7. CASE Stamp
  <2>1. UNCHANGED <<nextId, dropped, round>> /\ todo' = Tail(todo) /\ todo # <<>>
    BY <1>0, <1>7 DEF Stamp, EvalOK
  <2>2. Recorded \/ UNCHANGED <<table, fires>>
    BY <1>0, <1>7, StampFacts
  <2>3. DOMAIN table' = DOMAIN table
    BY <2>2 DEF Recorded
  <2>4. DeletedIsSilent'
    <3>1. CASE UNCHANGED <<table, fires>>
      BY <2>1, <3>1 DEF SilentOK, DeletedIsSilent
    <3>2. CASE Recorded
      <4>1. DOMAIN fires' = 1..Len(fires)
        BY <3>2 DEF Recorded
      <4> QED
        BY <1>0, <2>1, <3>2, <4>1 DEF Recorded, SilentOK, DeletedIsSilent
    <3> QED
      BY <2>2, <3>1, <3>2
  <2>5. \A n \in 1..Len(todo') : todo'[n].serial \in DOMAIN dropped => dropped[todo'[n].serial] >= round
    BY <1>0, <2>1, TailFacts DEF SilentOK
  <2> QED
    BY <2>1, <2>3, <2>4, <2>5 DEF SilentOK
<1>8. CASE Restart
  <2>1. UNCHANGED <<table, nextId, dropped, fires, round>> /\ todo' = <<>>
    BY <1>8 DEF Restart, ruleVars
  <2>2. 1..Len(todo') = {}
    BY <2>1, EmptySeq
  <2> QED
    BY <2>1, <2>2 DEF SilentOK, DeletedIsSilent
<1>9. CASE Second \/ CopyPackets \/ EndRound \/ (\E c \in Contents : Ingest(c)) \/ UNCHANGED vars
  BY <1>1, <1>9 DEF Second, CopyPackets, EndRound, Ingest, vars, ruleVars, evalVars
<1> QED
  BY <1>2, <1>3, <1>4, <1>5, <1>6, <1>7, <1>8, <1>9 DEF Next, Evaluate

\* No rule has been deleted at the start.
LEMMA SilentInit == Init => SilentOK
<1> SUFFICES ASSUME Init PROVE SilentOK
  OBVIOUS
<1>1. DOMAIN dropped = {} /\ 1..Len(todo) = {} /\ DOMAIN fires = {}
  BY EmptySeq DEF Init
<1> QED
  BY <1>1 DEF SilentOK, DeletedIsSilent

\* A deleted rule is called by no evaluation that lists the rules after that.
THEOREM DeletedRulesAreSilent == Spec => []DeletedIsSilent
<1>1. SilentOK => DeletedIsSilent
  BY DEF SilentOK
<1> QED
  BY <1>1, TypeInit, TypeStep, IdsInit, IdsStep, SilentInit, SilentStep, PTL DEF Spec

\* What a recorded call left behind: a row, and every copy of it still to judge, that
\* carries its instant or a later one.
StampedOK ==
  /\ CooldownSpacing /\ LastTriggeredIsOwn
  /\ \A n \in 1..Len(fires) : fires[n].stamped =>
       /\ \A i \in DOMAIN table : i = fires[n].rule.serial => table[i].last >= fires[n].at
       /\ \A m \in 1..Len(todo) : todo[m].serial = fires[n].rule.serial => todo[m].last >= fires[n].at

\* Every step keeps recorded calls a cooldown apart, and their rules marked with them.
LEMMA StampedStep == Types /\ IdsOK /\ StampedOK /\ [Next]_vars => StampedOK'
<1> SUFFICES ASSUME Types, IdsOK, StampedOK, [Next]_vars PROVE StampedOK'
  OBVIOUS
<1>0. /\ ClockOK /\ RuleOK /\ EvalOK /\ IdsOK' /\ now \in Nat /\ nextId \in Nat
      /\ Len(todo) \in Nat /\ Len(fires) \in Nat /\ DOMAIN fires = 1..Len(fires)
  BY TypeStep, IdsStep, BoundsAssumption DEF Types, ClockOK, EvalOK, RuleOK
<1>1. /\ \A i \in DOMAIN table : table[i].last \in Nat
      /\ \A n \in 1..Len(fires) : fires[n].at \in Nat
      /\ \A n \in 1..Len(todo) : todo[n].last \in Nat /\ todo[n].cooldown \in Int
  <2>1. /\ \A r \in RuleRow : r.last \in Nat /\ r.cooldown \in Int
        /\ \A c \in Call : c.at \in Nat
    BY DEF RuleRow, Call
  <2> QED
    BY <1>0, <2>1, ElementOfSeq DEF RuleOK, EvalOK
<1>2. CASE UNCHANGED <<table, todo, fires>>
  BY <1>2 DEF StampedOK, CooldownSpacing, LastTriggeredIsOwn
<1>3. ASSUME NEW f \in Forms, CreateRule(f) PROVE StampedOK'
  <2>1. UNCHANGED <<todo, fires>>
    BY <1>3 DEF CreateRule, evalVars
  <2>2. /\ DOMAIN table' = DOMAIN table \cup {nextId} /\ table'[nextId].last = 0
        /\ \A i \in DOMAIN table : table'[i] = table[i]
    BY <1>0, <1>3, CreateFacts
  <2>3. \A n \in 1..Len(fires) : fires[n].rule.serial # nextId
    BY <1>0 DEF IdsOK
  <2>4. LastTriggeredIsOwn'
    BY <2>1, <2>2 DEF StampedOK, LastTriggeredIsOwn
  <2>5. CooldownSpacing'
    BY <2>1 DEF StampedOK, CooldownSpacing
  <2> QED
    BY <2>1, <2>2, <2>3, <2>4, <2>5 DEF StampedOK
<1>4. ASSUME NEW i \in DOMAIN table, DeleteRule(i) PROVE StampedOK'
  <2>1. /\ UNCHANGED <<todo, fires>> /\ DOMAIN table' = DOMAIN table \ {i}
        /\ \A j \in DOMAIN table' : table'[j] = table[j]
    BY <1>4 DEF DeleteRule, evalVars
  <2>2. LastTriggeredIsOwn' /\ CooldownSpacing'
    BY <2>1 DEF StampedOK, LastTriggeredIsOwn, CooldownSpacing
  <2> QED
    BY <2>1, <2>2 DEF StampedOK
<1>5. CASE ListRules
  <2>1. CASE phase' = "listed" /\ todo' \in Listings /\ round' = round + 1
    <3>1. UNCHANGED <<table, fires>>
      BY <1>5 DEF ListRules, ruleVars
    <3>2. \A n \in 1..Len(todo') : \E i \in DOMAIN table : todo'[n] = table[i] /\ table[i].serial = i
      BY <1>0, <2>1, ListingType DEF IdsOK
    <3>3. LastTriggeredIsOwn' /\ CooldownSpacing'
      BY <3>1 DEF StampedOK, LastTriggeredIsOwn, CooldownSpacing
    <3> QED
      BY <3>1, <3>2, <3>3 DEF StampedOK
  <2>2. CASE UNCHANGED <<phase, todo, round>>
    BY <1>2, <1>5, <2>2 DEF ListRules, ruleVars
  <2> QED
    BY <1>5, <2>1, <2>2 DEF ListRules
<1>6. CASE PassOver
  <2>1. UNCHANGED <<table, fires>> /\ todo # <<>> /\ todo' = Tail(todo)
    BY <1>6 DEF PassOver, ruleVars
  <2>2. LastTriggeredIsOwn' /\ CooldownSpacing'
    BY <2>1 DEF StampedOK, LastTriggeredIsOwn, CooldownSpacing
  <2> QED
    BY <1>0, <2>1, <2>2, TailFacts DEF StampedOK
<1>7. CASE Fire
  <2>1. UNCHANGED <<table, todo>>
    BY <1>7 DEF Fire, ruleVars
  <2>2. PICK c \in Call : /\ c.rule = todo[1] /\ c.at = now /\ c.stamped = FALSE
                          /\ fires' = Append(fires, c)
    BY <1>0, <1>7, FireFacts
  <2>3. /\ Len(fires') = Len(fires) + 1 /\ fires'[Len(fires) + 1] = c
        /\ \A n \in 1..Len(fires) : fires'[n] = fires[n]
        /\ DOMAIN fires' = 1..Len(fires) + 1
    BY <1>0, <2>2, AppendProperties DEF EvalOK
  <2>4. 1 \in 1..Len(todo) /\ ~Cooling(todo[1])
    <3>1. Head(todo) = todo[1] /\ 1 \in 1..Len(todo)
      BY <1>0, <1>7, FireFacts, HeadTailProperties DEF EvalOK, Fire
    <3> QED
      BY <1>7, <3>1 DEF Fire, Exceeded
  <2>5. ASSUME NEW i \in 1..Len(fires), fires[i].stamped, fires[i].rule.serial = todo[1].serial
        PROVE  now - fires[i].at >= todo[1].cooldown
    <3>1. todo[1].last >= fires[i].at /\ fires[i].at >= 1
      BY <2>4, <2>5 DEF StampedOK, IdsOK
    <3>2. now - todo[1].last >= todo[1].cooldown
      BY <1>0, <1>1, <2>4, <3>1 DEF Cooling
    <3> QED
      BY <1>0, <1>1, <2>4, <3>1, <3>2
  <2>6. CooldownSpacing'
    <3> SUFFICES ASSUME NEW i \in 1..Len(fires) + 1, NEW j \in 1..Len(fires) + 1, i < j,
                        fires'[i].rule.serial = fires'[j].rule.serial, fires'[i].stamped
                 PROVE  fires'[j].at - fires'[i].at >= fires'[j].rule.cooldown
      BY <2>3 DEF CooldownSpacing
    <3>1. i \in 1..Len(fires)
      BY <1>0
    <3>2. CASE j \in 1..Len(fires)
      BY <1>0, <2>3, <3>1, <3>2 DEF StampedOK, CooldownSpacing
    <3>3. CASE j = Len(fires) + 1
      BY <2>2, <2>3, <2>5, <3>1, <3>3
    <3> QED
      BY <1>0, <3>2, <3>3
  <2>7. LastTriggeredIsOwn'
    BY <1>0, <2>1, <2>3 DEF StampedOK, LastTriggeredIsOwn
  <2> QED
    BY <1>0, <2>1, <2>2, <2>3, <2>6, <2>7 DEF StampedOK
<1>8. CASE Stamp
  <2>1. todo' = Tail(todo) /\ todo # <<>> /\ fires # <<>> /\ phase = "calling" /\ now' = now
    BY <1>0, <1>8 DEF Stamp, EvalOK, clockVars
  <2>2. Recorded \/ UNCHANGED <<table, fires>>
    BY <1>0, <1>8, StampFacts
  <2>3. CASE UNCHANGED <<table, fires>>
    <3>1. LastTriggeredIsOwn' /\ CooldownSpacing'
      BY <2>3 DEF StampedOK, LastTriggeredIsOwn, CooldownSpacing
    <3> QED
      BY <1>0, <2>1, <2>3, <3>1, TailFacts DEF StampedOK
  <2>4. CASE Recorded
    <3> DEFINE l == Len(fires)
    <3>1. /\ l \in 1..Len(fires) /\ 1 \in 1..Len(todo)
          /\ fires[l].rule.serial = todo[1].serial /\ todo[1].id = todo[1].serial
          /\ DOMAIN fires' = 1..Len(fires)
      <4>1. Len(fires) # 0 /\ Len(todo) # 0
        BY <1>0, <2>1, EmptySeq DEF EvalOK
      <4>2. DOMAIN fires' = 1..Len(fires)
        BY <2>4 DEF Recorded
      <4>3. l \in 1..Len(fires) /\ 1 \in 1..Len(todo)
        BY <1>0, <4>1
      <4> QED
        BY <2>1, <4>2, <4>3 DEF IdsOK
    <3> HIDE DEF l
    <3>2. CooldownSpacing'
      <4> SUFFICES ASSUME NEW i \in 1..Len(fires), NEW j \in 1..Len(fires), i < j,
                          fires'[i].rule.serial = fires'[j].rule.serial, fires'[i].stamped
                   PROVE  fires'[j].at - fires'[i].at >= fires'[j].rule.cooldown
        BY <3>1 DEF CooldownSpacing
      <4>1. fires[i].stamped /\ fires[i].rule.serial = fires[j].rule.serial
        <5>1. i # Len(fires)
          <6>1. Len(fires) \in Nat
            BY <1>0
          <6> QED
            BY ONLY <6>1, i \in 1..Len(fires), j \in 1..Len(fires), i < j
        <5>2. fires[i].stamped
          BY <2>4, <5>1 DEF Recorded
        <5>3. fires'[i].rule = fires[i].rule /\ fires'[j].rule = fires[j].rule
          BY <2>4 DEF Recorded
        <5> QED
          BY <5>2, <5>3
      <4>2. fires[j].at - fires[i].at >= fires[j].rule.cooldown
        BY <1>0, <4>1 DEF StampedOK, CooldownSpacing
      <4> QED
        BY <2>4, <4>2 DEF Recorded
    <3>3. \A n \in 1..Len(fires) : fires[n].at <= now
      BY DEF IdsOK
    <3>4. LastTriggeredIsOwn'
      <4> SUFFICES ASSUME NEW i \in DOMAIN table, table'[i].last # 0
                   PROVE  \E n \in 1..Len(fires) : /\ fires'[n].rule.serial = table'[i].serial
                                                   /\ fires'[n].stamped /\ fires'[n].at <= table'[i].last
        BY <2>4, <3>1 DEF LastTriggeredIsOwn, Recorded
      <4>1. table'[i].serial = i /\ table[i].serial = i
        BY <2>4 DEF IdsOK, Recorded
      <4>2. CASE i = todo[1].id
        <5>1. fires'[l].stamped /\ fires'[l].rule = fires[l].rule /\ fires'[l].at = fires[l].at
          BY <2>4, <3>1 DEF Recorded, l
        <5>2. table'[i].last = now
          BY <2>4, <4>2 DEF Recorded
        <5> QED
          BY <3>1, <3>3, <4>1, <4>2, <5>1, <5>2
      <4>3. CASE i # todo[1].id
        <5>1. PICK n \in 1..Len(fires) : /\ fires[n].rule.serial = i
                                         /\ fires[n].stamped /\ fires[n].at <= table[i].last
          BY <1>0, <2>4, <4>1, <4>3 DEF StampedOK, LastTriggeredIsOwn, Recorded
        <5> QED
          BY <2>4, <4>1, <4>3, <5>1 DEF Recorded
      <4> QED
        BY <4>2, <4>3
    <3>5. ASSUME NEW n \in 1..Len(fires), fires'[n].stamped
          PROVE  /\ \A i \in DOMAIN table : i = fires[n].rule.serial => table'[i].last >= fires[n].at
                 /\ \A m \in 1..Len(todo') : todo'[m].serial = fires[n].rule.serial => todo'[m].last >= fires[n].at
      <4>1. CASE n = l
        <5>1. \A m \in 1..Len(todo') : todo'[m].serial > todo[1].serial
          BY <1>0, <2>1, <3>1, TailFacts DEF IdsOK
        <5>2. fires[n].rule.serial = todo[1].serial /\ todo[1].serial \in Nat
          BY <1>0, <3>1, <4>1 DEF IdsOK
        <5>3. \A m \in 1..Len(todo') : todo'[m].serial \in Nat
          BY <1>0, <2>1, <3>1, TailFacts DEF IdsOK
        <5>4. \A m \in 1..Len(todo') : todo'[m].serial # fires[n].rule.serial
          BY <5>1, <5>2, <5>3
        <5>5. \A i \in DOMAIN table : i = fires[n].rule.serial => table'[i].last = now
          BY <2>4, <3>1, <5>2 DEF Recorded
        <5> QED
          BY <1>0, <1>1, <3>3, <5>4, <5>5
      <4>2. CASE n # l
        <5>1. fires[n].stamped
          BY <2>4, <3>5, <4>2 DEF Recorded, l
        <5>2. \A i \in DOMAIN table : i = fires[n].rule.serial => table'[i].last >= fires[n].at
          BY <1>0, <1>1, <2>4, <3>3, <5>1 DEF Recorded, StampedOK
        <5>3. \A m \in 1..Len(todo') : todo'[m].serial = fires[n].rule.serial => todo'[m].last >= fires[n].at
          BY <1>0, <2>1, <5>1, TailFacts DEF StampedOK
        <5> QED
          BY <5>2, <5>3
      <4> QED
        BY <4>1, <4>2
    <3> QED
      BY <2>4, <3>2, <3>4, <3>5 DEF StampedOK, Recorded
  <2> QED
    BY <2>2, <2>3, <2>4
<1>9. CASE Restart
  <2>1. UNCHANGED <<table, fires>> /\ todo' = <<>>
    BY <1>9 DEF Restart, ruleVars
  <2>2. 1..Len(todo') = {}
    BY <2>1, EmptySeq
  <2> QED
    BY <2>1, <2>2 DEF StampedOK, CooldownSpacing, LastTriggeredIsOwn
<1>10. CASE Second \/ CopyPackets \/ EndRound \/ (\E c \in Contents : Ingest(c)) \/ UNCHANGED vars
  BY <1>2, <1>10 DEF Second, CopyPackets, EndRound, Ingest, vars, ruleVars, evalVars
<1> QED
  BY <1>3, <1>4, <1>5, <1>6, <1>7, <1>8, <1>9, <1>10 DEF Next, Evaluate

\* No call has been recorded at the start.
LEMMA StampedInit == Init => StampedOK
<1> SUFFICES ASSUME Init PROVE StampedOK
  OBVIOUS
<1>1. DOMAIN table = {} /\ 1..Len(todo) = {} /\ DOMAIN fires = {} /\ 1..Len(fires) = {}
  BY EmptySeq DEF Init
<1> QED
  BY <1>1 DEF StampedOK, CooldownSpacing, LastTriggeredIsOwn

\* Once a call was recorded, the rule is not called again before its cooldown is over,
\* over restarts and however long the webhooks take.
THEOREM CooldownsAreKept == Spec => []CooldownSpacing
<1>1. StampedOK => CooldownSpacing
  BY DEF StampedOK
<1> QED
  BY <1>1, TypeInit, TypeStep, IdsInit, IdsStep, StampedInit, StampedStep, PTL DEF Spec

\* The instant in a row is that of a call for that very rule.
THEOREM InstantsAreOwn == Spec => []LastTriggeredIsOwn
<1>1. StampedOK => LastTriggeredIsOwn
  BY DEF StampedOK
<1> QED
  BY <1>1, TypeInit, TypeStep, IdsInit, IdsStep, StampedInit, StampedStep, PTL DEF Spec

-----------------------------------------------------------------------------
(* False alarms *)

\* The copy is a stretch of what was ingested.
CopyOK == \E off \in Nat : /\ off + Len(copy) <= Len(ingested)
                           /\ \A k \in 1..Len(copy) : copy[k] = ingested[off + k]

\* Every step keeps the snapshot a suffix of what was ingested.
LEMMA CopyStep == Types /\ BufferRecent /\ CopyOK /\ [Next]_vars => CopyOK'
<1> SUFFICES ASSUME Types, BufferRecent, CopyOK, [Next]_vars PROVE CopyOK'
  OBVIOUS
<1>0. /\ BufOK /\ ClockOK /\ copy \in Seq(Packet) /\ Len(copy) \in Nat
      /\ Len(packets) \in Nat /\ Len(ingested) \in Nat
  BY DEF Types, BufOK, EvalOK
<1>1. CASE UNCHANGED <<copy, ingested>>
  BY <1>1 DEF CopyOK
<1>2. ASSUME NEW c \in Contents, Ingest(c) PROVE CopyOK'
  <2>1. PICK p \in Packet : ingested' = Append(ingested, p)
    BY <1>0, <1>2, IngestType
  <2>2. Len(ingested') = Len(ingested) + 1 /\ \A k \in 1..Len(ingested) : ingested'[k] = ingested[k]
    BY <1>0, <2>1, AppendProperties DEF BufOK
  <2>3. copy' = copy
    BY <1>2 DEF Ingest, evalVars
  <2>4. PICK off \in Nat : /\ off + Len(copy) <= Len(ingested)
                           /\ \A k \in 1..Len(copy) : copy[k] = ingested[off + k]
    BY DEF CopyOK
  <2>5. \A k \in 1..Len(copy) : off + k \in 1..Len(ingested)
    BY <1>0, <2>4
  <2>6. \A k \in 1..Len(copy) : copy[k] = ingested'[off + k]
    BY <2>2, <2>4, <2>5
  <2>7. off + Len(copy) <= Len(ingested')
    BY <1>0, <2>2, <2>4
  <2> QED
    BY <2>3, <2>6, <2>7 DEF CopyOK
<1>3. CASE CopyPackets
  <2> DEFINE off == Len(ingested) - Len(packets)
  <2>1. copy' = packets /\ ingested' = ingested
    BY <1>3 DEF CopyPackets, bufVars
  <2>2. off \in Nat /\ \A k \in 1..Len(packets) : packets[k] = ingested[off + k]
    BY <1>0 DEF BufferRecent, BufOK
  <2>3. off + Len(packets) <= Len(ingested)
    BY <1>0
  <2> HIDE DEF off
  <2> QED
    BY <2>1, <2>2, <2>3 DEF CopyOK
<1>4. CASE EndRound \/ Restart
  <2>1. copy' = <<>> /\ Len(copy') = 0 /\ 1..Len(copy') = {} /\ Len(ingested') \in Nat
    BY <1>0, <1>4, EmptySeq DEF EndRound, Restart, bufVars
  <2> QED
    BY <2>1 DEF CopyOK
<1> QED
  BY <1>1, <1>2, <1>3, <1>4 DEF Next, Evaluate, Second, CreateRule, DeleteRule, ListRules,
                                PassOver, Fire, Stamp, vars, bufVars, evalVars

\* The snapshot is empty at the start.
LEMMA CopyInit == Init => CopyOK
<1> SUFFICES ASSUME Init PROVE CopyOK
  OBVIOUS
<1>1. Len(copy) = 0 /\ Len(ingested) = 0 /\ 1..Len(copy) = {}
  BY EmptySeq DEF Init
<1> QED
  BY <1>1 DEF CopyOK

\* What is counted in the copy is found among the packets ingested.
LEMMA CountedBelow ==
  ASSUME Types, CopyOK, NEW r, NEW t
  PROVE  /\ CountAt(r, copy, t) \in Nat /\ CountAt(r, ingested, t) \in Nat
         /\ CountAt(r, copy, t) <= CountAt(r, ingested, t)
<1> DEFINE Fits(p) == p.time >= t - r.window /\ Matches(r, p)
           S == {n \in 1..Len(copy) : Fits(copy[n])}
           T == {n \in 1..Len(ingested) : Fits(ingested[n])}
<1>1. /\ Len(copy) \in Nat /\ DOMAIN copy = 1..Len(copy)
      /\ Len(ingested) \in Nat /\ DOMAIN ingested = 1..Len(ingested)
  BY DEF Types, BufOK, EvalOK
<1>2. CountAt(r, copy, t) = Cardinality(S) /\ CountAt(r, ingested, t) = Cardinality(T)
  BY <1>1 DEF CountAt
<1>3. PICK off \in Nat : /\ off + Len(copy) <= Len(ingested)
                         /\ \A k \in 1..Len(copy) : copy[k] = ingested[off + k]
  BY DEF CopyOK
<1> HIDE DEF Fits
<1>4. IsFiniteSet(S) /\ IsFiniteSet(T)
  <2>1. IsFiniteSet(1..Len(copy)) /\ IsFiniteSet(1..Len(ingested))
    BY <1>1, FS_Interval
  <2>2. S \in SUBSET (1..Len(copy)) /\ T \in SUBSET (1..Len(ingested))
    OBVIOUS
  <2> HIDE DEF S, T
  <2> QED
    BY <2>1, <2>2, FS_Subset
<1>5. \A n \in S : off + n \in T
  BY <1>1, <1>3
<1> DEFINE f == [n \in S |-> off + n]
<1>6. f \in [S -> T] /\ \A m, n \in S : f[m] = f[n] => m = n
  BY <1>1, <1>3, <1>5
<1> HIDE DEF S, T, f
<1>7. f \in Injection(S, T)
  BY <1>6, Fun_IsInj
<1> QED
  BY <1>2, <1>4, <1>7, FS_Injection, FS_CardinalityType

\* When a webhook is called, more packets than the threshold really matched the rule in
\* the window that ends at that instant.
THEOREM AlarmsAreTrue == Spec => NoFalseAlarm
<1> DEFINE True == Len(fires') > Len(fires) =>
                     LET r == Last(fires').rule IN CountAt(r, ingested, now) > r.threshold
<1>1. Types /\ CopyOK /\ [Next]_vars => [True]_vars
  <2> SUFFICES ASSUME Types, CopyOK, Next, Len(fires') > Len(fires)
               PROVE  LET r == Last(fires').rule IN CountAt(r, ingested, now) > r.threshold
    OBVIOUS
  <2>0. ClockOK /\ RuleOK /\ EvalOK /\ Len(fires) \in Nat
    BY DEF Types, EvalOK
  <2>1. fires' # fires
    BY <2>0
  <2>2. Fire \/ Stamp
    BY <2>1 DEF Next, Evaluate, Second, Ingest, CreateRule, DeleteRule, ListRules, CopyPackets,
                PassOver, EndRound, Restart, evalVars
  <2>3. ~Stamp
    <3>1. ASSUME Stamp PROVE Len(fires') = Len(fires)
      <4>1. Recorded \/ fires' = fires
        BY <2>0, <3>1, StampFacts
      <4> QED
        BY <4>1 DEF Recorded
    <3>2. ~(Len(fires') = Len(fires))
      BY <2>0
    <3> QED
      BY <3>1, <3>2
  <2>4. PICK c \in Call : c.rule = todo[1] /\ fires' = Append(fires, c)
    BY <2>0, <2>2, <2>3, FireFacts
  <2>5. Last(fires') = c
    BY <2>0, <2>4, AppendProperties DEF EvalOK, Last
  <2>6. CountAt(todo[1], copy, now) > todo[1].threshold /\ todo[1] \in RuleRow
    <3>1. Head(todo) = todo[1]
      BY <2>0, <2>2, <2>3, HeadTailProperties DEF EvalOK, Fire
    <3> QED
      BY <2>0, <2>2, <2>3, <3>1, FireFacts DEF Fire, Exceeded, Counted
  <2>7. todo[1].threshold \in Int
    BY <2>6 DEF RuleRow
  <2>8. CountAt(todo[1], ingested, now) > todo[1].threshold
    BY <2>6, <2>7, CountedBelow
  <2> QED
    BY <2>4, <2>5, <2>8
<1>2. Init => BufferRecent
  BY EmptySeq, BufferAssumption DEF Init, BufferRecent
<1> QED
  BY <1>1, <1>2, TypeInit, TypeStep, BufferStep, CopyInit, CopyStep, PTL DEF Spec, NoFalseAlarm
-----------------------------------------------------------------------------
(* One call a round *)

\* No evaluation calls a rule twice, whether its first call was recorded or not, and
\* whatever is created, deleted or restarted meanwhile.
CalledOnce ==
  \A i, j \in 1..Len(fires) :
    i < j /\ fires[i].rule.serial = fires[j].rule.serial => fires[i].round < fires[j].round

\* The rules called in this round, but for the one being called, come before those on the
\* list.
OnceOK ==
  /\ CalledOnce
  /\ \A n \in 1..Len(fires) : fires[n].round = round /\ ~(phase = "calling" /\ n = Len(fires)) =>
       \A m \in 1..Len(todo) : fires[n].rule.serial < todo[m].serial

\* Every step keeps the rules called in an evaluation before those still to be judged.
LEMMA OnceStep == Types /\ IdsOK /\ OnceOK /\ [Next]_vars => OnceOK'
<1> SUFFICES ASSUME Types, IdsOK, OnceOK, [Next]_vars PROVE OnceOK'
  OBVIOUS
<1>0. /\ ClockOK /\ RuleOK /\ EvalOK /\ round \in Nat /\ Len(todo) \in Nat /\ Len(fires) \in Nat
  BY DEF Types, EvalOK
<1>1. CASE UNCHANGED <<todo, fires, round>> /\ phase' # "calling" /\ phase # "calling"
  BY <1>1 DEF OnceOK, CalledOnce
<1>2. CASE UNCHANGED <<todo, fires, round, phase>>
  BY <1>2 DEF OnceOK, CalledOnce
<1>3. CASE ListRules
  <2>1. CASE UNCHANGED <<phase, todo, round>>
    BY <1>2, <1>3, <2>1 DEF ListRules
  <2>2. CASE phase' = "listed" /\ round' = round + 1
    <3>1. fires' = fires
      BY <1>3 DEF ListRules
    <3>2. \A n \in 1..Len(fires) : fires[n].round # round + 1
      <4>1. \A n \in 1..Len(fires) : fires[n].round \in Nat /\ fires[n].round <= round
        <5>1. \A c \in Call : c.round \in Nat
          BY DEF Call
        <5> QED
          BY <1>0, <5>1, ElementOfSeq DEF EvalOK, IdsOK
      <4> QED
        BY <1>0, <4>1
    <3> QED
      BY <2>2, <3>1, <3>2 DEF OnceOK, CalledOnce
  <2> QED
    BY <1>3, <2>1, <2>2 DEF ListRules
<1>4. CASE CopyPackets \/ EndRound
  BY <1>1, <1>4 DEF CopyPackets, EndRound
<1>5. CASE PassOver
  <2>1. UNCHANGED <<phase, fires, round>> /\ phase # "calling" /\ todo # <<>> /\ todo' = Tail(todo)
    BY <1>5 DEF PassOver
  <2> QED
    BY <1>0, <2>1, TailFacts DEF OnceOK, CalledOnce
<1>6. CASE Fire
  <2>1. UNCHANGED <<todo, round>> /\ phase' = "calling" /\ phase # "calling"
    BY <1>6 DEF Fire
  <2>2. PICK c \in Call : c.rule = todo[1] /\ c.round = round /\ fires' = Append(fires, c)
    BY <1>0, <1>6, FireFacts
  <2>3. PICK l : l = Len(fires)
    OBVIOUS
  <2>4. /\ l \in Nat /\ Len(fires') = l + 1 /\ fires'[l + 1] = c
        /\ \A n \in 1..l : fires'[n] = fires[n]
    BY <1>0, <2>2, <2>3, AppendProperties DEF EvalOK
  <2>5. 1 \in 1..Len(todo)
    BY <1>0, <1>6, FireFacts
  <2>6. \A n \in 1..l : fires[n].round = round => fires[n].rule.serial < todo[1].serial
    BY <2>1, <2>3, <2>5 DEF OnceOK
  <2>7. ASSUME NEW i \in 1..l, fires[i].rule.serial = c.rule.serial PROVE fires[i].round < c.round
    <3>1. fires[i].round <= round /\ fires[i].rule.serial \in Int /\ fires[i].round \in Int
      <4>1. \A d \in Call : d.round \in Int
        BY DEF Call
      <4> QED
        BY <1>0, <2>3, <4>1, ElementOfSeq DEF EvalOK, IdsOK
    <3>2. fires[i].round # round
      BY <2>2, <2>6, <2>7, <3>1
    <3> QED
      BY <1>0, <2>2, <3>1, <3>2
  <2>8. CalledOnce'
    <3> SUFFICES ASSUME NEW i \in 1..l + 1, NEW j \in 1..l + 1, i < j,
                        fires'[i].rule.serial = fires'[j].rule.serial
                 PROVE  fires'[i].round < fires'[j].round
      BY <2>4 DEF CalledOnce
    <3>1. i \in 1..l
      BY <2>4
    <3>2. CASE j \in 1..l
      BY <2>3, <2>4, <3>1, <3>2 DEF OnceOK, CalledOnce
    <3>3. CASE j = l + 1
      BY <2>4, <2>7, <3>1, <3>3
    <3> QED
      BY <2>4, <3>2, <3>3
  <2>9. \A n \in 1..l + 1 : fires'[n].round = round /\ n # l + 1 =>
          \A m \in 1..Len(todo) : fires'[n].rule.serial < todo[m].serial
    <3>1. \A n \in 1..l + 1 : n # l + 1 => n \in 1..l
      BY <2>4
    <3> QED
      BY <2>1, <2>3, <2>4, <3>1 DEF OnceOK
  <2> QED
    BY <2>1, <2>4, <2>8, <2>9 DEF OnceOK
<1>7. CASE Stamp
  <2>1. /\ UNCHANGED round /\ phase = "calling" /\ phase' # "calling"
        /\ todo' = Tail(todo) /\ todo # <<>>
    BY <1>0, <1>7 DEF Stamp, EvalOK
  <2>2. /\ Len(fires') = Len(fires)
        /\ \A n \in 1..Len(fires) : fires'[n].rule = fires[n].rule /\ fires'[n].round = fires[n].round
    BY <1>0, <1>7, StampFacts DEF Recorded
  <2>3. \A n \in 1..Len(fires) : fires[n].round = round =>
          \A m \in 1..Len(todo) : m > 1 => fires[n].rule.serial < todo[m].serial
    <3>1. \A m \in 1..Len(todo) : m > 1 => todo[1].serial < todo[m].serial
      BY <1>0 DEF IdsOK
    <3>2. fires[Len(fires)].rule.serial = todo[1].serial
      BY <2>1 DEF IdsOK
    <3> QED
      BY <3>1, <3>2 DEF OnceOK
  <2>4. \A n \in 1..Len(todo') : n + 1 \in 1..Len(todo) /\ n + 1 > 1 /\ todo'[n] = todo[n + 1]
    BY <1>0, <2>1, TailFacts
  <2>5. CalledOnce'
    BY <2>2 DEF OnceOK, CalledOnce
  <2>6. \A n \in 1..Len(fires') : fires'[n].round = round =>
          \A m \in 1..Len(todo') : fires'[n].rule.serial < todo'[m].serial
    BY <2>2, <2>3, <2>4
  <2> QED
    BY <2>1, <2>5, <2>6 DEF OnceOK
<1>8. CASE Restart
  <2>1. UNCHANGED <<fires, round>> /\ todo' = <<>>
    BY <1>8 DEF Restart
  <2>2. 1..Len(todo') = {}
    BY <2>1, EmptySeq
  <2> QED
    BY <2>1, <2>2 DEF OnceOK, CalledOnce
<1>9. CASE \/ Second \/ UNCHANGED vars \/ (\E c \in Contents : Ingest(c))
           \/ (\E f \in Forms : CreateRule(f)) \/ \E i \in DOMAIN table : DeleteRule(i)
  BY <1>2, <1>9 DEF Second, Ingest, CreateRule, DeleteRule, vars, evalVars
<1> QED
  BY <1>3, <1>4, <1>5, <1>6, <1>7, <1>8, <1>9 DEF Next, Evaluate

\* A rule is called once an evaluation at most: a call that was not recorded, since the
\* update failed or the process died, is repeated by a later evaluation only.
THEOREM RulesAreCalledOnce == Spec => []CalledOnce
<1>1. Init => OnceOK
  <2> SUFFICES ASSUME Init PROVE OnceOK
    OBVIOUS
  <2>1. 1..Len(fires) = {}
    BY EmptySeq DEF Init
  <2> QED
    BY <2>1 DEF OnceOK, CalledOnce
<1>2. OnceOK => CalledOnce
  BY DEF OnceOK
<1> QED
  BY <1>1, <1>2, TypeInit, TypeStep, IdsInit, IdsStep, OnceStep, PTL DEF Spec
=============================================================================
