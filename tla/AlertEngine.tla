---------------------------- MODULE AlertEngine ----------------------------
(***************************************************************************)
(* alerts.Engine with its rule table alerts.Store and the two admin        *)
(* handlers that change it.  The ingest goroutine keeps the last packets   *)
(* in a buffer; every ten seconds the run goroutine lists the rules,       *)
(* copies the buffer and judges the rules one after the other, which takes *)
(* as long as the webhooks it has to call.  Packets arrive, rules are      *)
(* created and deleted and time passes between any two of its steps.       *)
(*                                                                         *)
(* A packet is the instant it was captured and the rules' view of it: the  *)
(* addresses it carries and whether it is flagged.                         *)
(***************************************************************************)
EXTENDS Integers, Sequences, FiniteSets, SequencesExt

CONSTANTS
  Contents,         \* what packets may carry: [ips, flagged]
  Forms,            \* what an admin may submit: [type, target, threshold, window, cooldown]
  Cap, Keep,        \* the buffer is cut to Keep when it passes Cap; 10000 and 5000 in the code
  Period,           \* seconds between evaluations, 10 in the code
  HookTimeout,      \* the longest a webhook call lasts, 5 s in the code
  DefaultCooldown,  \* what a cooldown of 0 becomes, 300 s in the code
  MaxTime, MaxPkts, MaxRules  \* bounds: instants, packets and rules of a behaviour

ASSUME BufferAssumption == Cap \in Nat /\ Keep \in 1..Cap
ASSUME TimeAssumption == Period \in Nat \ {0} /\ HookTimeout \in Nat /\ DefaultCooldown \in Nat \ {0}
ASSUME InputsAssumption ==
  /\ \A c \in Contents : c.flagged \in BOOLEAN
  /\ \A f \in Forms : f.threshold \in Int /\ f.window \in Int /\ f.cooldown \in Int
ASSUME BoundsAssumption == MaxTime \in Nat \ {0} /\ MaxPkts \in Nat /\ MaxRules \in Nat

VARIABLES
  now,      \* the clock, in seconds
  started,  \* the instant the process, and the ticker of run, started
  packets,  \* Engine.packets
  table,    \* alert_rules: the rules by id; last is 0 for NULL
  nextId,   \* the AUTOINCREMENT sequence of alert_rules
  due,      \* a tick waits in the channel of the ticker
  phase,    \* run: "idle", "listed", "judging" or "calling" a webhook
  todo,     \* the listed rules still to judge
  copy,     \* currentPackets
  ingested, \* history: all packets ingested since the process started
  fires,    \* history: the webhook calls [rule, at, round, stamped]
  round,    \* history: how many times the rules were listed
  dropped   \* history: the round after which each deleted rule was gone

clockVars == <<now, started, due>>
ruleVars  == <<table, nextId, dropped>>
evalVars  == <<phase, todo, copy, fires, round>>
bufVars   == <<packets, ingested>>
vars      == <<clockVars, ruleVars, evalVars, bufVars>>

Init ==
  /\ now = 1 /\ started = 1 /\ due = FALSE
  /\ packets = <<>> /\ ingested = <<>>
  /\ table = <<>> /\ nextId = 1 /\ dropped = <<>>
  /\ phase = "idle" /\ todo = <<>> /\ copy = <<>>
  /\ fires = <<>> /\ round = 0

-----------------------------------------------------------------------------
\* Time passes; the ticker holds at most one tick.  A webhook call is over,
\* answered or not, when its timeout is.
Second ==
  /\ now < MaxTime
  /\ phase = "calling" => now < Last(fires).at + HookTimeout
  /\ now' = now + 1
  /\ due' = (due \/ (now' - started) % Period = 0)
  /\ UNCHANGED <<started, ruleVars, evalVars, bufVars>>

\* Variant: keeps the oldest packets instead of the newest.
CutFront(s) == IF Len(s) > Cap THEN SubSeq(s, 1, Keep) ELSE s

\* The buffer after an append.
Cut(s) == IF Len(s) > Cap THEN SubSeq(s, Len(s) - Keep + 1, Len(s)) ELSE s

\* One packet of the channel of the engine; it was captured some time before.
Ingest(c) ==
  /\ Len(ingested) < MaxPkts
  /\ \E t \in (IF ingested = <<>> THEN 1 ELSE Last(ingested).time)..now :
       LET p == [time |-> t, ips |-> c.ips, flagged |-> c.flagged] IN
         /\ packets' = Cut(Append(packets, p))
         /\ ingested' = Append(ingested, p)
  /\ UNCHANGED <<clockVars, ruleVars, evalVars>>

-----------------------------------------------------------------------------
\* Variant: no AUTOINCREMENT, SQLite then takes the largest rowid plus one.
NextRowid == IF DOMAIN table = {} THEN 1 ELSE 1 + Max(DOMAIN table)

\* The id of the next row.
NewId == nextId

\* adminAlertsCreate and Store.Create.
CreateRule(f) ==
  /\ nextId <= MaxRules
  /\ LET r == [id |-> NewId, serial |-> nextId, type |-> f.type, target |-> f.target,
               threshold |-> f.threshold, window |-> f.window,
               cooldown |-> IF f.cooldown = 0 THEN DefaultCooldown ELSE f.cooldown,
               last |-> 0, enabled |-> TRUE]
     IN table' = [i \in DOMAIN table \cup {NewId} |-> IF i = NewId THEN r ELSE table[i]]
  /\ nextId' = nextId + 1
  /\ UNCHANGED <<clockVars, dropped, evalVars, bufVars>>

\* Variant: the row stays.
DeleteNothing(i) ==
  /\ i \in DOMAIN table
  /\ dropped' = [j \in DOMAIN dropped \cup {table[i].serial} |->
                   IF j = table[i].serial THEN round ELSE dropped[j]]
  /\ UNCHANGED <<clockVars, table, nextId, evalVars, bufVars>>

\* adminAlertsDelete and Store.Delete.
DeleteRule(i) ==
  /\ i \in DOMAIN table
  /\ table' = [j \in DOMAIN table \ {i} |-> table[j]]
  /\ dropped' = [j \in DOMAIN dropped \cup {table[i].serial} |->
                   IF j = table[i].serial THEN round ELSE dropped[j]]
  /\ UNCHANGED <<clockVars, nextId, evalVars, bufVars>>

-----------------------------------------------------------------------------
\* The rules in the order of their rowids, as the scan of List returns them.
IsListing(s) == \A m, n \in DOMAIN s : m < n => s[m].id < s[n].id
Listings == {s \in [1..Cardinality(DOMAIN table) -> {table[i] : i \in DOMAIN table}] : IsListing(s)}

\* evaluate, first part: List; an error ends the evaluation.
ListRules ==
  /\ phase = "idle" /\ due
  /\ due' = FALSE
  /\ \/ phase' = "listed" /\ todo' \in Listings /\ round' = round + 1
     \/ UNCHANGED <<phase, todo, round>>
  /\ UNCHANGED <<now, started, ruleVars, copy, fires, bufVars>>

\* The copy of the buffer, under the mutex of the engine.
CopyPackets ==
  /\ phase = "listed"
  /\ phase' = "judging"
  /\ copy' = packets
  /\ UNCHANGED <<clockVars, ruleVars, todo, fires, round, bufVars>>

Matches(r, p) ==
  \/ r.type = "traffic_spike"
  \/ r.type = "ip_threshold" /\ r.target \in p.ips
  \/ r.type = "anomaly" /\ p.flagged

\* How many packets of s match rule r in its window, had it ended at instant t.
CountAt(r, s, t) ==
  Cardinality({n \in DOMAIN s : s[n].time >= t - r.window /\ Matches(r, s[n])})

\* Variant: the guard on the cooldown is dropped.
NeverCooling(r) == FALSE

Cooling(r) == r.last # 0 /\ now - r.last < r.cooldown

\* Variant: the cutoff is forgotten, the whole buffer is counted.
CountedAll(r) == Cardinality({n \in DOMAIN copy : Matches(r, copy[n])})

\* What the evaluation counts for rule r: the cutoff is taken from the clock for
\* each rule, the packets are those of the copy.
Counted(r) == CountAt(r, copy, now)

Exceeded(r) == r.enabled /\ ~Cooling(r) /\ Counted(r) > r.threshold

\* Variant: the loop stays at a rule it passes over.
PassOverStays ==
  /\ phase = "judging" /\ todo # <<>>
  /\ ~Exceeded(Head(todo))
  /\ UNCHANGED vars

\* A rule is passed over: disabled, cooling down, or its count is not exceeded.
PassOver ==
  /\ phase = "judging" /\ todo # <<>>
  /\ ~Exceeded(Head(todo))
  /\ todo' = Tail(todo)
  /\ UNCHANGED <<clockVars, ruleVars, phase, copy, fires, round, bufVars>>

\* fireWebhook is called.
Fire ==
  /\ phase = "judging" /\ todo # <<>>
  /\ Exceeded(Head(todo))
  /\ phase' = "calling"
  /\ fires' = Append(fires, [rule |-> Head(todo), at |-> now, round |-> round, stamped |-> FALSE])
  /\ UNCHANGED <<clockVars, ruleVars, todo, copy, round, bufVars>>

\* fireWebhook returns, whether the call was answered or failed, and
\* UpdateLastTriggered runs: no row if the rule is gone, no error looked at.
Stamp ==
  /\ phase = "calling"
  /\ phase' = "judging" /\ todo' = Tail(todo)
  /\ LET i == Head(todo).id IN
       \/ /\ table' = [j \in DOMAIN table |->
                         IF j = i THEN [table[j] EXCEPT !.last = now] ELSE table[j]]
          /\ fires' = [fires EXCEPT ![Len(fires)].stamped = TRUE]
       \/ UNCHANGED <<table, fires>>
  /\ UNCHANGED <<clockVars, nextId, dropped, copy, round, bufVars>>

EndRound ==
  /\ phase = "judging" /\ todo = <<>>
  /\ phase' = "idle" /\ copy' = <<>>
  /\ UNCHANGED <<clockVars, ruleVars, todo, fires, round, bufVars>>

\* The process is restarted: the rules are in the database, all else was memory.
Restart ==
  /\ packets' = <<>> /\ ingested' = <<>>
  /\ phase' = "idle" /\ todo' = <<>> /\ copy' = <<>>
  /\ started' = now /\ due' = FALSE
  /\ UNCHANGED <<now, ruleVars, fires, round>>

Evaluate == ListRules \/ CopyPackets \/ PassOver \/ Fire \/ Stamp \/ EndRound

Next ==
  \/ Second \/ Evaluate \/ Restart
  \/ \E c \in Contents : Ingest(c)
  \/ \E f \in Forms : CreateRule(f)
  \/ \E i \in DOMAIN table : DeleteRule(i)

\* The run goroutine keeps running, and a webhook call ends.
Spec == Init /\ [][Next]_vars /\ WF_vars(Evaluate)
-----------------------------------------------------------------------------
(* Properties *)

Packet == [time : 1..MaxTime, ips : {c.ips : c \in Contents}, flagged : BOOLEAN]

RuleRow == [id : Nat, serial : Nat, type : {f.type : f \in Forms}, target : {f.target : f \in Forms},
            threshold : Int, window : Int, cooldown : Int, last : Nat, enabled : BOOLEAN]

\* The types; a rule is on the list while its webhook is called.
TypeOK ==
  /\ now \in 1..MaxTime /\ started \in 1..now /\ due \in BOOLEAN
  /\ packets \in Seq(Packet) /\ copy \in Seq(Packet) /\ ingested \in Seq(Packet)
  /\ DOMAIN table \subseteq 1..MaxRules /\ \A i \in DOMAIN table : table[i] \in RuleRow
  /\ nextId \in 1..MaxRules + 1
  /\ phase \in {"idle", "listed", "judging", "calling"}
  /\ todo \in Seq(RuleRow) /\ round \in Nat
  /\ fires \in Seq([rule : RuleRow, at : Nat, round : Nat, stamped : BOOLEAN])
  /\ phase = "calling" => todo # <<>> /\ fires # <<>>

\* The buffer holds the newest packets, without a hole: never more than Cap and,
\* once that many came, never fewer than Keep.
BufferRecent ==
  /\ Len(packets) <= Cap /\ Len(packets) <= Len(ingested)
  /\ \A k \in DOMAIN packets : packets[k] = ingested[Len(ingested) - Len(packets) + k]
  /\ Len(packets) >= Keep \/ packets = ingested

\* No false alarm: when a webhook is called, more packets than the threshold
\* really matched the rule in the window that ends at that instant, however old
\* the copy and whatever was cut from the buffer meanwhile.
NoFalseAlarm ==
  [][Len(fires') > Len(fires) =>
       LET r == Last(fires').rule IN CountAt(r, ingested, now) > r.threshold]_vars

\* Two calls for one rule are at least its cooldown apart once the first one was
\* recorded, over restarts and however long the webhooks take.
CooldownSpacing ==
  \A i, j \in DOMAIN fires :
    i < j /\ fires[i].rule.serial = fires[j].rule.serial /\ fires[i].stamped =>
      fires[j].at - fires[i].at >= fires[j].rule.cooldown

\* A deleted rule is silent: it is at most called by the evaluation that had
\* listed it before it was deleted, by no later one.
DeletedIsSilent ==
  \A n \in DOMAIN fires :
    fires[n].rule.serial \in DOMAIN dropped => fires[n].round <= dropped[fires[n].rule.serial]

\* The instant in a row is that of a call for that very rule: recording a call of
\* a rule deleted meanwhile never silences the rule created after it.
LastTriggeredIsOwn ==
  \A i \in DOMAIN table : table[i].last # 0 =>
    \E n \in DOMAIN fires : /\ fires[n].rule.serial = table[i].serial
                            /\ fires[n].stamped /\ fires[n].at <= table[i].last

\* Every evaluation ends, whatever the webhooks and the admins do.
EvaluationEnds == phase # "idle" ~> phase = "idle"
=============================================================================
