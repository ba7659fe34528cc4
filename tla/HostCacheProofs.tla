-------------------------- MODULE HostCacheProofs --------------------------
(***************************************************************************)
(* Theorems about the cache of host names.                                 *)
(***************************************************************************)
EXTENDS HostCache, SequenceTheorems, TLAPS

Lookup == [ip : IPs, by : Callers, deadline : Nat, answer : SUBSET AnyHost]
Said   == [ip : IPs, host : AnyHost, at : Nat]

\* The empty cache is well typed.
LEMMA TypeInit == Init => TypeOK
BY TimesAssumption DEF Init, TypeOK

\* What is told to one caller.
LEMMA GivenType ==
  ASSUME TypeOK, NEW w \in Callers, NEW ip \in IPs, NEW host \in AnyHost, Given(w, ip, host)
  PROVE  /\ last' \in [Callers -> SUBSET Said]
         /\ last' = [last EXCEPT ![w] = {[ip |-> ip, host |-> host, at |-> now]}]
<1>1. [ip |-> ip, host |-> host, at |-> now] \in Said
  BY TimesAssumption DEF TypeOK, Said
<1> QED
  BY <1>1 DEF Given, TypeOK, Said

\* Set adds or replaces one entry, good until its expiry.
LEMMA StoredType ==
  ASSUME TypeOK, NEW ip \in IPs, NEW host \in Hosts, Stored(ip, host)
  PROVE  /\ DOMAIN entries' = DOMAIN entries \cup {ip} /\ DOMAIN entries' \subseteq IPs
         /\ entries'[ip] = [value |-> host, expiry |-> now + Ttl]
         /\ \A a \in DOMAIN entries \ {ip} : entries'[a] = entries[a]
         /\ \A a \in DOMAIN entries' : entries'[a] \in [value : Hosts, expiry : Nat]
BY TimesAssumption DEF TypeOK, Stored

\* Every step of a lookup, a worker or the clock keeps the types.
LEMMA TypeStep == TypeOK /\ [Next]_vars => TypeOK'
<1> SUFFICES ASSUME TypeOK, [Next]_vars PROVE TypeOK'
  OBVIOUS
<1>0. /\ lookups \in Seq(Lookup) /\ Len(lookups) \in Nat /\ now \in Nat /\ Timeout \in Nat
      /\ \A w \in Callers : waiting[w] \in 0..Len(lookups)
      /\ Hosts \subseteq AnyHost /\ NoHost \in AnyHost
  BY TimesAssumption DEF TypeOK, Lookup, AnyHost
<1>1. CASE UNCHANGED vars
  BY <1>1 DEF vars, TypeOK
<1>2. CASE Tick
  BY <1>0, <1>2, TimesAssumption DEF Tick, TypeOK
<1>3. CASE Sweep
  BY <1>3 DEF Sweep, TypeOK
<1>4. ASSUME NEW w \in Callers, NEW ip \in IPs, Hit(w, ip) PROVE TypeOK'
  <2>1. ip \in DOMAIN entries /\ entries[ip].value \in AnyHost
    BY <1>0, <1>4 DEF Hit, Serves, TypeOK
  <2>2. last' \in [Callers -> SUBSET Said]
    BY <1>4, <2>1, GivenType DEF Hit
  <2> QED
    BY <1>4, <2>2 DEF Hit, TypeOK, Said
<1>5. ASSUME NEW w \in Callers, NEW ip \in IPs, Miss(w, ip) PROVE TypeOK'
  <2> DEFINE l == [ip |-> ip, by |-> w, deadline |-> now + Timeout, answer |-> Unanswered]
  <2>1. l \in Lookup /\ l.by = w
    BY <1>0 DEF Lookup, Unanswered
  <2>2. lookups' = Append(lookups, l) /\ waiting' = [waiting EXCEPT ![w] = Len(lookups) + 1]
    BY <1>5 DEF Miss
  <2> HIDE DEF l
  <2>3. /\ lookups' \in Seq(Lookup) /\ Len(lookups') = Len(lookups) + 1
        /\ \A n \in 1..Len(lookups) : lookups'[n] = lookups[n]
        /\ lookups'[Len(lookups) + 1] = l
    BY <1>0, <2>1, <2>2, AppendProperties
  <2>4. waiting' \in [Callers -> 0..Len(lookups')]
    BY <1>0, <2>2, <2>3 DEF TypeOK
  <2>5. \A v \in Callers : waiting'[v] # 0 => lookups'[waiting'[v]].by = v
    BY <1>0, <2>1, <2>2, <2>3 DEF TypeOK
  <2> QED
    BY <1>5, <2>3, <2>4, <2>5 DEF Miss, TypeOK, Lookup
<1>6. ASSUME NEW n \in DOMAIN lookups, NEW host \in AnyHost, Answer(n, host) PROVE TypeOK'
  <2> DEFINE l == [lookups[n] EXCEPT !.answer = {host}]
  <2>1. l \in Lookup /\ l.by = lookups[n].by /\ n \in 1..Len(lookups) /\ lookups[n].ip \in IPs
    <3>1. n \in 1..Len(lookups) /\ lookups[n] \in Lookup
      BY <1>0
    <3>2. {host} \in SUBSET AnyHost
      OBVIOUS
    <3> QED
      BY <3>1, <3>2 DEF Lookup
  <2>2. lookups' = [lookups EXCEPT ![n] = l]
    BY <1>6 DEF Answer
  <2> HIDE DEF l
  <2>3. /\ lookups' \in Seq(Lookup) /\ Len(lookups') = Len(lookups)
        /\ \A m \in 1..Len(lookups) : lookups'[m].by = lookups[m].by
    BY <1>0, <2>1, <2>2, ExceptSeq
  <2>4. answers' \subseteq Said
    BY <1>0, <1>6, <2>1 DEF Answer, TypeOK, Said
  <2> QED
    BY <1>0, <1>6, <2>3, <2>4 DEF Answer, TypeOK, Lookup, Said
<1>7. ASSUME NEW w \in Callers, Receive(w) PROVE TypeOK'
  <2> DEFINE l == lookups[waiting[w]]
  <2>1. l \in Lookup
    BY <1>0, <1>7 DEF Receive
  <2>2. PICK host \in l.answer : /\ IF host = NoHost THEN UNCHANGED entries ELSE Stored(l.ip, host)
                                 /\ Given(w, l.ip, host)
    BY <1>7 DEF Receive
  <2>3. PICK ip \in IPs : ip = l.ip /\ host \in AnyHost
    BY <2>1 DEF Lookup
  <2> HIDE DEF l
  <2>4. last' \in [Callers -> SUBSET Said]
    BY <2>2, <2>3, GivenType
  <2>5. /\ DOMAIN entries' \subseteq IPs
        /\ \A a \in DOMAIN entries' : entries'[a] \in [value : Hosts, expiry : Nat]
    <3>1. CASE host = NoHost
      BY <2>2, <3>1 DEF TypeOK
    <3>2. CASE host # NoHost
      BY <2>2, <2>3, <3>2, StoredType DEF AnyHost
    <3> QED
      BY <3>1, <3>2
  <2>6. waiting' = [waiting EXCEPT ![w] = 0] /\ UNCHANGED <<now, lookups, answers>>
    BY <1>7 DEF Receive
  <2> QED
    BY <1>0, <2>4, <2>5, <2>6 DEF TypeOK, Said
<1>8. ASSUME NEW w \in Callers, Expires(w) PROVE TypeOK'
  <2>1. lookups[waiting[w]].ip \in IPs
    <3>1. waiting[w] \in 1..Len(lookups)
      BY <1>0, <1>8 DEF Expires
    <3>2. lookups[waiting[w]] \in Lookup
      BY <1>0, <3>1
    <3> QED
      BY <3>2 DEF Lookup
  <2>2. last' \in [Callers -> SUBSET Said]
    BY <1>0, <1>8, <2>1, GivenType DEF Expires
  <2>3. waiting' = [waiting EXCEPT ![w] = 0] /\ UNCHANGED <<now, entries, lookups, answers>>
    BY <1>8 DEF Expires
  <2> QED
    BY <1>0, <2>2, <2>3 DEF TypeOK, Said
<1> QED
  BY <1>1, <1>2, <1>3, <1>4, <1>5, <1>6, <1>7, <1>8 DEF Next, AnyHost

\* The specification keeps to its types, whatever the resolver does.
THEOREM TypesHold == Spec => []TypeOK
BY TypeInit, TypeStep, PTL DEF Spec

-----------------------------------------------------------------------------
(* Freshness *)

\* A name in the cache is one the resolver gave, the expiry counted from no later than
\* that; a name a caller has still to take was given just now.
FreshInv ==
  /\ TypeOK /\ FreshHosts
  /\ \A ip \in DOMAIN entries : \E a \in answers :
       /\ a.ip = ip /\ a.host = entries[ip].value
       /\ a.at <= now /\ entries[ip].expiry <= a.at + Ttl
  /\ \A w \in Callers : waiting[w] # 0 => \A host \in lookups[waiting[w]].answer :
       \E a \in answers : a.ip = lookups[waiting[w]].ip /\ a.host = host /\ a.at = now

\* Every step keeps each cached or awaited host an answer of the lookups, recent enough.
LEMMA FreshStep == FreshInv /\ [Next]_vars => FreshInv'
<1> SUFFICES ASSUME FreshInv, [Next]_vars PROVE FreshInv'
  OBVIOUS
<1> DEFINE Cached == \A ip \in DOMAIN entries : \E a \in answers :
                       /\ a.ip = ip /\ a.host = entries[ip].value
                       /\ a.at <= now /\ entries[ip].expiry <= a.at + Ttl
           Due    == \A w \in Callers : waiting[w] # 0 => \A host \in lookups[waiting[w]].answer :
                       \E a \in answers : a.ip = lookups[waiting[w]].ip /\ a.host = host /\ a.at = now
<1>0. /\ TypeOK /\ TypeOK' /\ FreshHosts /\ Cached /\ Due
      /\ now \in Nat /\ Ttl \in Nat /\ \A a \in answers : a.at \in Nat
      /\ lookups \in Seq(Lookup) /\ Len(lookups) \in Nat
      /\ \A w \in Callers : waiting[w] \in 0..Len(lookups)
      /\ waiting \in [Callers -> 0..Len(lookups)]
  BY TypeStep, TimesAssumption DEF FreshInv, TypeOK, Lookup
<1>1. ASSUME Cached', Due', FreshHosts' PROVE FreshInv'
  BY <1>0, <1>1 DEF FreshInv
<1>2. ASSUME UNCHANGED <<last, answers>> PROVE FreshHosts'
  BY <1>0, <1>2 DEF FreshHosts
<1>3. ASSUME UNCHANGED <<now, entries, answers>> PROVE Cached'
  BY <1>0, <1>3
<1>4. ASSUME UNCHANGED <<now, lookups, answers>>, NEW w \in Callers,
             waiting' = waiting \/ waiting' = [waiting EXCEPT ![w] = 0]
      PROVE  Due'
  BY <1>0, <1>4
<1>5. ASSUME NEW w \in Callers, NEW ip \in IPs, NEW host \in AnyHost, Given(w, ip, host),
             UNCHANGED answers,
             host # NoHost => \E a \in answers : a.ip = ip /\ a.host = host /\ a.at <= now
                                                 /\ now - a.at <= Ttl
      PROVE  FreshHosts'
  <2> DEFINE g == [ip |-> ip, host |-> host, at |-> now]
  <2>1. last' = [last EXCEPT ![w] = {g}] /\ last \in [Callers -> SUBSET Said]
    BY <1>0, <1>5 DEF Given, TypeOK, Said
  <2>2. g.ip = ip /\ g.host = host /\ g.at = now
    OBVIOUS
  <2> HIDE DEF g
  <2>3. \A v \in Callers : last'[v] = IF v = w THEN {g} ELSE last[v]
    BY <2>1
  <2> QED
    BY <1>0, <1>5, <2>2, <2>3 DEF FreshHosts
<1> HIDE DEF Cached, Due
<1>6. CASE UNCHANGED vars
  BY <1>0, <1>6 DEF vars, FreshInv, FreshHosts, Cached, Due
<1>7. CASE Tick
  <2>1. Cached'
    BY <1>0, <1>7 DEF Tick, Cached
  <2>2. Due'
    BY <1>7 DEF Tick, Due, Unanswered
  <2> QED
    BY <1>1, <1>2, <1>7, <2>1, <2>2 DEF Tick
<1>8. CASE Sweep
  <2>1. Cached'
    BY <1>0, <1>8 DEF Sweep, Cached
  <2>2. Due'
    BY <1>0, <1>8 DEF Sweep, Due
  <2> QED
    BY <1>1, <1>2, <1>8, <2>1, <2>2 DEF Sweep
<1>9. ASSUME NEW w \in Callers, NEW ip \in IPs, Hit(w, ip) PROVE FreshInv'
  <2>1. /\ ip \in DOMAIN entries /\ now <= entries[ip].expiry /\ entries[ip].value \in Hosts
        /\ entries[ip].expiry \in Nat /\ Given(w, ip, entries[ip].value)
        /\ UNCHANGED <<now, entries, lookups, waiting, answers>>
    BY <1>0, <1>9 DEF Hit, Serves, TypeOK
  <2>2. PICK a \in answers : /\ a.ip = ip /\ a.host = entries[ip].value
                             /\ a.at <= now /\ entries[ip].expiry <= a.at + Ttl
    BY <1>0, <2>1 DEF Cached
  <2>3. now - a.at <= Ttl
    BY <1>0, <2>1, <2>2
  <2>4. FreshHosts'
    BY <1>5, <2>1, <2>2, <2>3 DEF AnyHost
  <2> QED
    BY <1>1, <1>3, <1>4, <2>1, <2>4
<1>10. ASSUME NEW w \in Callers, NEW ip \in IPs, Miss(w, ip) PROVE FreshInv'
  <2> DEFINE l == [ip |-> ip, by |-> w, deadline |-> now + Timeout, answer |-> Unanswered]
  <2>1. l \in Lookup /\ l.answer = {}
    BY <1>0, TimesAssumption DEF Lookup, Unanswered
  <2>2. lookups' = Append(lookups, l) /\ waiting' = [waiting EXCEPT ![w] = Len(lookups) + 1]
    BY <1>10 DEF Miss
  <2>3. UNCHANGED <<now, entries, answers, last>>
    BY <1>10 DEF Miss
  <2> HIDE DEF l
  <2>4. /\ \A n \in 1..Len(lookups) : lookups'[n] = lookups[n]
        /\ lookups'[Len(lookups) + 1] = l
    BY <1>0, <2>1, <2>2, AppendProperties
  <2>5. Due'
    BY <1>0, <2>1, <2>2, <2>3, <2>4 DEF Due
  <2> QED
    BY <1>1, <1>2, <1>3, <2>3, <2>5
<1>11. ASSUME NEW n \in DOMAIN lookups, NEW host \in AnyHost, Answer(n, host) PROVE FreshInv'
  <2> DEFINE new == [ip |-> lookups[n].ip, host |-> host, at |-> now]
             l   == [lookups[n] EXCEPT !.answer = {host}]
  <2>1. /\ new.ip = lookups[n].ip /\ new.host = host /\ new.at = now
        /\ answers' = answers \cup {new} /\ UNCHANGED <<now, entries, waiting, last>>
    BY <1>11 DEF Answer
  <2>2. n \in 1..Len(lookups) /\ lookups[n] \in Lookup
    BY <1>0
  <2>3. l.answer = {host} /\ l.ip = lookups[n].ip /\ lookups' = [lookups EXCEPT ![n] = l]
    BY <1>11, <2>2 DEF Lookup, Answer
  <2> HIDE DEF new, l
  <2>4. \A m \in 1..Len(lookups) : lookups'[m] = IF m = n THEN l ELSE lookups[m]
    BY <1>0, <2>2, <2>3
  <2>5. Cached'
    BY <1>0, <2>1 DEF Cached
  <2>6. Due'
    <3> SUFFICES ASSUME NEW w \in Callers, waiting[w] # 0, NEW h \in lookups'[waiting[w]].answer
                 PROVE  \E a \in answers' : a.ip = lookups'[waiting[w]].ip /\ a.host = h /\ a.at = now
      BY <2>1 DEF Due
    <3>1. waiting[w] \in 1..Len(lookups)
      BY <1>0
    <3>2. CASE waiting[w] = n
      BY <2>1, <2>3, <2>4, <3>1, <3>2
    <3>3. CASE waiting[w] # n
      BY <1>0, <2>1, <2>4, <3>1, <3>3 DEF Due
    <3> QED
      BY <3>2, <3>3
  <2>7. FreshHosts'
    BY <1>0, <2>1 DEF FreshHosts
  <2> QED
    BY <1>1, <2>5, <2>6, <2>7
<1>12. ASSUME NEW w \in Callers, Receive(w) PROVE FreshInv'
  <2> DEFINE l == lookups[waiting[w]]
  <2>1. waiting[w] # 0 /\ waiting' = [waiting EXCEPT ![w] = 0] /\ UNCHANGED <<now, lookups, answers>>
    BY <1>12 DEF Receive
  <2>2. l \in Lookup
    BY <1>0, <2>1
  <2>3. PICK host \in l.answer : /\ IF host = NoHost THEN UNCHANGED entries ELSE Stored(l.ip, host)
                                 /\ Given(w, l.ip, host)
    BY <1>12 DEF Receive
  <2>4. PICK a \in answers : a.ip = l.ip /\ a.host = host /\ a.at = now
    BY <1>0, <2>1 DEF Due
  <2>5. PICK ip \in IPs : ip = l.ip /\ host \in AnyHost
    BY <2>2 DEF Lookup
  <2> HIDE DEF l
  <2>6. FreshHosts'
    BY <1>0, <1>5, <2>1, <2>3, <2>4, <2>5
  <2>7. Cached'
    <3>1. CASE host = NoHost
      BY <1>3, <2>1, <2>3, <3>1
    <3>2. CASE host # NoHost
      <4>1. /\ DOMAIN entries' = DOMAIN entries \cup {ip}
            /\ entries'[ip] = [value |-> host, expiry |-> now + Ttl]
            /\ \A b \in DOMAIN entries \ {ip} : entries'[b] = entries[b]
        BY <1>0, <2>3, <2>5, <3>2, StoredType DEF AnyHost
      <4>2. entries'[ip].value = host /\ entries'[ip].expiry = now + Ttl
        BY <4>1
      <4> QED
        BY <1>0, <2>1, <2>4, <2>5, <4>1, <4>2 DEF Cached
    <3> QED
      BY <3>1, <3>2
  <2> QED
    BY <1>1, <1>4, <2>1, <2>6, <2>7
<1>13. ASSUME NEW w \in Callers, Expires(w) PROVE FreshInv'
  <2>1. waiting[w] \in 1..Len(lookups)
    BY <1>0, <1>13 DEF Expires
  <2>2. lookups[waiting[w]].ip \in IPs /\ NoHost \in AnyHost
    <3>1. lookups[waiting[w]] \in Lookup
      BY <1>0, <2>1
    <3> QED
      BY <3>1 DEF Lookup, AnyHost
  <2>3. /\ Given(w, lookups[waiting[w]].ip, NoHost) /\ UNCHANGED <<now, entries, lookups, answers>>
        /\ waiting' = [waiting EXCEPT ![w] = 0]
    BY <1>13 DEF Expires
  <2>4. FreshHosts'
    BY <1>5, <2>2, <2>3
  <2> QED
    BY <1>1, <1>3, <1>4, <2>3, <2>4
<1> QED
  BY <1>6, <1>7, <1>8, <1>9, <1>10, <1>11, <1>12, <1>13 DEF Next, AnyHost

\* No host is cached or awaited at the start.
LEMMA FreshInit == Init => FreshInv
BY TypeInit DEF Init, FreshInv, FreshHosts

\* A name that is shown was given for that address, no longer ago than an entry lives.
THEOREM HostsAreFresh == Spec => []FreshHosts
<1>1. FreshInv => FreshHosts
  BY DEF FreshInv
<1> QED
  BY <1>1, FreshInit, FreshStep, PTL DEF Spec

\* An entry that would still be served is never swept, nor does it lose any of its life.
THEOREM EntriesAreKept == Spec => KeptUntilExpiry
<1> DEFINE Kept == \A ip \in DOMAIN entries : now <= entries[ip].expiry =>
                     ip \in DOMAIN entries' /\ entries'[ip].expiry >= entries[ip].expiry
<1>1. FreshInv /\ [Next]_vars => [Kept]_vars
  <2> SUFFICES ASSUME FreshInv, Next PROVE Kept
    OBVIOUS
  <2>1. /\ TypeOK /\ now \in Nat /\ Ttl \in Nat /\ lookups \in Seq(Lookup)
        /\ \A ip \in DOMAIN entries : entries[ip].expiry \in Nat /\ entries[ip].expiry <= now + Ttl
    BY TimesAssumption DEF FreshInv, TypeOK, Lookup
  <2>2. CASE UNCHANGED entries
    BY <2>1, <2>2
  <2>3. CASE Sweep
    BY <2>1, <2>3 DEF Sweep
  <2>4. ASSUME NEW w \in Callers, Receive(w) PROVE Kept
    <3> DEFINE l == lookups[waiting[w]]
    <3>1. PICK host \in l.answer : IF host = NoHost THEN UNCHANGED entries ELSE Stored(l.ip, host)
      BY <2>4 DEF Receive
    <3>2. l \in Lookup
      BY <2>1, <2>4 DEF Receive, TypeOK
    <3>3. PICK ip \in IPs : ip = l.ip /\ host \in AnyHost
      BY <3>2 DEF Lookup
    <3> HIDE DEF l
    <3>4. CASE host # NoHost
      <4>1. /\ DOMAIN entries' = DOMAIN entries \cup {ip}
            /\ entries'[ip] = [value |-> host, expiry |-> now + Ttl]
            /\ \A b \in DOMAIN entries \ {ip} : entries'[b] = entries[b]
        BY <2>1, <3>1, <3>3, <3>4, StoredType DEF AnyHost
      <4> QED
        BY <2>1, <4>1
    <3> QED
      BY <2>2, <3>1, <3>4
  <2> QED
    BY <2>2, <2>3, <2>4 DEF Next, Tick, Hit, Miss, Answer, Expires
<1> QED
  BY <1>1, FreshInit, FreshStep, PTL DEF Spec, KeptUntilExpiry
=============================================================================
