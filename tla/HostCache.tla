----------------------------- MODULE HostCache ------------------------------
(***************************************************************************)
(* enrich.Service: the host names of a packet's addresses.  Every SSE      *)
(* handler calls cachedHostLookup twice a packet; a name that is not in    *)
(* the cache is asked of the resolver in a goroutine of its own, which     *)
(* hands its answer over in a channel of its own, and the call waits for   *)
(* it no longer than the timeout.  Answers come late, come empty or do not *)
(* come, several calls ask for one address, entries age and are swept.     *)
(***************************************************************************)
EXTENDS Integers, Sequences

CONSTANTS
  Callers,   \* the handlers that enrich packets
  IPs,
  Hosts,     \* names the resolver may give
  NoHost,    \* the empty string: no name, or an error
  Timeout,   \* how long a call waits, 50 ms in the code
  Ttl,       \* how long an entry is served, 30 min in the code
  MaxTime, MaxLookups  \* bounds: instants, lookups of a behaviour

ASSUME HostsAssumption == NoHost \notin Hosts
ASSUME TimesAssumption == Timeout \in Nat \ {0} /\ Ttl \in Nat \ {0} /\ MaxTime \in Nat

VARIABLES
  now,       \* the clock
  entries,   \* simpleCache.entries: [value, expiry] by address
  lookups,   \* the goroutines: [ip, by, deadline, answer], answer is what their channel got
  waiting,   \* the lookup each caller waits for, 0 if none
  answers,   \* history: what the resolver said: [ip, host, at]
  last       \* history: what each caller was given last: [ip, host, at]

vars == <<now, entries, lookups, waiting, answers, last>>

Unanswered == {}  \* the state of a channel that nothing was sent to

Init ==
  /\ now = 0
  /\ entries = <<>>
  /\ lookups = <<>>
  /\ waiting = [w \in Callers |-> 0]
  /\ answers = {}
  /\ last = [w \in Callers |-> {}]

-----------------------------------------------------------------------------
\* Variant: the expiry is not looked at.
ServesStale(ip) == ip \in DOMAIN entries

\* Get: the entry is there and has not expired.
Serves(ip) == ip \in DOMAIN entries /\ now <= entries[ip].expiry

Given(w, ip, host) == last' = [last EXCEPT ![w] = {[ip |-> ip, host |-> host, at |-> now]}]

\* cachedHostLookup with the name in the cache.
Hit(w, ip) ==
  /\ waiting[w] = 0
  /\ Serves(ip)
  /\ Given(w, ip, entries[ip].value)
  /\ UNCHANGED <<now, entries, lookups, waiting, answers>>

\* cachedHostLookup without: a goroutine is started, the select waits.
Miss(w, ip) ==
  /\ waiting[w] = 0
  /\ ~Serves(ip)
  /\ Len(lookups) < MaxLookups /\ now + Timeout <= MaxTime
  /\ lookups' = Append(lookups, [ip |-> ip, by |-> w, deadline |-> now + Timeout,
                                 answer |-> Unanswered])
  /\ waiting' = [waiting EXCEPT ![w] = Len(lookups) + 1]
  /\ UNCHANGED <<now, entries, answers, last>>

\* Variant: a channel without a buffer, which needs the caller to be there still.
AnswerWanted(n, host) ==
  /\ lookups[n].answer = Unanswered
  /\ waiting[lookups[n].by] = n
  /\ lookups' = [lookups EXCEPT ![n].answer = {host}]
  /\ answers' = answers \cup {[ip |-> lookups[n].ip, host |-> host, at |-> now]}
  /\ UNCHANGED <<now, entries, waiting, last>>

\* The resolver answers; the send fits in the buffer, whether anyone waits or not.
Answer(n, host) ==
  /\ lookups[n].answer = Unanswered
  /\ lookups' = [lookups EXCEPT ![n].answer = {host}]
  /\ answers' = answers \cup {[ip |-> lookups[n].ip, host |-> host, at |-> now]}
  /\ UNCHANGED <<now, entries, waiting, last>>

\* Set.
Stored(ip, host) ==
  entries' = [a \in DOMAIN entries \cup {ip} |->
                IF a = ip THEN [value |-> host, expiry |-> now + Ttl] ELSE entries[a]]

\* The select takes the answer: only a name is stored.
Receive(w) ==
  /\ waiting[w] # 0
  /\ LET l == lookups[waiting[w]] IN
       \E host \in l.answer :
         /\ IF host = NoHost THEN UNCHANGED entries ELSE Stored(l.ip, host)
         /\ Given(w, l.ip, host)
  /\ waiting' = [waiting EXCEPT ![w] = 0]
  /\ UNCHANGED <<now, lookups, answers>>

\* The select takes the end of the context, even if there is an answer by now.
Expires(w) ==
  /\ waiting[w] # 0
  /\ now >= lookups[waiting[w]].deadline
  /\ Given(w, lookups[waiting[w]].ip, NoHost)
  /\ waiting' = [waiting EXCEPT ![w] = 0]
  /\ UNCHANGED <<now, entries, lookups, answers>>

\* Variant: the comparison the wrong way round.
SweepLive ==
  /\ entries' = [ip \in {a \in DOMAIN entries : now > entries[a].expiry} |-> entries[ip]]
  /\ UNCHANGED <<now, lookups, waiting, answers, last>>

\* cleanup, whenever its ticker says so.
Sweep ==
  /\ entries' = [ip \in {a \in DOMAIN entries : now <= entries[a].expiry} |-> entries[ip]]
  /\ UNCHANGED <<now, lookups, waiting, answers, last>>

\* Time passes when no caller has anything to do: what the code does takes none.
Tick ==
  /\ now < MaxTime
  /\ \A w \in Callers : waiting[w] # 0 =>
       /\ lookups[waiting[w]].answer = Unanswered
       /\ now < lookups[waiting[w]].deadline
  /\ now' = now + 1
  /\ UNCHANGED <<entries, lookups, waiting, answers, last>>

Next ==
  \/ Tick \/ Sweep
  \/ \E w \in Callers : Receive(w) \/ Expires(w) \/ \E ip \in IPs : Hit(w, ip) \/ Miss(w, ip)
  \/ \E n \in DOMAIN lookups, host \in Hosts \cup {NoHost} : Answer(n, host)

\* Time goes on and callers keep running; nothing is assumed of the resolver.
Spec == Init /\ [][Next]_vars /\ WF_vars(Tick) /\ \A w \in Callers : WF_vars(Receive(w) \/ Expires(w))
-----------------------------------------------------------------------------
(* Properties *)

AnyHost == Hosts \cup {NoHost}

\* The types; a caller waits for a lookup it started itself, and no name is
\* stored that is none.
TypeOK ==
  /\ now \in 0..MaxTime
  /\ DOMAIN entries \subseteq IPs
  /\ \A ip \in DOMAIN entries : entries[ip] \in [value : Hosts, expiry : Nat]
  /\ lookups \in Seq([ip : IPs, by : Callers, deadline : Nat, answer : SUBSET AnyHost])
  /\ waiting \in [Callers -> 0..Len(lookups)]
  /\ answers \subseteq [ip : IPs, host : AnyHost, at : Nat]
  /\ last \in [Callers -> SUBSET [ip : IPs, host : AnyHost, at : Nat]]
  /\ \A w \in Callers : waiting[w] # 0 => lookups[waiting[w]].by = w

\* A name shown for an address is one the resolver gave for that very address, no
\* longer ago than an entry lives, whatever lookups overlap or answer late.
FreshHosts ==
  \A w \in Callers : \A g \in last[w] : g.host # NoHost =>
    \E a \in answers : a.ip = g.ip /\ a.host = g.host /\ a.at <= g.at /\ g.at - a.at <= Ttl

\* An entry that Get would serve is never swept, nor is its life cut short by a
\* later answer for that address.
KeptUntilExpiry ==
  [][\A ip \in DOMAIN entries : now <= entries[ip].expiry =>
       ip \in DOMAIN entries' /\ entries'[ip].expiry >= entries[ip].expiry]_vars

Ended(n) == n \in DOMAIN lookups /\ lookups[n].answer # Unanswered
GivesUp(n) == n \in DOMAIN lookups /\ \E host \in Hosts \cup {NoHost} : Answer(n, host)

\* A packet is not held up for ever, the call returns although the resolver may never
\* answer; and no goroutine is left behind by a call that did not wait for it, each one
\* ends if the resolver gives up on its question in the end.
NothingHangs ==
  /\ \A w \in Callers : waiting[w] # 0 ~> waiting[w] = 0
  /\ \A n \in 1..MaxLookups : WF_vars(GivesUp(n)) => (n \in DOMAIN lookups ~> Ended(n))
=============================================================================
