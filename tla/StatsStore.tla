----------------------------- MODULE StatsStore -----------------------------
(***************************************************************************)
(* stats.Store: the in-memory heart of the analyser.  One mutex guards the *)
(* aggregate counters, the rolling per-second windows and the list of      *)
(* subscriber channels.  The capture goroutine calls Add for every packet, *)
(* the second ticker calls TickSecond, the alert engine and every SSE      *)
(* handler hold one subscription each.                                     *)
(*                                                                         *)
(* What is done while the mutex is held is one step.  Add leaves the mutex *)
(* before it sends, so its loop over the copied list is one step a channel *)
(* and every other goroutine runs between two of them.                     *)
(*                                                                         *)
(* A packet is its position in `captured', the history of what the capture *)
(* goroutine handed to Add; a channel carries positions.  There is one     *)
(* capture goroutine (capture.Start), hence at most one Add in flight, and *)
(* the packet in flight is the last one captured.                          *)
(***************************************************************************)
EXTENDS Integers, Sequences, FiniteSets, SequencesExt

CONSTANTS
  IPs, Protos,  \* addresses and protocol names
  Kinds,        \* the packets capture may produce: [src, dst, proto, size, flagged]
  Chans,        \* channel identities; a channel is made by one Subscribe
  ChanCap,      \* capacity of a subscriber channel, 64 in the code
  Window,       \* seconds kept in the rolling windows, 30 in the code
  MaxPkts       \* bound: packets captured in a behaviour

ASSUME KindsAssumption ==
  Kinds \subseteq [src : IPs, dst : IPs, proto : Protos, size : Nat, flagged : BOOLEAN]
ASSUME SizesAssumption == ChanCap \in Nat \ {0} /\ Window \in Nat \ {0} /\ MaxPkts \in Nat

VARIABLES
  agg,          \* the counters and windows of the Go struct, under their own names
  subscribers,  \* the channels Add will send to, in order of subscription
  status,       \* each channel: not made yet, open or closed
  buf,          \* what each channel buffers
  subs,         \* the rest of the copied list the Add in flight has to send to
  panicked,     \* the process has died of a send on a closed channel
  captured,     \* history: the packets handed to Add so far
  marks,        \* history: the totals at the last Window + 1 second boundaries
  joined,       \* history: how many packets were captured before each channel was made
  received,     \* history: what the owner of each channel took from it
  missed        \* history: what was dropped for each channel

aggVars  == <<agg, captured, marks>>
histVars == <<joined, received, missed>>
feedVars == <<subscribers, status, buf, subs, panicked, histVars>>
vars     == <<aggVars, feedVars>>

-----------------------------------------------------------------------------
Aggregates == [totalPkts : Nat, totalBytes : Nat, flagged : Nat,
               protoCounts : [Protos -> Nat], ipCounts : [IPs -> Nat],
               connections : [IPs \X IPs -> Nat],
               trafficSecs : Seq(Nat), bandwidthSecs : Seq(Nat),
               curSecPkts : Nat, curSecBytes : Nat]

Zeros(n) == [i \in 1..n |-> 0]

\* New: an entry of ipCounts or connections that is 0 stands for a missing key,
\* since the code creates entries with count 1 and never lowers them.
Init ==
  /\ agg = [totalPkts |-> 0, totalBytes |-> 0, flagged |-> 0,
            protoCounts |-> [p \in Protos |-> 0], ipCounts |-> [a \in IPs |-> 0],
            connections |-> [c \in IPs \X IPs |-> 0],
            trafficSecs |-> Zeros(Window), bandwidthSecs |-> Zeros(Window),
            curSecPkts |-> 0, curSecBytes |-> 0]
  /\ captured = <<>>
  /\ marks = [i \in 1..Window + 1 |-> [pkts |-> 0, bytes |-> 0]]
  /\ subscribers = <<>>
  /\ status = [c \in Chans |-> "unmade"]
  /\ buf = [c \in Chans |-> <<>>]
  /\ subs = <<>>
  /\ panicked = FALSE
  /\ joined = [c \in Chans |-> 0]
  /\ received = [c \in Chans |-> <<>>]
  /\ missed = [c \in Chans |-> {}]

-----------------------------------------------------------------------------
\* Variant: the connection key built the wrong way round.
CountedSwapped(k) ==
  [totalPkts     |-> agg.totalPkts + 1,
   totalBytes    |-> agg.totalBytes + k.size,
   flagged       |-> IF k.flagged THEN agg.flagged + 1 ELSE agg.flagged,
   protoCounts   |-> [agg.protoCounts EXCEPT ![k.proto] = @ + 1],
   ipCounts      |-> [agg.ipCounts EXCEPT ![k.src] = @ + 1],
   connections   |-> [agg.connections EXCEPT ![<<k.dst, k.src>>] = @ + 1],
   trafficSecs   |-> agg.trafficSecs,
   bandwidthSecs |-> agg.bandwidthSecs,
   curSecPkts    |-> agg.curSecPkts + 1,
   curSecBytes   |-> agg.curSecBytes + k.size]

\* The aggregates after one more packet of kind k.
Counted(k) ==
  [totalPkts     |-> agg.totalPkts + 1,
   totalBytes    |-> agg.totalBytes + k.size,
   flagged       |-> IF k.flagged THEN agg.flagged + 1 ELSE agg.flagged,
   protoCounts   |-> [agg.protoCounts EXCEPT ![k.proto] = @ + 1],
   ipCounts      |-> [agg.ipCounts EXCEPT ![k.src] = @ + 1],
   connections   |-> [agg.connections EXCEPT ![<<k.src, k.dst>>] = @ + 1],
   trafficSecs   |-> agg.trafficSecs,
   bandwidthSecs |-> agg.bandwidthSecs,
   curSecPkts    |-> agg.curSecPkts + 1,
   curSecBytes   |-> agg.curSecBytes + k.size]

\* Variant: a second capture goroutine, whose Add overlaps the first one's loop.
AddOverlapping(k) ==
  /\ ~panicked /\ Len(captured) < MaxPkts
  /\ agg' = Counted(k)
  /\ captured' = Append(captured, k)
  /\ subs' = subs \o subscribers
  /\ UNCHANGED <<marks, subscribers, status, buf, panicked, histVars>>

\* The critical section of Add: count the packet, copy the subscriber list.
Add(k) ==
  /\ ~panicked
  /\ subs = <<>>
  /\ Len(captured) < MaxPkts
  /\ agg' = Counted(k)
  /\ captured' = Append(captured, k)
  /\ subs' = subscribers
  /\ UNCHANGED <<marks, subscribers, status, buf, panicked, histVars>>

\* One iteration of the send loop of Add, outside the mutex.
Deliver ==
  /\ ~panicked /\ subs # <<>>
  /\ LET c == Head(subs) IN
       /\ status[c] = "open" /\ Len(buf[c]) < ChanCap
       /\ buf' = [buf EXCEPT ![c] = Append(@, Len(captured))]
  /\ subs' = Tail(subs)
  /\ UNCHANGED <<aggVars, subscribers, status, panicked, histVars>>

\* Variant: a return in the default branch, which ends the whole loop.
DropEndsLoop ==
  /\ ~panicked /\ subs # <<>>
  /\ LET c == Head(subs) IN
       /\ status[c] = "open" /\ Len(buf[c]) >= ChanCap
       /\ missed' = [missed EXCEPT ![c] = @ \cup {Len(captured)}]
  /\ subs' = <<>>
  /\ UNCHANGED <<aggVars, subscribers, status, buf, panicked, joined, received>>

\* Variant: no default branch, Add waits for room in the buffer.
DropNever == FALSE /\ UNCHANGED vars

\* The default branch: the subscriber's buffer is full, the packet is lost to it.
Drop ==
  /\ ~panicked /\ subs # <<>>
  /\ LET c == Head(subs) IN
       /\ status[c] = "open" /\ Len(buf[c]) >= ChanCap
       /\ missed' = [missed EXCEPT ![c] = @ \cup {Len(captured)}]
  /\ subs' = Tail(subs)
  /\ UNCHANGED <<aggVars, subscribers, status, buf, panicked, joined, received>>

\* A send on a closed channel panics, in a select with a default too; nothing
\* recovers in the capture goroutine, so the whole process dies.
SendOnClosed ==
  /\ ~panicked /\ subs # <<>>
  /\ status[Head(subs)] = "closed"
  /\ panicked' = TRUE
  /\ UNCHANGED <<aggVars, subscribers, status, buf, subs, histVars>>

Send == Deliver \/ Drop \/ SendOnClosed

\* Variant: the bytes of the second are not reset.
TickKeepsBytes ==
  /\ ~panicked
  /\ agg' = [agg EXCEPT !.trafficSecs   = Append(Tail(@), agg.curSecPkts),
                        !.bandwidthSecs = Append(Tail(@), agg.curSecBytes),
                        !.curSecPkts = 0]
  /\ marks' = Append(Tail(marks), [pkts |-> agg.totalPkts, bytes |-> agg.totalBytes])
  /\ UNCHANGED <<captured, feedVars>>

\* The windows move one second: the oldest bucket falls off, the running
\* counts become the newest one and start again from zero.
TickSecond ==
  /\ ~panicked
  /\ agg' = [agg EXCEPT !.trafficSecs   = Append(Tail(@), agg.curSecPkts),
                        !.bandwidthSecs = Append(Tail(@), agg.curSecBytes),
                        !.curSecPkts = 0, !.curSecBytes = 0]
  /\ marks' = Append(Tail(marks), [pkts |-> agg.totalPkts, bytes |-> agg.totalBytes])
  /\ UNCHANGED <<captured, feedVars>>

Subscribe(c) ==
  /\ ~panicked
  /\ status[c] = "unmade"
  /\ status' = [status EXCEPT ![c] = "open"]
  /\ subscribers' = Append(subscribers, c)
  /\ joined' = [joined EXCEPT ![c] = Len(captured)]
  /\ UNCHANGED <<aggVars, buf, subs, panicked, received, missed>>

\* Variant: the channel is closed but stays in the list.
UnsubscribeClosesOnly(c) ==
  /\ ~panicked
  /\ c \in ToSet(subscribers)
  /\ status' = [status EXCEPT ![c] = "closed"]
  /\ UNCHANGED <<aggVars, subscribers, buf, subs, panicked, histVars>>

\* The channel leaves the list and is closed in one critical section.
Unsubscribe(c) ==
  /\ ~panicked
  /\ \E i \in DOMAIN subscribers :
       /\ subscribers[i] = c
       /\ subscribers' = RemoveAt(subscribers, i)
  /\ status' = [status EXCEPT ![c] = "closed"]
  /\ UNCHANGED <<aggVars, buf, subs, panicked, histVars>>

\* The owner of channel c takes the oldest packet.  An owner that has called
\* Unsubscribe never receives again (ssePackets returns, the engine stays).
Receive(c) ==
  /\ ~panicked
  /\ status[c] = "open" /\ buf[c] # <<>>
  /\ buf' = [buf EXCEPT ![c] = Tail(@)]
  /\ received' = [received EXCEPT ![c] = Append(@, Head(buf[c]))]
  /\ UNCHANGED <<aggVars, subscribers, status, subs, panicked, joined, missed>>

Next ==
  \/ \E k \in Kinds : Add(k)
  \/ Send
  \/ TickSecond
  \/ \E c \in Chans : Subscribe(c) \/ Unsubscribe(c) \/ Receive(c)

\* Only the capture goroutine is assumed to keep running: what it does next
\* never waits for a subscriber, so no fairness of a subscriber is needed.
Spec == Init /\ [][Next]_vars /\ WF_vars(Send)
-----------------------------------------------------------------------------
(* Properties *)

\* What has reached channel c: what its owner took, then what is buffered.
Reached(c) == received[c] \o buf[c]

\* The packet the Add in flight still has to offer to c.
InFlight(c) == {n \in {Len(captured)} : c \in ToSet(subs)}

\* The types, and the fixed length of the rolling windows.
TypeOK ==
  /\ agg \in Aggregates
  /\ Len(agg.trafficSecs) = Window /\ Len(agg.bandwidthSecs) = Window
  /\ captured \in Seq(Kinds)
  /\ marks \in Seq([pkts : Nat, bytes : Nat]) /\ Len(marks) = Window + 1
  /\ subscribers \in Seq(Chans) /\ subs \in Seq(Chans)
  /\ status \in [Chans -> {"unmade", "open", "closed"}]
  /\ buf \in [Chans -> Seq(Nat)] /\ \A c \in Chans : Len(buf[c]) <= ChanCap
  /\ joined \in [Chans -> Nat]
  /\ received \in [Chans -> Seq(Nat)]
  /\ missed \in [Chans -> SUBSET Nat]
  /\ panicked \in BOOLEAN

\* The list holds each open channel once and no closed one, whatever the order
\* in which handlers come and go: a new Add never starts with a dead channel.
SubscribersOpen ==
  /\ \A i, j \in DOMAIN subscribers : subscribers[i] = subscribers[j] => i = j
  /\ \A c \in Chans : status[c] = "open" <=> c \in ToSet(subscribers)

InOrder(c) == LET s == Reached(c) IN
  /\ \A i, j \in DOMAIN s : i < j => s[i] < s[j]
  /\ \A i \in DOMAIN s : /\ joined[c] < s[i] /\ s[i] <= Len(captured)
                         /\ c \in ToSet(subs) => s[i] < Len(captured)

\* A subscriber is given packets in the order of capture and none twice, across
\* what it took and what is buffered, and nothing from before it subscribed;
\* the packet still to be offered to it is newer than all of them.
OrderedDelivery == \A c \in Chans : InOrder(c)

\* Since it subscribed, every packet reached a subscribed channel, was dropped
\* for it alone because its own buffer was full, or is being offered to it: a
\* slow or departed subscriber never costs another one a packet.
NoGap ==
  \A c \in ToSet(subscribers) :
    /\ ToSet(Reached(c)) \cup missed[c] \cup InFlight(c)
         = joined[c] + 1 .. Len(captured)
    /\ ToSet(Reached(c)) \cap missed[c] = {}

Matching(P(_)) == Cardinality({n \in DOMAIN captured : P(captured[n])})
Total(f) == MapThenSumSet(LAMBDA k : f[k], DOMAIN f)
Volume == Total([n \in DOMAIN captured |-> captured[n].size])

\* The counters are the reference counts over everything captured, so the
\* totals, the protocol pie, the top sources and the connections that one
\* Snapshot returns agree with one another.
CountersAgree ==
  /\ agg.totalPkts = Len(captured)
  /\ agg.totalBytes = Volume
  /\ agg.flagged = Matching(LAMBDA k : k.flagged)
  /\ \A p \in Protos : agg.protoCounts[p] = Matching(LAMBDA k : k.proto = p)
  /\ \A a \in IPs : agg.ipCounts[a] = Matching(LAMBDA k : k.src = a)
  /\ \A c \in IPs \X IPs :
       agg.connections[c] = Matching(LAMBDA k : <<k.src, k.dst>> = c)

\* Each bucket of the rolling charts is the traffic between two consecutive
\* second boundaries and the running counts are the traffic since the last one:
\* a packet added while the window moves is counted in one bucket, in both.
RollingWindow ==
  /\ \A i \in 1..Window :
       /\ agg.trafficSecs[i]   = marks[i + 1].pkts  - marks[i].pkts
       /\ agg.bandwidthSecs[i] = marks[i + 1].bytes - marks[i].bytes
  /\ agg.curSecPkts  = agg.totalPkts  - marks[Window + 1].pkts
  /\ agg.curSecBytes = agg.totalBytes - marks[Window + 1].bytes

\* Add returns whatever the subscribers do: a viewer that stops reading never
\* stalls the capture goroutine.
AddReturns == subs # <<>> ~> (subs = <<>> \/ panicked)

\* Buffers, the copied list and the counters hidden, the store is a lossy
\* broadcast: every step is a step of it or changes nothing it can see.
Membership == [unmade |-> "never", open |-> "in", closed |-> "left"]
Abstract == INSTANCE LossyBroadcast WITH
  Entries <- Kinds, Readers <- Chans, log <- captured,
  member <- [c \in Chans |-> Membership[status[c]]],
  since <- joined,
  given <- [c \in Chans |-> Reached(c)]
IsLossyBroadcast == Abstract!Spec

\* The live feed goes on for as long as the process runs (README.md, "Live Packet
\* Feed"): a viewer that leaves never takes the process down.
NeverPanics == ~panicked
=============================================================================
