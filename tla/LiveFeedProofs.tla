--------------------------- MODULE LiveFeedProofs ---------------------------
(***************************************************************************)
(* Theorems about StatsStore, about what Dashboard derives from it and     *)
(* about LiveFeed, for any number of channels, viewers, packets and buffer *)
(* places and any window.  The feed only uses the operations of the store, *)
(* so what is established of the store holds of the whole feed.            *)
(***************************************************************************)
EXTENDS LiveFeed, Dashboard, Sums

-----------------------------------------------------------------------------
(* The store *)


\* What the slice surgery of Unsubscribe leaves: everything but element i.
LEMMA RemoveAtProperties ==
  ASSUME NEW S, NEW s \in Seq(S), NEW i \in 1..Len(s)
  PROVE  /\ RemoveAt(s, i) \in Seq(S)
         /\ Len(RemoveAt(s, i)) = Len(s) - 1
         /\ \A j \in 1..Len(s) - 1 : RemoveAt(s, i)[j] = IF j < i THEN s[j] ELSE s[j + 1]
<1> DEFINE front == SubSeq(s, 1, i - 1)
           back  == SubSeq(s, i + 1, Len(s))
<1>1. Len(s) \in Nat /\ \A j \in 1..Len(s) : s[j] \in S
  BY ElementOfSeq, LenProperties
<1>2. /\ front \in Seq(S) /\ Len(front) = i - 1
      /\ \A j \in 1..i - 1 : front[j] = s[j]
  <2>1. \A j \in 1..i - 1 : s[j] \in S
    BY <1>1
  <2>2. /\ front \in Seq(S) /\ Len(front) = IF 1 <= i - 1 THEN (i - 1) - 1 + 1 ELSE 0
        /\ \A j \in 1..(i - 1) - 1 + 1 : front[j] = s[1 + j - 1]
    BY <2>1, <1>1, SubSeqProperties
  <2> QED
    BY <2>2, <1>1
<1>3. /\ back \in Seq(S) /\ Len(back) = Len(s) - i
      /\ \A j \in 1..Len(s) - i : back[j] = s[i + j]
  <2>1. \A j \in i + 1..Len(s) : s[j] \in S
    BY <1>1
  <2>2. /\ back \in Seq(S)
        /\ Len(back) = IF i + 1 <= Len(s) THEN Len(s) - (i + 1) + 1 ELSE 0
        /\ \A j \in 1..Len(s) - (i + 1) + 1 : back[j] = s[(i + 1) + j - 1]
    BY <2>1, <1>1, SubSeqProperties
  <2> QED
    BY <2>2, <1>1
<1>4. RemoveAt(s, i) = front \o back
  BY DEF RemoveAt
<1>5. /\ front \o back \in Seq(S)
      /\ Len(front \o back) = Len(front) + Len(back)
      /\ \A j \in 1..Len(front) + Len(back) :
           (front \o back)[j] = IF j <= Len(front) THEN front[j] ELSE back[j - Len(front)]
  BY <1>2, <1>3, ConcatProperties
<1> HIDE DEF front, back
<1>6. ASSUME NEW j \in 1..Len(s) - 1
      PROVE  (front \o back)[j] = IF j < i THEN s[j] ELSE s[j + 1]
  <2>1. CASE j < i
    BY <2>1, <1>1, <1>2, <1>3, <1>5
  <2>2. CASE ~(j < i)
    <3>1. (front \o back)[j] = back[j - (i - 1)]
      BY <2>2, <1>1, <1>2, <1>3, <1>5
    <3>2. j - (i - 1) \in 1..Len(s) - i
      BY <2>2, <1>1
    <3>3. back[j - (i - 1)] = s[i + (j - (i - 1))]
      BY <3>2, <1>3
    <3> QED
      BY <2>2, <3>1, <3>3, <1>1
  <2> QED
    BY <2>1, <2>2, <1>1
<1> QED
  BY <1>1, <1>2, <1>3, <1>4, <1>5, <1>6

-----------------------------------------------------------------------------
\* A record of counters and windows is an Aggregates value.
LEMMA RecordOfCounters ==
  ASSUME NEW p \in Nat, NEW b \in Nat, NEW f \in Nat,
         NEW pr \in [Protos -> Nat], NEW ic \in [IPs -> Nat], NEW cn \in [IPs \X IPs -> Nat],
         NEW ts \in Seq(Nat), NEW bs \in Seq(Nat), NEW sp \in Nat, NEW sb \in Nat
  PROVE  [totalPkts |-> p, totalBytes |-> b, flagged |-> f,
          protoCounts |-> pr, ipCounts |-> ic, connections |-> cn,
          trafficSecs |-> ts, bandwidthSecs |-> bs,
          curSecPkts |-> sp, curSecBytes |-> sb] \in Aggregates
<1> DEFINE PC == [Protos -> Nat]  IC == [IPs -> Nat]  CN == [IPs \X IPs -> Nat]
<1>1. pr \in PC /\ ic \in IC /\ cn \in CN
  OBVIOUS
<1>2. Aggregates = [totalPkts : Nat, totalBytes : Nat, flagged : Nat,
                    protoCounts : PC, ipCounts : IC, connections : CN,
                    trafficSecs : Seq(Nat), bandwidthSecs : Seq(Nat),
                    curSecPkts : Nat, curSecBytes : Nat]
  BY DEF Aggregates
<1> HIDE DEF PC, IC, CN
<1> QED
  BY <1>1, <1>2

\* Counters stay natural numbers.
LEMMA NatSums == \A a, b \in Nat : a + b \in Nat /\ a + 1 \in Nat
  OBVIOUS

\* Counting a packet keeps the counters numbers and leaves the windows alone.
LEMMA CountedType ==
  ASSUME agg \in Aggregates, NEW k \in Kinds
  PROVE  /\ Counted(k) \in Aggregates
         /\ Counted(k).trafficSecs = agg.trafficSecs
         /\ Counted(k).bandwidthSecs = agg.bandwidthSecs
<1>1. /\ k.src \in IPs /\ k.dst \in IPs /\ k.proto \in Protos
      /\ k.size \in Nat /\ k.flagged \in BOOLEAN
  BY KindsAssumption
<1>2. /\ agg.totalPkts \in Nat /\ agg.totalBytes \in Nat /\ agg.flagged \in Nat
      /\ agg.curSecPkts \in Nat /\ agg.curSecBytes \in Nat
      /\ agg.trafficSecs \in Seq(Nat) /\ agg.bandwidthSecs \in Seq(Nat)
      /\ agg.protoCounts \in [Protos -> Nat] /\ agg.ipCounts \in [IPs -> Nat]
      /\ agg.connections \in [IPs \X IPs -> Nat]
  BY DEF Aggregates
<1> DEFINE protos == [agg.protoCounts EXCEPT ![k.proto] = @ + 1]
           ips    == [agg.ipCounts EXCEPT ![k.src] = @ + 1]
           conns  == [agg.connections EXCEPT ![<<k.src, k.dst>>] = @ + 1]
           flags  == IF k.flagged THEN agg.flagged + 1 ELSE agg.flagged
<1>3. protos \in [Protos -> Nat] /\ ips \in [IPs -> Nat]
  BY <1>1, <1>2, SMTT(30)
<1>4. conns \in [IPs \X IPs -> Nat]
  <2>1. <<k.src, k.dst>> \in IPs \X IPs
    BY <1>1
  <2> QED
    BY <2>1, <1>2
<1>5. flags \in Nat
  BY <1>2
<1>6. Counted(k) =
        [totalPkts |-> agg.totalPkts + 1, totalBytes |-> agg.totalBytes + k.size,
         flagged |-> flags, protoCounts |-> protos, ipCounts |-> ips, connections |-> conns,
         trafficSecs |-> agg.trafficSecs, bandwidthSecs |-> agg.bandwidthSecs,
         curSecPkts |-> agg.curSecPkts + 1, curSecBytes |-> agg.curSecBytes + k.size]
  BY DEF Counted
<1>7. /\ agg.totalPkts + 1 \in Nat /\ agg.totalBytes + k.size \in Nat
      /\ agg.curSecPkts + 1 \in Nat /\ agg.curSecBytes + k.size \in Nat
  BY <1>1, <1>2, NatSums, Zenon
<1> HIDE DEF protos, ips, conns, flags
<1>8. [totalPkts |-> agg.totalPkts + 1, totalBytes |-> agg.totalBytes + k.size,
       flagged |-> flags, protoCounts |-> protos, ipCounts |-> ips, connections |-> conns,
       trafficSecs |-> agg.trafficSecs, bandwidthSecs |-> agg.bandwidthSecs,
       curSecPkts |-> agg.curSecPkts + 1, curSecBytes |-> agg.curSecBytes + k.size]
        \in Aggregates
  BY <1>2, <1>3, <1>4, <1>5, <1>7, RecordOfCounters, Zenon
<1>9. Counted(k) \in Aggregates
  BY <1>6, <1>8, Zenon
<1> QED
  BY <1>6, <1>9

\* Moving a window by one bucket keeps its length and shifts the older buckets.
LEMMA Shifted ==
  ASSUME NEW S, NEW s \in Seq(S), s # <<>>, NEW e \in S
  PROVE  /\ Append(Tail(s), e) \in Seq(S)
         /\ Len(Append(Tail(s), e)) = Len(s)
         /\ \A i \in 1..Len(s) - 1 : Append(Tail(s), e)[i] = s[i + 1]
         /\ Append(Tail(s), e)[Len(s)] = e
  BY HeadTailProperties, LenProperties

\* The start of the process is well typed.
LEMMA TypeInit == Init => TypeOK
<1> USE SizesAssumption
<1> SUFFICES ASSUME Init PROVE TypeOK
  OBVIOUS
<1>1. Zeros(Window) \in Seq(Nat) /\ Len(Zeros(Window)) = Window
  BY DEF Zeros
<1>2. agg \in Aggregates /\ Len(agg.trafficSecs) = Window /\ Len(agg.bandwidthSecs) = Window
  BY <1>1 DEF Init, Aggregates
<1>3. marks \in Seq([pkts : Nat, bytes : Nat]) /\ Len(marks) = Window + 1
  BY DEF Init
<1>4. <<>> \in Seq(Chans) /\ <<>> \in Seq(Nat) /\ Len(<<>>) = 0 /\ <<>> \in Seq(Kinds)
  BY EmptySeq
<1>5. buf \in [Chans -> Seq(Nat)] /\ \A c \in Chans : Len(buf[c]) <= ChanCap
  BY <1>4 DEF Init
<1>6. /\ joined \in [Chans -> Nat] /\ received \in [Chans -> Seq(Nat)]
      /\ missed \in [Chans -> SUBSET Nat]
  BY <1>4 DEF Init
<1> QED
  BY <1>2, <1>3, <1>4, <1>5, <1>6 DEF Init, TypeOK

\* Every step keeps the types.
LEMMA TypeStep == TypeOK /\ [Next]_vars => TypeOK'
<1> USE KindsAssumption, SizesAssumption
<1> SUFFICES ASSUME TypeOK, [Next]_vars PROVE TypeOK'
  OBVIOUS
<1> USE DEF TypeOK
<1>1. ASSUME NEW k \in Kinds, Add(k) PROVE TypeOK'
  <2>1. agg' \in Aggregates
    BY <1>1, CountedType DEF Add
  <2>2. Len(agg'.trafficSecs) = Window /\ Len(agg'.bandwidthSecs) = Window
    BY <1>1, CountedType DEF Add
  <2> QED
    BY <1>1, <2>1, <2>2 DEF Add, histVars
<1>2. CASE Deliver
  <2> DEFINE c == Head(subs)
  <2>1. c \in Chans /\ subs' \in Seq(Chans)
    BY <1>2, HeadTailProperties DEF Deliver
  <2>2. Append(buf[c], Len(captured)) \in Seq(Nat) /\ Len(Append(buf[c], Len(captured))) <= ChanCap
    <3>1. Len(captured) \in Nat /\ buf[c] \in Seq(Nat)
      BY <2>1, LenProperties
    <3>2. Len(buf[c]) \in Nat /\ Len(buf[c]) < ChanCap
      BY <1>2, <3>1, LenProperties DEF Deliver
    <3> HIDE DEF TypeOK, c
    <3>3. /\ Append(buf[c], Len(captured)) \in Seq(Nat)
          /\ Len(Append(buf[c], Len(captured))) = Len(buf[c]) + 1
      BY <3>1, AppendProperties
    <3> QED
      BY <3>2, <3>3
  <2>3. /\ buf' \in [Chans -> Seq(Nat)]
        /\ \A d \in Chans : Len(buf'[d]) <= ChanCap
    BY <1>2, <2>1, <2>2 DEF Deliver
  <2>4. UNCHANGED <<agg, captured, marks, subscribers, status, panicked,
                    joined, received, missed>>
    BY <1>2 DEF Deliver, aggVars, histVars
  <2> QED
    BY <2>1, <2>3, <2>4
<1>3. CASE Drop
  <2> DEFINE c == Head(subs)
  <2>1. c \in Chans /\ subs' \in Seq(Chans)
    BY <1>3, HeadTailProperties DEF Drop
  <2>2. missed[c] \cup {Len(captured)} \in SUBSET Nat
    BY <2>1, LenProperties
  <2>3. missed' \in [Chans -> SUBSET Nat]
    BY <1>3, <2>1, <2>2 DEF Drop
  <2>4. UNCHANGED <<agg, captured, marks, subscribers, status, buf, panicked,
                    joined, received>>
    BY <1>3 DEF Drop, aggVars, histVars
  <2> QED
    BY <2>1, <2>3, <2>4
<1>4. CASE SendOnClosed
  BY <1>4 DEF SendOnClosed, aggVars, histVars
<1>5. CASE TickSecond
  <2>0. /\ agg.trafficSecs \in Seq(Nat) /\ agg.trafficSecs # <<>>
        /\ agg.bandwidthSecs \in Seq(Nat) /\ agg.bandwidthSecs # <<>>
        /\ marks # <<>>
        /\ agg.curSecPkts \in Nat /\ agg.curSecBytes \in Nat
        /\ agg.totalPkts \in Nat /\ agg.totalBytes \in Nat
    BY DEF Aggregates
  <2> DEFINE traffic   == Append(Tail(agg.trafficSecs), agg.curSecPkts)
             bandwidth == Append(Tail(agg.bandwidthSecs), agg.curSecBytes)
  <2>1. /\ traffic \in Seq(Nat) /\ Len(traffic) = Window
        /\ bandwidth \in Seq(Nat) /\ Len(bandwidth) = Window
    BY <2>0, Shifted, SMTT(30)
  <2>2. agg' = [agg EXCEPT !.trafficSecs = traffic, !.bandwidthSecs = bandwidth,
                           !.curSecPkts = 0, !.curSecBytes = 0]
    BY <1>5 DEF TickSecond
  <2> HIDE DEF traffic, bandwidth
  <2>3. agg' \in Aggregates
    BY <2>1, <2>2 DEF Aggregates
  <2>4. Len(agg'.trafficSecs) = Window /\ Len(agg'.bandwidthSecs) = Window
    BY <2>1, <2>2 DEF Aggregates
  <2>5. marks' \in Seq([pkts : Nat, bytes : Nat]) /\ Len(marks') = Window + 1
    <3>1. [pkts |-> agg.totalPkts, bytes |-> agg.totalBytes] \in [pkts : Nat, bytes : Nat]
      BY <2>0
    <3> QED
      BY <3>1, <2>0, <1>5, Shifted DEF TickSecond
  <2> QED
    BY <1>5, <2>3, <2>4, <2>5 DEF TickSecond, feedVars, histVars
<1>6. ASSUME NEW c \in Chans, Subscribe(c) PROVE TypeOK'
  BY <1>6, SMTT(30) DEF Subscribe, aggVars, histVars
<1>7. ASSUME NEW c \in Chans, Unsubscribe(c) PROVE TypeOK'
  <2>1. PICK i \in DOMAIN subscribers : subscribers' = RemoveAt(subscribers, i)
    BY <1>7 DEF Unsubscribe
  <2>2. subscribers' \in Seq(Chans)
    BY <2>1, RemoveAtProperties
  <2> QED
    BY <1>7, <2>2 DEF Unsubscribe, aggVars, histVars
<1>8. ASSUME NEW c \in Chans, Receive(c) PROVE TypeOK'
  <2>1. buf[c] \in Seq(Nat) /\ buf[c] # <<>>
    BY <1>8 DEF Receive
  <2>2. Head(buf[c]) \in Nat /\ Tail(buf[c]) \in Seq(Nat) /\ Len(Tail(buf[c])) <= ChanCap
    BY <2>1, HeadTailProperties, LenProperties, SMTT(30)
  <2>3. Append(received[c], Head(buf[c])) \in Seq(Nat)
    BY <2>2
  <2> QED
    BY <1>8, <2>2, <2>3 DEF Receive, aggVars, histVars
<1>9. CASE UNCHANGED vars
  BY <1>9 DEF vars, aggVars, feedVars, histVars
<1> QED
  BY <1>1, <1>2, <1>3, <1>4, <1>5, <1>6, <1>7, <1>8, <1>9 DEF Next, Send

\* Type correctness, with the length of the windows and of the buffers.
THEOREM TypeCorrect == Spec => []TypeOK
BY TypeInit, TypeStep, PTL DEF Spec

-----------------------------------------------------------------------------
\* A packet is counted in exactly one bucket of each rolling window.
THEOREM WindowsExact == Spec => []RollingWindow
<1> USE SizesAssumption
<1>1. Init => RollingWindow
  BY DEF Init, RollingWindow, Zeros
<1>2. TypeOK /\ RollingWindow /\ [Next]_vars => RollingWindow'
  <2> SUFFICES ASSUME TypeOK, RollingWindow, [Next]_vars PROVE RollingWindow'
    OBVIOUS
  <2>0. /\ agg.trafficSecs \in Seq(Nat) /\ Len(agg.trafficSecs) = Window
        /\ agg.bandwidthSecs \in Seq(Nat) /\ Len(agg.bandwidthSecs) = Window
        /\ marks \in Seq([pkts : Nat, bytes : Nat]) /\ Len(marks) = Window + 1
        /\ agg.curSecPkts \in Nat /\ agg.curSecBytes \in Nat
        /\ agg.totalPkts \in Nat /\ agg.totalBytes \in Nat
    BY DEF TypeOK, Aggregates
  <2>1. ASSUME NEW k \in Kinds, Add(k) PROVE RollingWindow'
    <3>1. /\ agg'.trafficSecs = agg.trafficSecs /\ agg'.bandwidthSecs = agg.bandwidthSecs
          /\ agg'.totalPkts = agg.totalPkts + 1 /\ agg'.curSecPkts = agg.curSecPkts + 1
          /\ agg'.totalBytes = agg.totalBytes + k.size
          /\ agg'.curSecBytes = agg.curSecBytes + k.size
          /\ marks' = marks
      BY <2>1 DEF Add, Counted
    <3>2. k.size \in Nat /\ marks[Window + 1].pkts \in Nat /\ marks[Window + 1].bytes \in Nat
      <4>1. marks[Window + 1] \in [pkts : Nat, bytes : Nat]
        <5> DEFINE M == [pkts : Nat, bytes : Nat]
        <5>1. marks \in Seq(M) /\ Window + 1 \in 1..Len(marks)
          BY <2>0
        <5> HIDE DEF M
        <5>2. marks[Window + 1] \in M
          BY <5>1, ElementOfSeq
        <5> QED
          BY <5>2 DEF M
      <4>2. k.size \in Nat
        BY KindsAssumption
      <4> QED
        BY <4>1, <4>2
    <3>3. /\ \A i \in 1..Window :
               /\ agg'.trafficSecs[i]   = marks'[i + 1].pkts  - marks'[i].pkts
               /\ agg'.bandwidthSecs[i] = marks'[i + 1].bytes - marks'[i].bytes
      BY <3>1 DEF RollingWindow
    <3>4. agg'.curSecPkts  = agg'.totalPkts  - marks'[Window + 1].pkts
      BY <2>0, <3>1, <3>2, SMTT(30) DEF RollingWindow
    <3>5. agg'.curSecBytes = agg'.totalBytes - marks'[Window + 1].bytes
      <4>1. agg.curSecBytes = agg.totalBytes - marks[Window + 1].bytes
        BY DEF RollingWindow
      <4>2. \A b, c, m, z \in Nat : c = b - m => c + z = (b + z) - m
        OBVIOUS
      <4>3. agg.curSecBytes + k.size = (agg.totalBytes + k.size) - marks[Window + 1].bytes
        BY <4>1, <4>2, <3>2, <2>0, SMTT(30)
      <4> QED
        BY <4>3, <3>1
    <3> QED
      BY <3>3, <3>4, <3>5 DEF RollingWindow
  <2>2. CASE TickSecond
    <3> DEFINE mark == [pkts |-> agg.totalPkts, bytes |-> agg.totalBytes]
    <3>1. agg.trafficSecs # <<>> /\ agg.bandwidthSecs # <<>> /\ marks # <<>>
      BY <2>0
    <3>2. /\ agg'.trafficSecs = Append(Tail(agg.trafficSecs), agg.curSecPkts)
          /\ agg'.bandwidthSecs = Append(Tail(agg.bandwidthSecs), agg.curSecBytes)
          /\ agg'.curSecPkts = 0 /\ agg'.curSecBytes = 0
          /\ agg'.totalPkts = agg.totalPkts /\ agg'.totalBytes = agg.totalBytes
          /\ marks' = Append(Tail(marks), mark)
      BY <2>2 DEF TickSecond, TypeOK, Aggregates
    <3>3. mark \in [pkts : Nat, bytes : Nat]
      BY <2>0
    <3>4. /\ \A i \in 1..Window - 1 : agg'.trafficSecs[i] = agg.trafficSecs[i + 1]
          /\ agg'.trafficSecs[Window] = agg.curSecPkts
      BY <2>0, <3>1, <3>2, Shifted, SMTT(30)
    <3>5. /\ \A i \in 1..Window - 1 : agg'.bandwidthSecs[i] = agg.bandwidthSecs[i + 1]
          /\ agg'.bandwidthSecs[Window] = agg.curSecBytes
      BY <2>0, <3>1, <3>2, Shifted, SMTT(30)
    <3>6. /\ \A i \in 1..Window : marks'[i] = marks[i + 1]
          /\ marks'[Window + 1] = mark
      BY <2>0, <3>1, <3>2, <3>3, Shifted, SMTT(30)
    <3>7. ASSUME NEW i \in 1..Window
          PROVE  /\ agg'.trafficSecs[i]   = marks'[i + 1].pkts  - marks'[i].pkts
                 /\ agg'.bandwidthSecs[i] = marks'[i + 1].bytes - marks'[i].bytes
      <4>1. CASE i = Window
        BY <4>1, <3>4, <3>5, <3>6 DEF RollingWindow
      <4>2. CASE i # Window
        <5>1. i \in 1..Window - 1 /\ i + 1 \in 1..Window
          BY <4>2
        <5> QED
          BY <5>1, <3>4, <3>5, <3>6 DEF RollingWindow
      <4> QED
        BY <4>1, <4>2
    <3>8. /\ agg'.curSecPkts  = agg'.totalPkts  - marks'[Window + 1].pkts
          /\ agg'.curSecBytes = agg'.totalBytes - marks'[Window + 1].bytes
      BY <2>0, <3>2, <3>6, SMTT(30)
    <3> QED
      BY <3>7, <3>8 DEF RollingWindow
  <2>3. CASE UNCHANGED aggVars
    BY <2>3 DEF RollingWindow, aggVars
  <2> QED
    BY <2>1, <2>2, <2>3 DEF Next, Send, Deliver, Drop, SendOnClosed, Subscribe,
                            Unsubscribe, Receive, vars
<1> QED
  BY <1>1, <1>2, TypeCorrect, PTL DEF Spec

-----------------------------------------------------------------------------
\* The subscriber list never holds a channel twice or a closed channel.
THEOREM ListIsOpen == Spec => []SubscribersOpen
<1>1. Init => SubscribersOpen
  BY DEF Init, SubscribersOpen, ToSet
<1>2. TypeOK /\ SubscribersOpen /\ [Next]_vars => SubscribersOpen'
  <2> SUFFICES ASSUME TypeOK, SubscribersOpen, [Next]_vars PROVE SubscribersOpen'
    OBVIOUS
  <2>0. subscribers \in Seq(Chans) /\ status \in [Chans -> {"unmade", "open", "closed"}]
    BY DEF TypeOK
  <2>1. ASSUME NEW c \in Chans, Subscribe(c) PROVE SubscribersOpen'
    <3>1. subscribers' = Append(subscribers, c) /\ status' = [status EXCEPT ![c] = "open"]
      BY <2>1 DEF Subscribe
    <3>2. c \notin ToSet(subscribers)
      BY <2>1 DEF Subscribe, SubscribersOpen
    <3>3. ToSet(subscribers') = ToSet(subscribers) \cup {c}
      BY <3>1, <2>0 DEF ToSet
    <3>4. \A i, j \in DOMAIN subscribers' : subscribers'[i] = subscribers'[j] => i = j
      BY <3>1, <3>2, <2>0 DEF SubscribersOpen, ToSet
    <3> QED
      BY <3>1, <3>3, <3>4, <2>0 DEF SubscribersOpen
  <2>2. ASSUME NEW c \in Chans, Unsubscribe(c) PROVE SubscribersOpen'
    <3>1. PICK i \in DOMAIN subscribers :
            subscribers[i] = c /\ subscribers' = RemoveAt(subscribers, i)
      BY <2>2 DEF Unsubscribe
    <3>2. status' = [status EXCEPT ![c] = "closed"]
      BY <2>2 DEF Unsubscribe
    <3>3. /\ subscribers' \in Seq(Chans) /\ Len(subscribers') = Len(subscribers) - 1
          /\ \A j \in 1..Len(subscribers) - 1 :
               subscribers'[j] = IF j < i THEN subscribers[j] ELSE subscribers[j + 1]
      BY <3>1, <2>0, RemoveAtProperties
    <3>4. DOMAIN subscribers' = 1..Len(subscribers) - 1 /\ DOMAIN subscribers = 1..Len(subscribers)
      BY <3>3, <2>0
    <3>5. \A j, k \in DOMAIN subscribers' : subscribers'[j] = subscribers'[k] => j = k
      <4> SUFFICES ASSUME NEW j \in DOMAIN subscribers', NEW k \in DOMAIN subscribers',
                          subscribers'[j] = subscribers'[k]
                   PROVE  j = k
        OBVIOUS
      <4> DEFINE old(n) == IF n < i THEN n ELSE n + 1
      <4>1. /\ old(j) \in DOMAIN subscribers /\ subscribers[old(j)] = subscribers'[j]
            /\ old(k) \in DOMAIN subscribers /\ subscribers[old(k)] = subscribers'[k]
        BY <3>1, <3>3, <3>4
      <4>2. old(j) = old(k)
        BY <4>1 DEF SubscribersOpen
      <4> QED
        BY <4>2, <3>1, <3>4, <2>0
    <3>6. ASSUME NEW d \in Chans
          PROVE  d \in ToSet(subscribers') <=> d \in ToSet(subscribers) /\ d # c
      <4>1. ASSUME d \in ToSet(subscribers') PROVE d \in ToSet(subscribers) /\ d # c
        <5>1. PICK j \in DOMAIN subscribers' : subscribers'[j] = d
          BY <4>1 DEF ToSet
        <5> DEFINE k == IF j < i THEN j ELSE j + 1
        <5>2. k \in DOMAIN subscribers /\ subscribers[k] = d /\ k # i
          BY <5>1, <3>1, <3>3, <3>4, <2>0
        <5> QED
          BY <5>2, <3>1 DEF ToSet, SubscribersOpen
      <4>2. ASSUME d \in ToSet(subscribers), d # c PROVE d \in ToSet(subscribers')
        <5>1. PICK k \in DOMAIN subscribers : subscribers[k] = d
          BY <4>2 DEF ToSet
        <5> DEFINE j == IF k < i THEN k ELSE k - 1
        <5>2. j \in DOMAIN subscribers' /\ subscribers'[j] = d
          BY <5>1, <4>2, <3>1, <3>3, <3>4, <2>0
        <5> QED
          BY <5>2 DEF ToSet
      <4> QED
        BY <4>1, <4>2
    <3> QED
      BY <3>2, <3>5, <3>6, <2>0 DEF SubscribersOpen
  <2>3. CASE UNCHANGED <<subscribers, status>>
    BY <2>3 DEF SubscribersOpen
  <2> QED
    BY <2>1, <2>2, <2>3 DEF Next, Send, Add, Deliver, Drop, SendOnClosed, TickSecond,
                            Receive, vars, feedVars
<1> QED
  BY <1>1, <1>2, TypeCorrect, PTL DEF Spec
-----------------------------------------------------------------------------
\* A packet put in the buffer comes last in what has reached the owner.
LEMMA ReachedByBuffering ==
  ASSUME NEW r \in Seq(Nat), NEW b \in Seq(Nat), NEW x \in Nat
  PROVE  r \o Append(b, x) = Append(r \o b, x)
<1>1. r \o Append(b, x) \in Seq(Nat) /\ Append(r \o b, x) \in Seq(Nat)
  OBVIOUS
<1>2. Len(r \o Append(b, x)) = Len(Append(r \o b, x))
  OBVIOUS
<1>3. \A i \in 1..Len(r \o Append(b, x)) : (r \o Append(b, x))[i] = Append(r \o b, x)[i]
  OBVIOUS
<1> QED
  BY <1>1, <1>2, <1>3, SeqEqual

\* The owner taking the head of the buffer changes nothing in what reached it.
LEMMA ReachedByTaking ==
  ASSUME NEW r \in Seq(Nat), NEW b \in Seq(Nat), b # <<>>
  PROVE  Append(r, Head(b)) \o Tail(b) = r \o b
<1>1. /\ Head(b) \in Nat /\ Tail(b) \in Seq(Nat) /\ Len(Tail(b)) = Len(b) - 1
      /\ \A i \in 1..Len(Tail(b)) : Tail(b)[i] = b[i + 1]
      /\ Head(b) = b[1]
  BY HeadTailProperties
<1>2. /\ Append(r, Head(b)) \in Seq(Nat) /\ Len(Append(r, Head(b))) = Len(r) + 1
      /\ \A i \in 1..Len(r) : Append(r, Head(b))[i] = r[i]
      /\ Append(r, Head(b))[Len(r) + 1] = b[1]
  BY <1>1
<1> DEFINE s == Append(r, Head(b))
           t == Tail(b)
<1> HIDE DEF s, t
<1>3. /\ s \o t \in Seq(Nat) /\ Len(s \o t) = Len(s) + Len(t)
      /\ \A i \in 1..Len(s) + Len(t) : (s \o t)[i] = IF i <= Len(s) THEN s[i] ELSE t[i - Len(s)]
  BY <1>1, <1>2, ConcatProperties DEF s, t
<1>4. /\ r \o b \in Seq(Nat) /\ Len(r \o b) = Len(r) + Len(b)
      /\ \A i \in 1..Len(r) + Len(b) : (r \o b)[i] = IF i <= Len(r) THEN r[i] ELSE b[i - Len(r)]
  BY ConcatProperties
<1>5. Len(s) = Len(r) + 1 /\ Len(t) = Len(b) - 1 /\ Len(r) \in Nat /\ Len(b) \in Nat
  BY <1>1, <1>2, LenProperties DEF s, t
<1>6. ASSUME NEW i \in 1..Len(s \o t) PROVE (s \o t)[i] = (r \o b)[i]
  <2>0. i \in 1..Len(r) + Len(b)
    BY <1>3, <1>5
  <2>1. CASE i <= Len(r)
    <3>1. (s \o t)[i] = s[i] /\ (r \o b)[i] = r[i]
      BY <2>0, <2>1, <1>3, <1>4, <1>5
    <3>2. s[i] = r[i]
      BY <2>0, <2>1, <1>2, <1>5 DEF s
    <3> QED
      BY <3>1, <3>2
  <2>2. CASE i = Len(r) + 1
    <3>1. (s \o t)[i] = s[i] /\ (r \o b)[i] = b[1]
      BY <2>0, <2>2, <1>3, <1>4, <1>5
    <3>2. s[i] = b[1]
      BY <2>2, <1>2 DEF s
    <3> QED
      BY <3>1, <3>2
  <2>3. CASE i > Len(r) + 1
    <3>0. i \in 1..Len(s) + Len(t) /\ ~(i <= Len(s)) /\ ~(i <= Len(r))
      BY <2>0, <2>3, <1>5
    <3>1. (s \o t)[i] = t[i - Len(s)] /\ (r \o b)[i] = b[i - Len(r)]
      <4>1. (s \o t)[i] = t[i - Len(s)]
        BY <3>0, <1>3
      <4>2. (r \o b)[i] = b[i - Len(r)]
        BY <3>0, <2>0, <1>4
      <4> QED
        BY <4>1, <4>2
    <3>2. i - Len(s) \in 1..Len(t) /\ (i - Len(s)) + 1 = i - Len(r)
      BY <2>0, <2>3, <1>5
    <3>3. t[i - Len(s)] = b[(i - Len(s)) + 1]
      BY <3>2, <1>1 DEF t
    <3> QED
      BY <3>1, <3>2, <3>3
  <2> QED
    BY <2>0, <2>1, <2>2, <2>3, <1>5
<1>7. s \o t = r \o b
  <2>1. Len(s \o t) = Len(r \o b)
    BY <1>3, <1>4, <1>5
  <2> DEFINE st == s \o t
             rb == r \o b
  <2>2. st \in Seq(Nat) /\ rb \in Seq(Nat) /\ Len(st) = Len(rb) /\ \A i \in 1..Len(st) : st[i] = rb[i]
    BY <1>3, <1>4, <1>6, <2>1
  <2> HIDE DEF st, rb
  <2>3. st = rb
    BY <2>2, SeqEqual
  <2> QED
    BY <2>3 DEF st, rb
<1> QED
  BY <1>7 DEF s, t
-----------------------------------------------------------------------------
\* What makes ordered delivery inductive: the copied list holds each channel
\* once, only channels made before the packet in flight was captured, and a
\* channel that does not exist yet holds nothing.
CopyFresh ==
  /\ \A i, j \in DOMAIN subs : subs[i] = subs[j] => i = j
  /\ \A c \in ToSet(subs) : status[c] # "unmade" /\ joined[c] < Len(captured)

NothingBefore ==
  \A c \in Chans : /\ joined[c] <= Len(captured)
                   /\ status[c] = "unmade" => received[c] = <<>> /\ buf[c] = <<>>

DeliveryInv == OrderedDelivery /\ CopyFresh /\ NothingBefore

\* The head of the copied list leaves it for good.
LEMMA HeadLeaves ==
  ASSUME TypeOK, CopyFresh, subs # <<>>
  PROVE  /\ Head(subs) \in Chans /\ Head(subs) \in ToSet(subs)
         /\ ToSet(Tail(subs)) = ToSet(subs) \ {Head(subs)}
         /\ \A i, j \in DOMAIN Tail(subs) : Tail(subs)[i] = Tail(subs)[j] => i = j
<1>1. /\ subs \in Seq(Chans) /\ Head(subs) = subs[1] /\ Tail(subs) \in Seq(Chans)
      /\ Len(Tail(subs)) = Len(subs) - 1 /\ DOMAIN subs = 1..Len(subs)
      /\ DOMAIN Tail(subs) = 1..Len(subs) - 1 /\ Len(subs) \in Nat \ {0}
      /\ \A i \in 1..Len(subs) - 1 : Tail(subs)[i] = subs[i + 1]
  BY HeadTailProperties, LenProperties, EmptySeq DEF TypeOK
<1>2. Head(subs) \in Chans /\ Head(subs) \in ToSet(subs)
  BY <1>1, ElementOfSeq DEF ToSet
<1>3. \A i, j \in DOMAIN Tail(subs) : Tail(subs)[i] = Tail(subs)[j] => i = j
  BY <1>1 DEF CopyFresh
<1>4. ASSUME NEW c \in ToSet(Tail(subs)) PROVE c \in ToSet(subs) /\ c # Head(subs)
  <2>1. PICK i \in 1..Len(subs) - 1 : c = subs[i + 1]
    BY <1>1, <1>4 DEF ToSet
  <2>2. i + 1 \in DOMAIN subs /\ 1 \in DOMAIN subs /\ i + 1 # 1
    BY <1>1
  <2> QED
    BY <2>1, <2>2, <1>1 DEF ToSet, CopyFresh
<1>5. ASSUME NEW c \in ToSet(subs), c # Head(subs) PROVE c \in ToSet(Tail(subs))
  <2>1. PICK i \in DOMAIN subs : c = subs[i]
    BY <1>5 DEF ToSet
  <2>2. i - 1 \in DOMAIN Tail(subs) /\ Tail(subs)[i - 1] = c
    BY <2>1, <1>1, <1>5
  <2> QED
    BY <2>2 DEF ToSet
<1> QED
  BY <1>2, <1>3, <1>4, <1>5

\* A step that hands nothing to channel c keeps its order.
LEMMA OrderKept ==
  ASSUME NEW c \in Chans, InOrder(c), Reached(c)' = Reached(c), joined'[c] = joined[c],
         Len(captured) = Len(captured'), c \in ToSet(subs') => c \in ToSet(subs)
  PROVE  InOrder(c)'
BY DEF InOrder

\* No channel exists at the start.
LEMMA DeliveryInit == Init => DeliveryInv
<1> SUFFICES ASSUME Init PROVE DeliveryInv
  OBVIOUS
<1>1. \A c \in Chans : Reached(c) = <<>>
  BY DEF Init, Reached
<1>2. \A c \in Chans : InOrder(c)
  BY <1>1 DEF InOrder
<1>3. CopyFresh
  BY DEF Init, CopyFresh, ToSet
<1>4. NothingBefore
  BY DEF Init, NothingBefore
<1> QED
  BY <1>2, <1>3, <1>4 DEF DeliveryInv, OrderedDelivery

\* Every step of the store keeps the strengthened invariant.
LEMMA DeliveryStep ==
  TypeOK /\ SubscribersOpen /\ DeliveryInv /\ [Next]_vars => DeliveryInv'
<1> SUFFICES ASSUME TypeOK, SubscribersOpen, DeliveryInv, [Next]_vars PROVE DeliveryInv'
  OBVIOUS
<1>0. /\ captured \in Seq(Kinds) /\ Len(captured) \in Nat
      /\ subs \in Seq(Chans) /\ subscribers \in Seq(Chans)
      /\ buf \in [Chans -> Seq(Nat)] /\ received \in [Chans -> Seq(Nat)]
      /\ joined \in [Chans -> Nat] /\ status \in [Chans -> {"unmade", "open", "closed"}]
      /\ \A c \in Chans : Reached(c) \in Seq(Nat)
  BY LenProperties, ConcatProperties DEF TypeOK, Reached
<1>1. ASSUME NEW k \in Kinds, Add(k) PROVE DeliveryInv'
  <2>1. /\ captured' = Append(captured, k) /\ subs = <<>> /\ subs' = subscribers
        /\ UNCHANGED <<status, buf, joined, received>>
    BY <1>1 DEF Add, histVars
  <2>2. Len(captured') = Len(captured) + 1
    BY <2>1, <1>0
  <2>3. \A c \in Chans : Reached(c)' = Reached(c)
    BY <2>1 DEF Reached
  <2>4. \A c \in Chans : InOrder(c)'
    <3> SUFFICES ASSUME NEW c \in Chans PROVE InOrder(c)'
      OBVIOUS
    <3>1. InOrder(c) /\ Reached(c)' = Reached(c) /\ joined'[c] = joined[c]
      BY <2>1, <2>3 DEF DeliveryInv, OrderedDelivery
    <3>2. \A i \in DOMAIN Reached(c) : Reached(c)[i] \in Nat
      BY <1>0, ElementOfSeq, LenProperties
    <3> QED
      BY <3>1, <3>2, <2>2, <1>0 DEF InOrder
  <2>5. CopyFresh'
    <3>1. \A i, j \in DOMAIN subs' : subs'[i] = subs'[j] => i = j
      BY <2>1 DEF SubscribersOpen
    <3>2. ASSUME NEW c \in ToSet(subs')
          PROVE  status'[c] # "unmade" /\ joined'[c] < Len(captured')
      <4>1. c \in Chans /\ status[c] = "open"
        BY <3>2, <2>1, <1>0, ElementOfSeq, LenProperties DEF ToSet, SubscribersOpen
      <4> QED
        BY <4>1, <2>1, <2>2, <1>0 DEF DeliveryInv, NothingBefore
    <3> QED
      BY <3>1, <3>2 DEF CopyFresh
  <2>6. NothingBefore'
    BY <2>1, <2>2, <1>0 DEF DeliveryInv, NothingBefore
  <2> QED
    BY <2>4, <2>5, <2>6 DEF DeliveryInv, OrderedDelivery
<1>2. CASE Deliver
  <2>0. subs # <<>> /\ Head(subs) \in Chans
    BY <1>2, HeadLeaves DEF Deliver, DeliveryInv
  <2>c. PICK c \in Chans : c = Head(subs)
    BY <2>0
  <2>n. PICK n \in Nat : n = Len(captured)
    BY <1>0
  <2>1. /\ subs # <<>> /\ subs' = Tail(subs) /\ buf' = [buf EXCEPT ![c] = Append(@, n)]
        /\ status[c] = "open"
        /\ UNCHANGED <<captured, status, joined, received>>
    BY <1>2, <2>c, <2>n DEF Deliver, aggVars, histVars
  <2>2. /\ c \in Chans /\ c \in ToSet(subs) /\ ToSet(subs') = ToSet(subs) \ {c}
        /\ \A i, j \in DOMAIN subs' : subs'[i] = subs'[j] => i = j
    BY <2>1, <2>c, HeadLeaves DEF DeliveryInv
  <2>3. Reached(c)' = Append(Reached(c), n)
    <3>1. Reached(c)' = received[c] \o Append(buf[c], n)
      BY <2>1, <2>2, <1>0 DEF Reached
    <3> QED
      BY <3>1, <2>2, <1>0, ReachedByBuffering, SMTT(30) DEF Reached
  <2>4. InOrder(c)'
    <3>1. InOrder(c) /\ joined[c] < n /\ n \in Nat /\ n = Len(captured')
      BY <2>1, <2>2, <2>n, <1>0 DEF DeliveryInv, OrderedDelivery, CopyFresh
    <3>2. /\ Reached(c) \in Seq(Nat) /\ DOMAIN Reached(c) = 1..Len(Reached(c))
          /\ Len(Reached(c)) \in Nat
          /\ DOMAIN Reached(c)' = 1..Len(Reached(c)) + 1
          /\ \A i \in 1..Len(Reached(c)) : Reached(c)'[i] = Reached(c)[i]
          /\ Reached(c)'[Len(Reached(c)) + 1] = n
      BY <2>2, <2>3, <3>1, <1>0, LenProperties
    <3>3. \A i \in 1..Len(Reached(c)) : /\ joined[c] < Reached(c)[i]
                                        /\ Reached(c)[i] < n /\ Reached(c)[i] \in Nat
      BY <3>1, <3>2, <2>2, <2>n, ElementOfSeq DEF InOrder
    <3>4. \A i, j \in DOMAIN Reached(c)' : i < j => Reached(c)'[i] < Reached(c)'[j]
      <4> SUFFICES ASSUME NEW i \in 1..Len(Reached(c)) + 1, NEW j \in 1..Len(Reached(c)) + 1, i < j
                   PROVE  Reached(c)'[i] < Reached(c)'[j]
        BY <3>2
      <4>1. i \in 1..Len(Reached(c))
        BY <3>2
      <4>2. CASE j = Len(Reached(c)) + 1
        BY <4>1, <4>2, <3>2, <3>3
      <4>3. CASE j # Len(Reached(c)) + 1
        <5>1. j \in 1..Len(Reached(c))
          BY <4>3, <3>2
        <5> QED
          BY <4>1, <5>1, <3>1, <3>2 DEF InOrder
      <4> QED
        BY <4>2, <4>3
    <3>5. c \notin ToSet(subs')
      BY <2>2
    <3>6. \A i \in DOMAIN Reached(c)' :
             joined'[c] < Reached(c)'[i] /\ Reached(c)'[i] <= Len(captured')
      <4> SUFFICES ASSUME NEW i \in 1..Len(Reached(c)) + 1
                   PROVE  joined'[c] < Reached(c)'[i] /\ Reached(c)'[i] <= Len(captured')
        BY <3>2
      <4>1. CASE i = Len(Reached(c)) + 1
        BY <4>1, <3>1, <3>2, <2>1
      <4>2. CASE i # Len(Reached(c)) + 1
        <5>1. i \in 1..Len(Reached(c))
          BY <4>2, <3>2
        <5> QED
          BY <5>1, <3>1, <3>2, <3>3, <2>1
      <4> QED
        BY <4>1, <4>2
    <3> QED
      BY <3>4, <3>5, <3>6 DEF InOrder
  <2>5. ASSUME NEW d \in Chans, d # c PROVE InOrder(d)'
    <3>1. Reached(d)' = Reached(d)
      BY <2>1, <2>2, <2>5, <1>0 DEF Reached
    <3>2. InOrder(d) /\ Len(captured) = Len(captured') /\ joined'[d] = joined[d]
      BY <2>1 DEF DeliveryInv, OrderedDelivery
    <3> QED
      BY <3>1, <3>2, <2>2, OrderKept
  <2>6. CopyFresh'
    BY <2>1, <2>2 DEF DeliveryInv, CopyFresh
  <2>7. NothingBefore'
    BY <2>1, <2>2, <1>0 DEF DeliveryInv, NothingBefore
  <2> QED
    BY <2>4, <2>5, <2>6, <2>7 DEF DeliveryInv, OrderedDelivery
<1>3. CASE Drop
  <2>1. /\ subs # <<>> /\ subs' = Tail(subs)
        /\ UNCHANGED <<captured, status, joined, received, buf>>
    BY <1>3 DEF Drop, aggVars
  <2>2. /\ ToSet(subs') = ToSet(subs) \ {Head(subs)}
        /\ \A i, j \in DOMAIN subs' : subs'[i] = subs'[j] => i = j
    BY <2>1, HeadLeaves DEF DeliveryInv
  <2>3. \A c \in Chans : InOrder(c)'
    BY <2>1, <2>2, OrderKept DEF DeliveryInv, OrderedDelivery, Reached
  <2>4. CopyFresh' /\ NothingBefore'
    BY <2>1, <2>2 DEF DeliveryInv, CopyFresh, NothingBefore
  <2> QED
    BY <2>3, <2>4 DEF DeliveryInv, OrderedDelivery
<1>4. ASSUME NEW c \in Chans, Subscribe(c) PROVE DeliveryInv'
  <2>1. /\ status[c] = "unmade" /\ status' = [status EXCEPT ![c] = "open"]
        /\ joined' = [joined EXCEPT ![c] = Len(captured)]
        /\ UNCHANGED <<captured, subs, received, buf>>
    BY <1>4 DEF Subscribe, aggVars
  <2>2. c \notin ToSet(subs) /\ received[c] = <<>> /\ buf[c] = <<>>
    BY <2>1 DEF DeliveryInv, CopyFresh, NothingBefore
  <2>3. InOrder(c)'
    <3>1. Reached(c)' = <<>>
      BY <2>1, <2>2 DEF Reached
    <3> QED
      BY <3>1 DEF InOrder
  <2>4. ASSUME NEW d \in Chans, d # c PROVE InOrder(d)'
    <3>1. Reached(d)' = Reached(d) /\ joined'[d] = joined[d] /\ InOrder(d)
      BY <2>1, <2>4, <1>0 DEF Reached, DeliveryInv, OrderedDelivery
    <3> QED
      BY <3>1, <2>1, OrderKept
  <2>5. CopyFresh'
    <3>1. ASSUME NEW d \in ToSet(subs')
          PROVE  status'[d] # "unmade" /\ joined'[d] < Len(captured')
      <4>1. d \in Chans /\ d # c
        BY <2>1, <2>2, <1>0, ElementOfSeq, LenProperties DEF ToSet
      <4> QED
        BY <4>1, <2>1, <1>0 DEF DeliveryInv, CopyFresh
    <3> QED
      BY <3>1, <2>1 DEF DeliveryInv, CopyFresh
  <2>6. NothingBefore'
    BY <2>1, <1>0 DEF DeliveryInv, NothingBefore
  <2> QED
    BY <2>3, <2>4, <2>5, <2>6 DEF DeliveryInv, OrderedDelivery
<1>5. ASSUME NEW c \in Chans, Unsubscribe(c) PROVE DeliveryInv'
  <2>1. /\ status' = [status EXCEPT ![c] = "closed"]
        /\ UNCHANGED <<captured, subs, received, buf, joined>>
    BY <1>5 DEF Unsubscribe, aggVars, histVars
  <2>2. \A d \in Chans : InOrder(d)'
    BY <2>1, OrderKept DEF DeliveryInv, OrderedDelivery, Reached
  <2>3. CopyFresh'
    <3>1. \A d \in ToSet(subs) : d \in Chans
      BY <1>0, ElementOfSeq, LenProperties DEF ToSet
    <3> QED
      BY <3>1, <2>1, <1>0 DEF DeliveryInv, CopyFresh
  <2>4. NothingBefore'
    BY <2>1, <1>0 DEF DeliveryInv, NothingBefore
  <2> QED
    BY <2>2, <2>3, <2>4 DEF DeliveryInv, OrderedDelivery
<1>6. ASSUME NEW c \in Chans, Receive(c) PROVE DeliveryInv'
  <2>1. /\ buf[c] # <<>> /\ buf' = [buf EXCEPT ![c] = Tail(@)] /\ status[c] = "open"
        /\ received' = [received EXCEPT ![c] = Append(@, Head(buf[c]))]
        /\ UNCHANGED <<captured, subs, status, joined>>
    BY <1>6 DEF Receive, aggVars
  <2>2. Reached(c)' = Reached(c)
    BY <2>1, <1>0, ReachedByTaking DEF Reached
  <2>3. \A d \in Chans : d # c => Reached(d)' = Reached(d)
    BY <2>1, <1>0 DEF Reached
  <2>4. \A d \in Chans : InOrder(d)'
    BY <2>1, <2>2, <2>3, OrderKept DEF DeliveryInv, OrderedDelivery
  <2>5. CopyFresh'
    BY <2>1 DEF DeliveryInv, CopyFresh
  <2>6. NothingBefore'
    BY <2>1, <1>0 DEF DeliveryInv, NothingBefore
  <2> QED
    BY <2>4, <2>5, <2>6 DEF DeliveryInv, OrderedDelivery
<1>7. CASE UNCHANGED <<captured, subs, status, joined, received, buf>>
  BY <1>7 DEF DeliveryInv, OrderedDelivery, InOrder, Reached, CopyFresh, NothingBefore
<1> QED
  BY <1>1, <1>2, <1>3, <1>4, <1>5, <1>6, <1>7
  DEF Next, Send, SendOnClosed, TickSecond, vars, aggVars, feedVars, histVars

\* The invariant behind the order of delivery.
LEMMA DeliveryHolds == Spec => []DeliveryInv
BY DeliveryInit, DeliveryStep, TypeCorrect, ListIsOpen, PTL DEF Spec

\* Every channel is given packets in capture order, none twice and none from
\* before it subscribed, whatever the interleaving of Add with the handlers.
THEOREM DeliveryOrdered == Spec => []OrderedDelivery
<1>1. DeliveryInv => OrderedDelivery
  BY DEF DeliveryInv
<1> QED
  BY <1>1, DeliveryHolds, PTL
-----------------------------------------------------------------------------
\* The channels as the abstract broadcast sees them.
LEMMA MembershipOf ==
  /\ Membership["unmade"] = "never" /\ Membership["open"] = "in" /\ Membership["closed"] = "left"
BY DEF Membership

\* The store starts as an empty broadcast.
LEMMA InitRefines == Init => Abstract!Init
<1> SUFFICES ASSUME Init PROVE Abstract!Init
  OBVIOUS
<1>1. \A c \in Chans : Reached(c) = <<>> /\ Membership[status[c]] = "never"
  BY MembershipOf DEF Init, Reached
<1> QED
  BY <1>1 DEF Init, Abstract!Init

\* Add publishes, its loop gives, handlers join and leave; the rest is invisible.
LEMMA StepRefines ==
  TypeOK /\ SubscribersOpen /\ DeliveryInv /\ [Next]_vars => [Abstract!Next]_(Abstract!vars)
<1> SUFFICES ASSUME TypeOK, SubscribersOpen, DeliveryInv, [Next]_vars PROVE [Abstract!Next]_(Abstract!vars)
  OBVIOUS
<1> DEFINE member == [c \in Chans |-> Membership[status[c]]]
           given  == [c \in Chans |-> Reached(c)]
<1>0. /\ captured \in Seq(Kinds) /\ Len(captured) \in Nat /\ subs \in Seq(Chans)
      /\ buf \in [Chans -> Seq(Nat)] /\ received \in [Chans -> Seq(Nat)]
      /\ joined \in [Chans -> Nat] /\ status \in [Chans -> {"unmade", "open", "closed"}]
  BY LenProperties DEF TypeOK
<1>1. ASSUME NEW k \in Kinds, Add(k) PROVE Abstract!Publish(k)
  <2>1. captured' = Append(captured, k) /\ UNCHANGED <<status, buf, joined, received>>
    BY <1>1 DEF Add, histVars
  <2>2. member' = member /\ given' = given
    BY <2>1 DEF Reached
  <2> QED
    BY <2>1, <2>2 DEF Abstract!Publish
<1>2. ASSUME Deliver PROVE \E c \in Chans : Abstract!Give(c)
  <2>0. subs # <<>> /\ Head(subs) \in Chans /\ Head(subs) \in ToSet(subs)
    BY <1>2, HeadLeaves DEF Deliver, DeliveryInv
  <2>1. PICK c \in Chans : c = Head(subs)
    BY <2>0
  <2>2. /\ buf' = [buf EXCEPT ![c] = Append(@, Len(captured))] /\ status[c] = "open"
        /\ c \in ToSet(subs)
        /\ UNCHANGED <<captured, status, joined, received>>
    BY <1>2, <2>0, <2>1 DEF Deliver, aggVars, histVars
  <2>3. Reached(c)' = Append(Reached(c), Len(captured))
    <3>1. Reached(c)' = received[c] \o Append(buf[c], Len(captured))
      BY <2>2, <1>0 DEF Reached
    <3> QED
      BY <3>1, <1>0, ReachedByBuffering DEF Reached
  <2>4. \A d \in Chans : d # c => Reached(d)' = Reached(d)
    BY <2>2, <1>0 DEF Reached
  <2>5. given' = [given EXCEPT ![c] = Append(@, Len(captured))]
    BY <2>3, <2>4
  <2>6. joined[c] < Len(captured) /\ \A i \in DOMAIN given[c] : given[c][i] < Len(captured)
    BY <2>2 DEF DeliveryInv, CopyFresh, OrderedDelivery, InOrder
  <2>7. member[c] = "in" /\ member' = member
    BY <2>2, MembershipOf
  <2> QED
    BY <2>2, <2>5, <2>6, <2>7 DEF Abstract!Give
<1>3. ASSUME NEW c \in Chans, Subscribe(c) PROVE Abstract!Join(c)
  <2>1. /\ status[c] = "unmade" /\ status' = [status EXCEPT ![c] = "open"]
        /\ joined' = [joined EXCEPT ![c] = Len(captured)]
        /\ UNCHANGED <<captured, received, buf>>
    BY <1>3 DEF Subscribe, aggVars
  <2>2. member[c] = "never" /\ member' = [member EXCEPT ![c] = "in"] /\ given' = given
    BY <2>1, <1>0, MembershipOf DEF Reached
  <2> QED
    BY <2>1, <2>2 DEF Abstract!Join
<1>4. ASSUME NEW c \in Chans, Unsubscribe(c) PROVE Abstract!Leave(c)
  <2>1. /\ c \in ToSet(subscribers) /\ status' = [status EXCEPT ![c] = "closed"]
        /\ UNCHANGED <<captured, received, buf, joined>>
    BY <1>4 DEF Unsubscribe, aggVars, histVars, ToSet
  <2>2. status[c] = "open"
    BY <2>1 DEF SubscribersOpen
  <2>3. member[c] = "in" /\ member' = [member EXCEPT ![c] = "left"] /\ given' = given
    BY <2>1, <2>2, <1>0, MembershipOf DEF Reached
  <2> QED
    BY <2>1, <2>3 DEF Abstract!Leave
<1>5. ASSUME NEW c \in Chans, Receive(c) PROVE UNCHANGED Abstract!vars
  <2>1. /\ buf[c] # <<>> /\ buf' = [buf EXCEPT ![c] = Tail(@)]
        /\ received' = [received EXCEPT ![c] = Append(@, Head(buf[c]))]
        /\ UNCHANGED <<captured, status, joined>>
    BY <1>5 DEF Receive, aggVars
  <2>2. Reached(c)' = Reached(c)
    BY <2>1, <1>0, ReachedByTaking DEF Reached
  <2>3. \A d \in Chans : d # c => Reached(d)' = Reached(d)
    BY <2>1, <1>0 DEF Reached
  <2>4. given' = given /\ member' = member
    BY <2>1, <2>2, <2>3
  <2> QED
    BY <2>1, <2>4 DEF Abstract!vars
<1>6. ASSUME UNCHANGED <<captured, status, joined, received, buf>> PROVE UNCHANGED Abstract!vars
  <2>1. given' = given /\ member' = member
    BY <1>6 DEF Reached
  <2> QED
    BY <1>6, <2>1 DEF Abstract!vars
<1> QED
  BY <1>1, <1>2, <1>3, <1>4, <1>5, <1>6
  DEF Next, Send, Drop, SendOnClosed, TickSecond, vars, aggVars, feedVars, histVars, Abstract!Next

\* The store with its mutex, copied lists and bounded buffers implements the
\* lossy broadcast: what its subscribers see is allowed by the abstract promise.
THEOREM StoreIsLossyBroadcast == Spec => IsLossyBroadcast
<1>1. Spec => [](TypeOK /\ SubscribersOpen /\ DeliveryInv)
  BY DeliveryInit, DeliveryStep, TypeCorrect, ListIsOpen, PTL DEF Spec
<1> QED
  BY <1>1, InitRefines, StepRefines, PTL DEF Spec, IsLossyBroadcast, Abstract!Spec
-----------------------------------------------------------------------------
\* What makes the accounting inductive: a drop is never recorded ahead of the
\* packet, nor while the packet still has to be offered.
MissedPast ==
  \A c \in Chans :
    /\ \A n \in missed[c] : n <= Len(captured) /\ (c \in ToSet(subs) => n < Len(captured))
    /\ status[c] = "unmade" => missed[c] = {}

Everything(c) == ToSet(Reached(c)) \cup missed[c] \cup InFlight(c)
Accounted(c) ==
  /\ Everything(c) = joined[c] + 1 .. Len(captured)
  /\ ToSet(Reached(c)) \cap missed[c] = {}

\* NoGap, one subscriber at a time.
LEMMA NoGapIsAccounted == NoGap <=> \A c \in ToSet(subscribers) : Accounted(c)
BY DEF NoGap, Accounted, Everything

\* The elements of a sequence after one more was appended.
LEMMA ToSetOfAppend ==
  ASSUME NEW s \in Seq(Nat), NEW x \in Nat
  PROVE  ToSet(Append(s, x)) = ToSet(s) \cup {x}
<1>1. /\ DOMAIN s = 1..Len(s) /\ DOMAIN Append(s, x) = 1..Len(s) + 1 /\ Len(s) \in Nat
      /\ \A i \in 1..Len(s) : Append(s, x)[i] = s[i]
      /\ Append(s, x)[Len(s) + 1] = x
  BY LenProperties
<1>2. ASSUME NEW y \in ToSet(Append(s, x)) PROVE y \in ToSet(s) \cup {x}
  <2>1. PICK i \in 1..Len(s) + 1 : y = Append(s, x)[i]
    BY <1>1, <1>2 DEF ToSet
  <2>2. CASE i = Len(s) + 1
    BY <2>1, <2>2, <1>1
  <2>3. CASE i # Len(s) + 1
    <3>1. i \in 1..Len(s)
      BY <2>3, <1>1
    <3> QED
      BY <2>1, <3>1, <1>1 DEF ToSet
  <2> QED
    BY <2>2, <2>3
<1>3. ASSUME NEW y \in ToSet(s) PROVE y \in ToSet(Append(s, x))
  <2>1. PICK i \in 1..Len(s) : y = s[i]
    BY <1>1, <1>3 DEF ToSet
  <2>2. i \in DOMAIN Append(s, x) /\ Append(s, x)[i] = y
    BY <2>1, <1>1
  <2> QED
    BY <2>2 DEF ToSet
<1>4. x \in ToSet(Append(s, x))
  <2>1. Len(s) + 1 \in DOMAIN Append(s, x)
    BY <1>1
  <2> QED
    BY <2>1, <1>1 DEF ToSet
<1> QED
  BY <1>2, <1>3, <1>4

\* Every step keeps the drops in the past.
LEMMA MissedStep ==
  TypeOK /\ DeliveryInv /\ MissedPast /\ [Next]_vars => MissedPast'
<1> SUFFICES ASSUME TypeOK, DeliveryInv, MissedPast, [Next]_vars PROVE MissedPast'
  OBVIOUS
<1>0. /\ Len(captured) \in Nat /\ captured \in Seq(Kinds) /\ subs \in Seq(Chans)
      /\ missed \in [Chans -> SUBSET Nat] /\ status \in [Chans -> {"unmade", "open", "closed"}]
  BY LenProperties DEF TypeOK
<1>1. ASSUME NEW k \in Kinds, Add(k) PROVE MissedPast'
  <2>1. Len(captured') = Len(captured) + 1 /\ UNCHANGED <<missed, status>>
    BY <1>1, <1>0 DEF Add, histVars
  <2> QED
    BY <2>1, <1>0 DEF MissedPast
<1>2. CASE Deliver
  <2>1. ToSet(subs') \subseteq ToSet(subs) /\ UNCHANGED <<captured, missed, status>>
    BY <1>2, HeadLeaves DEF Deliver, DeliveryInv, aggVars, histVars
  <2> QED
    BY <2>1 DEF MissedPast
<1>3. CASE Drop
  <2>1. subs # <<>> /\ Head(subs) \in Chans /\ ToSet(subs') = ToSet(subs) \ {Head(subs)}
    BY <1>3, HeadLeaves DEF Drop, DeliveryInv
  <2>2. PICK c \in Chans : c = Head(subs)
    BY <2>1
  <2>3. /\ missed' = [missed EXCEPT ![c] = @ \cup {Len(captured)}] /\ status[c] = "open"
        /\ UNCHANGED <<captured, status>>
    BY <1>3, <2>2 DEF Drop, aggVars
  <2> QED
    BY <2>1, <2>2, <2>3, <1>0 DEF MissedPast
<1>4. ASSUME NEW c \in Chans, Subscribe(c) PROVE MissedPast'
  BY <1>4, <1>0 DEF Subscribe, MissedPast, aggVars
<1>5. ASSUME NEW c \in Chans, Unsubscribe(c) PROVE MissedPast'
  BY <1>5, <1>0 DEF Unsubscribe, MissedPast, aggVars, histVars
<1>6. CASE UNCHANGED <<captured, subs, status, missed>>
  BY <1>6 DEF MissedPast
<1> QED
  BY <1>1, <1>2, <1>3, <1>4, <1>5, <1>6
  DEF Next, Send, SendOnClosed, TickSecond, Receive, vars, aggVars, feedVars, histVars

\* Every step keeps the accounts of every subscribed channel.
LEMMA NoGapStep ==
  TypeOK /\ SubscribersOpen /\ DeliveryInv /\ MissedPast /\ NoGap /\ [Next]_vars => NoGap'
<1> SUFFICES ASSUME TypeOK, SubscribersOpen, DeliveryInv, MissedPast, NoGap, [Next]_vars,
                    NEW d \in ToSet(subscribers')
             PROVE  Accounted(d)'
  BY NoGapIsAccounted DEF NoGap, Accounted, Everything
<1>0. /\ Len(captured) \in Nat /\ captured \in Seq(Kinds) /\ subs \in Seq(Chans)
      /\ buf \in [Chans -> Seq(Nat)] /\ received \in [Chans -> Seq(Nat)]
      /\ joined \in [Chans -> Nat] /\ missed \in [Chans -> SUBSET Nat]
      /\ subscribers \in Seq(Chans) /\ subscribers' \in Seq(Chans)
  <2>1. TypeOK'
    BY TypeStep
  <2> QED
    BY <2>1, LenProperties DEF TypeOK
<1>d. d \in Chans
  BY <1>0, ElementOfSeq, LenProperties DEF ToSet
<1>1. ASSUME NEW k \in Kinds, Add(k) PROVE Accounted(d)'
  <2>1. /\ Len(captured') = Len(captured) + 1 /\ subs = <<>> /\ subs' = subscribers
        /\ UNCHANGED <<missed, joined, buf, received, subscribers>>
    BY <1>1, <1>0 DEF Add, histVars
  <2>2. Reached(d)' = Reached(d) /\ InFlight(d) = {} /\ InFlight(d)' = {Len(captured) + 1}
    BY <2>1 DEF Reached, InFlight, ToSet
  <2>3. Accounted(d) /\ joined[d] <= Len(captured)
    BY <2>1, <1>d, NoGapIsAccounted DEF DeliveryInv, NothingBefore
  <2>4. joined[d] + 1 .. Len(captured) + 1 = (joined[d] + 1 .. Len(captured)) \cup {Len(captured) + 1}
    BY <2>3, <1>0, <1>d
  <2> QED
    BY <2>1, <2>2, <2>3, <2>4 DEF Accounted, Everything
<1>2. CASE Deliver
  <2>0. /\ subs # <<>> /\ Head(subs) \in Chans /\ Head(subs) \in ToSet(subs)
        /\ ToSet(subs') = ToSet(subs) \ {Head(subs)}
    BY <1>2, HeadLeaves DEF Deliver, DeliveryInv
  <2>1. PICK c \in Chans : c = Head(subs)
    BY <2>0
  <2>2. /\ buf' = [buf EXCEPT ![c] = Append(@, Len(captured))]
        /\ UNCHANGED <<captured, joined, received, missed, subscribers>>
    BY <1>2, <2>1 DEF Deliver, aggVars, histVars
  <2>3. Accounted(d)
    BY <2>2, NoGapIsAccounted
  <2>4. CASE d = c
    <3>1. Reached(d)' = Append(Reached(d), Len(captured))
      <4>1. Reached(d)' = received[d] \o Append(buf[d], Len(captured))
        BY <2>2, <2>4, <1>0, <1>d DEF Reached
      <4> QED
        BY <4>1, <1>0, <1>d, ReachedByBuffering DEF Reached
    <3>2. ToSet(Reached(d)') = ToSet(Reached(d)) \cup {Len(captured)}
      <4>1. Reached(d) \in Seq(Nat)
        BY <1>0, <1>d, ConcatProperties DEF Reached
      <4> QED
        BY <3>1, <4>1, <1>0, ToSetOfAppend
    <3>3. InFlight(d) = {Len(captured)} /\ InFlight(d)' = {}
      BY <2>0, <2>1, <2>2, <2>4 DEF InFlight
    <3>4. Len(captured) \notin missed[d]
      BY <2>0, <2>1, <2>4, <1>d, <1>0 DEF MissedPast
    <3> QED
      BY <2>2, <2>3, <3>2, <3>3, <3>4 DEF Accounted, Everything
  <2>5. CASE d # c
    <3>1. Reached(d)' = Reached(d) /\ InFlight(d)' = InFlight(d)
      BY <2>0, <2>1, <2>2, <2>5, <1>0, <1>d DEF Reached, InFlight
    <3> QED
      BY <2>2, <2>3, <3>1 DEF Accounted, Everything
  <2> QED
    BY <2>4, <2>5
<1>3. CASE Drop
  <2>0. /\ subs # <<>> /\ Head(subs) \in Chans /\ Head(subs) \in ToSet(subs)
        /\ ToSet(subs') = ToSet(subs) \ {Head(subs)}
    BY <1>3, HeadLeaves DEF Drop, DeliveryInv
  <2>1. PICK c \in Chans : c = Head(subs)
    BY <2>0
  <2>2. /\ missed' = [missed EXCEPT ![c] = @ \cup {Len(captured)}]
        /\ UNCHANGED <<captured, joined, received, buf, subscribers>>
    BY <1>3, <2>1 DEF Drop, aggVars
  <2>3. Accounted(d) /\ Reached(d)' = Reached(d)
    BY <2>2, NoGapIsAccounted DEF Reached
  <2>4. CASE d = c
    <3>1. InFlight(d) = {Len(captured)} /\ InFlight(d)' = {}
      BY <2>0, <2>1, <2>2, <2>4 DEF InFlight
    <3>2. missed'[d] = missed[d] \cup {Len(captured)}
      BY <2>2, <2>4, <1>0, <1>d
    <3>3. Len(captured) \notin ToSet(Reached(d))
      <4>1. d \in ToSet(subs) /\ InOrder(d)
        BY <2>0, <2>1, <2>4, <1>d DEF DeliveryInv, OrderedDelivery
      <4>2. \A i \in DOMAIN Reached(d) : Reached(d)[i] < Len(captured)
        BY <4>1 DEF InOrder
      <4> QED
        BY <4>2, <1>0 DEF ToSet
    <3> QED
      BY <2>2, <2>3, <3>1, <3>2, <3>3 DEF Accounted, Everything
  <2>5. CASE d # c
    <3>1. missed'[d] = missed[d] /\ InFlight(d)' = InFlight(d)
      BY <2>0, <2>1, <2>2, <2>5, <1>0, <1>d DEF InFlight
    <3> QED
      BY <2>2, <2>3, <3>1 DEF Accounted, Everything
  <2> QED
    BY <2>4, <2>5
<1>4. ASSUME NEW c \in Chans, Subscribe(c) PROVE Accounted(d)'
  <2>1. /\ status[c] = "unmade" /\ joined' = [joined EXCEPT ![c] = Len(captured)]
        /\ subscribers' = Append(subscribers, c)
        /\ UNCHANGED <<captured, received, buf, missed, subs>>
    BY <1>4 DEF Subscribe, aggVars
  <2>2. Reached(d)' = Reached(d) /\ InFlight(d)' = InFlight(d)
    BY <2>1 DEF Reached, InFlight
  <2>3. CASE d = c
    <3>1. Reached(d) = <<>> /\ missed[d] = {} /\ InFlight(d) = {}
      BY <2>1, <2>3, <1>d DEF DeliveryInv, NothingBefore, MissedPast, CopyFresh, Reached, InFlight
    <3>2. joined'[d] = Len(captured) /\ Len(captured) + 1 .. Len(captured) = {}
      BY <2>1, <2>3, <1>0, <1>d
    <3> QED
      BY <2>1, <2>2, <3>1, <3>2 DEF Accounted, Everything, ToSet
  <2>4. CASE d # c
    <3>1. d \in ToSet(subscribers) /\ joined'[d] = joined[d]
      BY <2>1, <2>4, <1>0, <1>d, SMTT(30) DEF ToSet
    <3> QED
      BY <2>1, <2>2, <3>1, NoGapIsAccounted DEF Accounted, Everything
  <2> QED
    BY <2>3, <2>4
<1>5. ASSUME NEW c \in Chans, Unsubscribe(c) PROVE Accounted(d)'
  <2>1. PICK i \in DOMAIN subscribers : subscribers' = RemoveAt(subscribers, i)
    BY <1>5 DEF Unsubscribe
  <2>2. UNCHANGED <<captured, received, buf, missed, subs, joined>>
    BY <1>5 DEF Unsubscribe, aggVars, histVars
  <2>3. d \in ToSet(subscribers)
    <3>1. /\ i \in 1..Len(subscribers) /\ Len(subscribers) \in Nat
          /\ DOMAIN subscribers = 1..Len(subscribers)
      BY <1>0, LenProperties
    <3>2. /\ Len(subscribers') = Len(subscribers) - 1
          /\ \A j \in 1..Len(subscribers) - 1 :
               subscribers'[j] = IF j < i THEN subscribers[j] ELSE subscribers[j + 1]
      BY <2>1, <3>1, <1>0, RemoveAtProperties
    <3>3. PICK j \in 1..Len(subscribers) - 1 : subscribers'[j] = d
      BY <3>1, <3>2, <1>0, LenProperties DEF ToSet
    <3>4. j \in DOMAIN subscribers /\ j + 1 \in DOMAIN subscribers
      BY <3>1, <3>3
    <3>5. d = subscribers[j] \/ d = subscribers[j + 1]
      BY <3>2, <3>3
    <3> QED
      BY <3>4, <3>5 DEF ToSet
  <2> QED
    BY <2>2, <2>3, NoGapIsAccounted DEF Accounted, Everything, Reached, InFlight
<1>6. ASSUME NEW c \in Chans, Receive(c) PROVE Accounted(d)'
  <2>1. /\ buf[c] # <<>> /\ buf' = [buf EXCEPT ![c] = Tail(@)]
        /\ received' = [received EXCEPT ![c] = Append(@, Head(buf[c]))]
        /\ UNCHANGED <<captured, joined, missed, subs, subscribers>>
    BY <1>6 DEF Receive, aggVars
  <2>2. Reached(d)' = Reached(d)
    BY <2>1, <1>0, <1>d, ReachedByTaking DEF Reached
  <2> QED
    BY <2>1, <2>2, NoGapIsAccounted DEF Accounted, Everything, InFlight
<1>7. CASE UNCHANGED <<captured, joined, missed, subs, subscribers, received, buf>>
  BY <1>7, NoGapIsAccounted DEF Accounted, Everything, Reached, InFlight
<1> QED
  BY <1>1, <1>2, <1>3, <1>4, <1>5, <1>6, <1>7
  DEF Next, Send, SendOnClosed, TickSecond, vars, aggVars, feedVars, histVars

\* No subscriber loses a packet to another one: since it subscribed, everything
\* captured reached it, was dropped for it alone, or is being offered to it.
THEOREM NothingGoesMissing == Spec => []NoGap
<1>1. Init => MissedPast /\ NoGap
  BY DEF Init, MissedPast, NoGap, ToSet
<1> QED
  BY <1>1, MissedStep, NoGapStep, DeliveryInit, DeliveryStep, TypeCorrect, ListIsOpen, PTL DEF Spec
-----------------------------------------------------------------------------
(* The counters and what they count *)

\* What Total folds is the sum.
LEMMA TotalIsSum ==
  ASSUME NEW D, IsFiniteSet(D), NEW g \in [D -> Nat]
  PROVE  Total(g) = SumAll(g)
<1>1. MapThenSumSet(LAMBDA k : g[k], D) = SumAll(g)
  BY FoldIsSum
<1>2. DOMAIN g = D
  OBVIOUS
<1> QED
  BY <1>1, <1>2 DEF Total, MapThenSumSet, MapThenFoldSet

\* The packets of s that are in W, and the sizes of all of them.
CountIn(s, W) == Cardinality({n \in DOMAIN s : s[n] \in W})
Sizes(s) == [n \in DOMAIN s |-> s[n].size]

\* CountersAgree of aggregates g and packets s.
Agree(g, s) ==
  /\ g.totalPkts = Len(s)
  /\ g.totalBytes = SumAll(Sizes(s))
  /\ g.flagged = CountIn(s, {k \in Kinds : k.flagged})
  /\ \A p \in Protos : g.protoCounts[p] = CountIn(s, {k \in Kinds : k.proto = p})
  /\ \A a \in IPs : g.ipCounts[a] = CountIn(s, {k \in Kinds : k.src = a})
  /\ \A c \in IPs \X IPs : g.connections[c] = CountIn(s, {k \in Kinds : <<k.src, k.dst>> = c})

\* The sizes of a sequence of packets are finitely many numbers.
LEMMA SizesType ==
  ASSUME NEW s \in Seq(Kinds)
  PROVE  /\ IsFiniteSet(DOMAIN s) /\ Sizes(s) \in [DOMAIN s -> Nat]
         /\ SumAll(Sizes(s)) \in Nat
<1>1. DOMAIN s = 1..Len(s) /\ Len(s) \in Nat /\ \A n \in DOMAIN s : s[n] \in Kinds
  BY LenProperties, ElementOfSeq
<1>2. IsFiniteSet(DOMAIN s)
  BY <1>1, FS_Interval
<1>3. Sizes(s) \in [DOMAIN s -> Nat] /\ DOMAIN Sizes(s) = DOMAIN s
  BY <1>1, KindsAssumption DEF Sizes
<1>4. SumOver(Sizes(s), DOMAIN s) \in Nat
  BY <1>2, <1>3, SumProperties
<1> QED
  BY <1>2, <1>3, <1>4 DEF SumAll

\* One more packet.
LEMMA SizesAppended ==
  ASSUME NEW s \in Seq(Kinds), NEW k \in Kinds
  PROVE  SumAll(Sizes(Append(s, k))) = SumAll(Sizes(s)) + k.size
<1> DEFINE t == Append(s, k)
           last == Len(s) + 1
<1>1. /\ t \in Seq(Kinds) /\ DOMAIN s = 1..Len(s) /\ DOMAIN t = 1..last /\ Len(s) \in Nat
      /\ \A n \in 1..Len(s) : t[n] = s[n]
      /\ t[last] = k
  BY AppendProperties, LenProperties
<1> HIDE DEF t
<1>2. last \in DOMAIN t /\ DOMAIN t \ {last} = DOMAIN s /\ DOMAIN s \subseteq DOMAIN t
  BY <1>1
<1> HIDE DEF last
<1>3. Sizes(t)[last] = k.size /\ \A n \in DOMAIN s : Sizes(t)[n] = Sizes(s)[n]
  BY <1>1, <1>2 DEF Sizes
<1>4. SumOver(Sizes(t), DOMAIN t) = k.size + SumOver(Sizes(t), DOMAIN s)
  <2>1. IsFiniteSet(DOMAIN t) /\ Sizes(t) \in [DOMAIN t -> Nat]
    BY <1>1, SizesType
  <2>2. SumOver(Sizes(t), DOMAIN t) = Sizes(t)[last] + SumOver(Sizes(t), DOMAIN t \ {last})
    BY <1>2, <2>1, SumProperties
  <2> QED
    BY <1>2, <1>3, <2>2
<1>5. SumOver(Sizes(t), DOMAIN s) = SumOver(Sizes(s), DOMAIN s)
  <2>1. /\ IsFiniteSet(DOMAIN t) /\ Sizes(t) \in [DOMAIN t -> Nat]
        /\ IsFiniteSet(DOMAIN s) /\ Sizes(s) \in [DOMAIN s -> Nat]
    BY <1>1, SizesType
  <2> QED
    BY <1>2, <1>3, <2>1, SumCongruence
<1>6. DOMAIN Sizes(s) = DOMAIN s /\ DOMAIN Sizes(t) = DOMAIN t
  BY DEF Sizes
<1>7. SumAll(Sizes(t)) = k.size + SumAll(Sizes(s))
  BY <1>4, <1>5, <1>6 DEF SumAll
<1>8. k.size \in Nat /\ SumAll(Sizes(s)) \in Nat
  BY KindsAssumption, SizesType
<1> QED
  BY <1>7, <1>8 DEF t

\* The counters agree with the packets just when each is the number of packets it counts.
LEMMA AgreeMeaning == captured \in Seq(Kinds) => (CountersAgree <=> Agree(agg, captured))
<1> SUFFICES ASSUME captured \in Seq(Kinds) PROVE CountersAgree <=> Agree(agg, captured)
  OBVIOUS
<1>1. \A n \in DOMAIN captured : captured[n] \in Kinds
  BY LenProperties, ElementOfSeq
<1>2. Volume = SumAll(Sizes(captured))
  <2>1. Total(Sizes(captured)) = SumAll(Sizes(captured))
    BY SizesType, TotalIsSum
  <2> QED
    BY <2>1 DEF Volume, Sizes
<1>3. Matching(LAMBDA k : k.flagged) = CountIn(captured, {k \in Kinds : k.flagged})
  <2>1. {n \in DOMAIN captured : captured[n].flagged}
          = {n \in DOMAIN captured : captured[n] \in {k \in Kinds : k.flagged}}
    BY <1>1
  <2> QED
    BY <2>1 DEF Matching, CountIn
<1>4. \A p : Matching(LAMBDA k : k.proto = p) = CountIn(captured, {k \in Kinds : k.proto = p})
  <2>1. \A p : {n \in DOMAIN captured : captured[n].proto = p}
          = {n \in DOMAIN captured : captured[n] \in {k \in Kinds : k.proto = p}}
    BY <1>1
  <2> QED
    BY <2>1 DEF Matching, CountIn
<1>5. \A a : Matching(LAMBDA k : k.src = a) = CountIn(captured, {k \in Kinds : k.src = a})
  <2>1. \A a : {n \in DOMAIN captured : captured[n].src = a}
          = {n \in DOMAIN captured : captured[n] \in {k \in Kinds : k.src = a}}
    BY <1>1
  <2> QED
    BY <2>1 DEF Matching, CountIn
<1>6. \A c : Matching(LAMBDA k : <<k.src, k.dst>> = c)
               = CountIn(captured, {k \in Kinds : <<k.src, k.dst>> = c})
  <2>1. \A c : {n \in DOMAIN captured : <<captured[n].src, captured[n].dst>> = c}
          = {n \in DOMAIN captured : captured[n] \in {k \in Kinds : <<k.src, k.dst>> = c}}
    BY <1>1
  <2> QED
    BY <2>1 DEF Matching, CountIn
<1>7. ASSUME CountersAgree PROVE Agree(agg, captured)
  <2>1. agg.totalPkts = Len(captured) /\ agg.totalBytes = SumAll(Sizes(captured))
    BY <1>2, <1>7 DEF CountersAgree
  <2>2. agg.flagged = CountIn(captured, {k \in Kinds : k.flagged})
    BY <1>3, <1>7 DEF CountersAgree, Matching
  <2>3. \A p \in Protos : agg.protoCounts[p] = CountIn(captured, {k \in Kinds : k.proto = p})
    BY <1>4, <1>7 DEF CountersAgree, Matching
  <2>4. \A a \in IPs : agg.ipCounts[a] = CountIn(captured, {k \in Kinds : k.src = a})
    BY <1>5, <1>7 DEF CountersAgree, Matching
  <2>5. \A c \in IPs \X IPs :
          agg.connections[c] = CountIn(captured, {k \in Kinds : <<k.src, k.dst>> = c})
    BY <1>6, <1>7 DEF CountersAgree, Matching
  <2> QED
    BY <2>1, <2>2, <2>3, <2>4, <2>5 DEF Agree
<1>8. ASSUME Agree(agg, captured) PROVE CountersAgree
  <2>1. agg.totalPkts = Len(captured) /\ agg.totalBytes = Volume
    BY <1>2, <1>8 DEF Agree
  <2>2. agg.flagged = Matching(LAMBDA k : k.flagged)
    BY <1>3, <1>8 DEF Agree, Matching
  <2>3. \A p \in Protos : agg.protoCounts[p] = Matching(LAMBDA k : k.proto = p)
    BY <1>4, <1>8 DEF Agree, Matching
  <2>4. \A a \in IPs : agg.ipCounts[a] = Matching(LAMBDA k : k.src = a)
    BY <1>5, <1>8 DEF Agree, Matching
  <2>5. \A c \in IPs \X IPs : agg.connections[c] = Matching(LAMBDA k : <<k.src, k.dst>> = c)
    BY <1>6, <1>8 DEF Agree, Matching
  <2> QED
    BY <2>1, <2>2, <2>3, <2>4, <2>5 DEF CountersAgree, Matching
<1> QED
  BY <1>7, <1>8

\* One more packet is one more in every count it belongs to.
LEMMA AgreeCounted ==
  ASSUME agg \in Aggregates, NEW s \in Seq(Kinds), NEW k \in Kinds, Agree(agg, s)
  PROVE  Agree(Counted(k), Append(s, k))
<1> DEFINE t == Append(s, k)
<1>1. \A W : CountIn(t, W) = CountIn(s, W) + (IF k \in W THEN 1 ELSE 0)
  BY CountAppended DEF CountIn
<1>2. /\ agg.protoCounts \in [Protos -> Nat] /\ agg.ipCounts \in [IPs -> Nat]
      /\ agg.connections \in [IPs \X IPs -> Nat]
      /\ agg.totalPkts \in Nat /\ agg.totalBytes \in Nat /\ agg.flagged \in Nat
  BY DEF Aggregates
<1>3. /\ k.src \in IPs /\ k.dst \in IPs /\ k.proto \in Protos /\ k.size \in Nat
      /\ k.flagged \in BOOLEAN /\ <<k.src, k.dst>> \in IPs \X IPs
  BY KindsAssumption
<1>4. Counted(k).totalPkts = Len(t)
  BY AppendProperties DEF Agree, Counted
<1>5. Counted(k).totalBytes = SumAll(Sizes(t))
  BY SizesAppended DEF Agree, Counted
<1> HIDE DEF t
<1>6. Counted(k).flagged = CountIn(t, {l \in Kinds : l.flagged})
  <2>1. CountIn(t, {l \in Kinds : l.flagged}) =
          CountIn(s, {l \in Kinds : l.flagged}) + (IF k.flagged THEN 1 ELSE 0)
    BY <1>1
  <2> QED
    BY <2>1, <1>2, <1>3 DEF Agree, Counted
<1>7. ASSUME NEW p \in Protos
      PROVE  Counted(k).protoCounts[p] = CountIn(t, {l \in Kinds : l.proto = p})
  <2>1. CountIn(t, {l \in Kinds : l.proto = p}) =
          CountIn(s, {l \in Kinds : l.proto = p}) + (IF k.proto = p THEN 1 ELSE 0)
    BY <1>1
  <2>2. Counted(k).protoCounts[p] = agg.protoCounts[p] + (IF k.proto = p THEN 1 ELSE 0)
    BY <1>2, <1>3 DEF Counted
  <2> QED
    BY <2>1, <2>2 DEF Agree
<1>8. ASSUME NEW a \in IPs
      PROVE  Counted(k).ipCounts[a] = CountIn(t, {l \in Kinds : l.src = a})
  <2>1. CountIn(t, {l \in Kinds : l.src = a}) =
          CountIn(s, {l \in Kinds : l.src = a}) + (IF k.src = a THEN 1 ELSE 0)
    BY <1>1
  <2>2. Counted(k).ipCounts[a] = agg.ipCounts[a] + (IF k.src = a THEN 1 ELSE 0)
    BY <1>2, <1>3 DEF Counted
  <2> QED
    BY <2>1, <2>2 DEF Agree
<1>9. ASSUME NEW c \in IPs \X IPs
      PROVE  Counted(k).connections[c] = CountIn(t, {l \in Kinds : <<l.src, l.dst>> = c})
  <2>1. CountIn(t, {l \in Kinds : <<l.src, l.dst>> = c}) =
          CountIn(s, {l \in Kinds : <<l.src, l.dst>> = c}) + (IF <<k.src, k.dst>> = c THEN 1 ELSE 0)
    BY <1>1
  <2>2. Counted(k).connections[c] = agg.connections[c] + (IF <<k.src, k.dst>> = c THEN 1 ELSE 0)
    <3> DEFINE key == <<k.src, k.dst>>
    <3>1. Counted(k).connections = [agg.connections EXCEPT ![key] = @ + 1] /\ key \in IPs \X IPs
      BY <1>3 DEF Counted
    <3> HIDE DEF key
    <3>2. [agg.connections EXCEPT ![key] = @ + 1][c] = agg.connections[c] + (IF key = c THEN 1 ELSE 0)
      BY <1>2, <3>1
    <3> QED
      BY <3>1, <3>2 DEF key
  <2> QED
    BY <2>1, <2>2 DEF Agree
<1> QED
  BY <1>4, <1>5, <1>6, <1>7, <1>8, <1>9 DEF Agree, t

\* The counters are the counts of everything captured: totals, protocols, sources and
\* connections are those of the same packets, whatever else happens meanwhile.
THEOREM CountersAreCounts == Spec => []CountersAgree
<1>1. Init => Agree(agg, captured)
  <2> SUFFICES ASSUME Init PROVE Agree(agg, captured)
    OBVIOUS
  <2>1. captured = <<>> /\ captured \in Seq(Kinds) /\ DOMAIN captured = {} /\ Len(captured) = 0
    BY EmptySeq DEF Init
  <2>2. \A W : CountIn(captured, W) = 0
    BY <2>1, FS_EmptySet DEF CountIn
  <2>3. SumAll(Sizes(captured)) = 0
    <3>1. DOMAIN Sizes(captured) = {}
      BY <2>1 DEF Sizes
    <3>2. SumOver(Sizes(captured), {}) = 0
      BY <2>1, SizesType, SumProperties
    <3> QED
      BY <3>1, <3>2 DEF SumAll
  <2>4. /\ agg.totalPkts = 0 /\ agg.totalBytes = 0 /\ agg.flagged = 0
        /\ \A p \in Protos : agg.protoCounts[p] = 0
        /\ \A a \in IPs : agg.ipCounts[a] = 0
        /\ \A c \in IPs \X IPs : agg.connections[c] = 0
    BY DEF Init
  <2> QED
    BY <2>1, <2>2, <2>3, <2>4 DEF Agree
<1>2. TypeOK /\ Agree(agg, captured) /\ [Next]_vars => Agree(agg, captured)'
  <2> SUFFICES ASSUME TypeOK, Agree(agg, captured), [Next]_vars PROVE Agree(agg', captured')
    OBVIOUS
  <2>1. ASSUME NEW k \in Kinds, Add(k) PROVE Agree(agg', captured')
    BY <2>1, AgreeCounted DEF Add, TypeOK
  <2>2. CASE TickSecond
    <3>1. /\ agg'.totalPkts = agg.totalPkts /\ agg'.totalBytes = agg.totalBytes
          /\ agg'.flagged = agg.flagged /\ agg'.protoCounts = agg.protoCounts
          /\ agg'.ipCounts = agg.ipCounts /\ agg'.connections = agg.connections
          /\ captured' = captured
      BY <2>2 DEF TickSecond, TypeOK, Aggregates
    <3> QED
      BY <3>1 DEF Agree
  <2>3. CASE UNCHANGED <<agg, captured>>
    BY <2>3
  <2> QED
    BY <2>1, <2>2, <2>3
    DEF Next, Send, Deliver, Drop, SendOnClosed, Subscribe, Unsubscribe, Receive, vars, aggVars
<1>3. TypeOK /\ Agree(agg, captured) => CountersAgree
  BY AgreeMeaning DEF TypeOK
<1> QED
  BY <1>1, <1>2, <1>3, TypeCorrect, PTL DEF Spec

-----------------------------------------------------------------------------
(* What the dashboard derives *)

\* The counts by source, by destination and by protocol that belong to the same packets.
FromSource(g, a) == [c \in IPs \X IPs |-> IF c[1] = a THEN g.connections[c] ELSE 0]

\* Every packet is counted under one protocol, one source and one connection of that source.
KeysAddUp(g) ==
  /\ SumAll(g.protoCounts) = g.totalPkts
  /\ SumAll(g.ipCounts) = g.totalPkts
  /\ \A a \in IPs : SumAll(FromSource(g, a)) = g.ipCounts[a]

\* There are finitely many pairs of addresses.
LEMMA PairsFinite == IsFiniteSet(IPs \X IPs)
BY NamesAssumption, FS_Product

\* Nothing counted.
LEMMA SumOfZeros ==
  ASSUME NEW D, IsFiniteSet(D), NEW g \in [D -> Nat], \A x \in D : g[x] = 0
  PROVE  SumAll(g) = 0
<1>1. SumOver(g, {}) = SumAll(g) /\ SumOver(g, {}) = 0
  BY SumPart, SumProperties
<1> QED
  BY <1>1

\* Counting one packet more keeps the per-key counters adding up to the total.
LEMMA KeysCounted ==
  ASSUME agg \in Aggregates, NEW k \in Kinds, KeysAddUp(agg)
  PROVE  KeysAddUp(Counted(k))
<1> DEFINE new == Counted(k)
           key == <<k.src, k.dst>>
<1>1. /\ k.src \in IPs /\ k.dst \in IPs /\ k.proto \in Protos /\ key \in IPs \X IPs
      /\ key[1] = k.src
  BY KindsAssumption
<1>2. /\ agg.protoCounts \in [Protos -> Nat] /\ agg.ipCounts \in [IPs -> Nat]
      /\ agg.connections \in [IPs \X IPs -> Nat] /\ agg.totalPkts \in Nat
  BY DEF Aggregates
<1> HIDE DEF key
<1>3. /\ new.totalPkts = agg.totalPkts + 1
      /\ new.protoCounts = [agg.protoCounts EXCEPT ![k.proto] = @ + 1]
      /\ new.ipCounts = [agg.ipCounts EXCEPT ![k.src] = @ + 1]
      /\ new.connections = [agg.connections EXCEPT ![key] = @ + 1]
  BY DEF Counted, key
<1> HIDE DEF new
<1>4. SumAll(new.protoCounts) = SumAll(agg.protoCounts) + 1
  <2> DEFINE old == agg.protoCounts
             now == new.protoCounts
  <2>1. /\ old \in [Protos -> Nat] /\ now \in [Protos -> Nat]
        /\ now[k.proto] = old[k.proto] + 1 /\ \A p \in Protos \ {k.proto} : now[p] = old[p]
    BY <1>1, <1>2, <1>3
  <2> HIDE DEF old, now
  <2>2. SumAll(now) = SumAll(old) + 1
    BY <1>1, <2>1, NamesAssumption, SumRaised
  <2> QED
    BY <2>2 DEF old, now
<1>5. SumAll(new.ipCounts) = SumAll(agg.ipCounts) + 1
  <2> DEFINE old == agg.ipCounts
             now == new.ipCounts
  <2>1. /\ old \in [IPs -> Nat] /\ now \in [IPs -> Nat]
        /\ now[k.src] = old[k.src] + 1 /\ \A a \in IPs \ {k.src} : now[a] = old[a]
    BY <1>1, <1>2, <1>3
  <2> HIDE DEF old, now
  <2>2. SumAll(now) = SumAll(old) + 1
    BY <1>1, <2>1, NamesAssumption, SumRaised
  <2> QED
    BY <2>2 DEF old, now
<1>6. ASSUME NEW a \in IPs PROVE SumAll(FromSource(new, a)) = new.ipCounts[a]
  <2> DEFINE old == FromSource(agg, a)
             now == FromSource(new, a)
             d == IF k.src = a THEN 1 ELSE 0
  <2>1. old \in [IPs \X IPs -> Nat]
    BY <1>2 DEF FromSource
  <2>2. now \in [IPs \X IPs -> Nat]
    <3>1. new.connections \in [IPs \X IPs -> Nat]
      BY <1>1, <1>2, <1>3
    <3> QED
      BY <3>1 DEF FromSource
  <2>3. now[key] = old[key] + d
    <3>1. old[key] = (IF key[1] = a THEN agg.connections[key] ELSE 0)
      BY <1>1 DEF FromSource
    <3>2. now[key] = (IF key[1] = a THEN new.connections[key] ELSE 0)
      BY <1>1 DEF FromSource
    <3>3. new.connections[key] = agg.connections[key] + 1 /\ agg.connections[key] \in Nat
      BY <1>1, <1>2, <1>3
    <3> QED
      BY <1>1, <3>1, <3>2, <3>3
  <2>4. ASSUME NEW c \in (IPs \X IPs) \ {key} PROVE now[c] = old[c]
    <3>1. new.connections[c] = agg.connections[c]
      BY <1>1, <1>2, <1>3
    <3> QED
      BY <3>1 DEF FromSource
  <2>5. d \in Nat
    OBVIOUS
  <2>6. new.ipCounts[a] = agg.ipCounts[a] + d
    BY <1>1, <1>2, <1>3
  <2> HIDE DEF old, now, d
  <2>7. SumAll(now) = SumAll(old) + d
    BY <1>1, <2>1, <2>2, <2>3, <2>4, <2>5, PairsFinite, SumRaised
  <2>8. SumAll(old) = agg.ipCounts[a]
    BY DEF KeysAddUp, old
  <2> QED
    BY <2>6, <2>7, <2>8 DEF now
<1> QED
  BY <1>3, <1>4, <1>5, <1>6 DEF KeysAddUp, new

\* In every reachable state the tables of counters add up to one another.
LEMMA KeysAlwaysAddUp == Spec => []KeysAddUp(agg)
<1>1. Init => KeysAddUp(agg)
  <2> SUFFICES ASSUME Init PROVE KeysAddUp(agg)
    OBVIOUS
  <2>1. /\ agg.totalPkts = 0 /\ agg.protoCounts = [p \in Protos |-> 0]
        /\ agg.ipCounts = [a \in IPs |-> 0] /\ agg.connections = [c \in IPs \X IPs |-> 0]
    BY DEF Init
  <2>2. SumAll(agg.protoCounts) = 0
    <3> DEFINE f == agg.protoCounts
    <3>1. f \in [Protos -> Nat] /\ \A p \in Protos : f[p] = 0
      BY <2>1
    <3> HIDE DEF f
    <3>2. SumAll(f) = 0
      BY <3>1, NamesAssumption, SumOfZeros
    <3> QED
      BY <3>2 DEF f
  <2>3. SumAll(agg.ipCounts) = 0
    <3> DEFINE f == agg.ipCounts
    <3>1. f \in [IPs -> Nat] /\ \A a \in IPs : f[a] = 0
      BY <2>1
    <3> HIDE DEF f
    <3>2. SumAll(f) = 0
      BY <3>1, NamesAssumption, SumOfZeros
    <3> QED
      BY <3>2 DEF f
  <2>4. ASSUME NEW a \in IPs PROVE SumAll(FromSource(agg, a)) = agg.ipCounts[a]
    <3> DEFINE f == FromSource(agg, a)
    <3>1. f \in [IPs \X IPs -> Nat] /\ \A c \in IPs \X IPs : f[c] = 0
      BY <2>1 DEF FromSource
    <3> HIDE DEF f
    <3>2. SumAll(f) = 0
      BY <3>1, PairsFinite, SumOfZeros
    <3> QED
      BY <2>1, <3>2 DEF f
  <2> QED
    BY <2>1, <2>2, <2>3, <2>4 DEF KeysAddUp
<1>2. TypeOK /\ KeysAddUp(agg) /\ [Next]_vars => KeysAddUp(agg)'
  <2> SUFFICES ASSUME TypeOK, KeysAddUp(agg), [Next]_vars PROVE KeysAddUp(agg')
    OBVIOUS
  <2>1. ASSUME NEW k \in Kinds, Add(k) PROVE KeysAddUp(agg')
    BY <2>1, KeysCounted DEF Add, TypeOK
  <2>2. CASE TickSecond
    <3>1. /\ agg'.totalPkts = agg.totalPkts /\ agg'.protoCounts = agg.protoCounts
          /\ agg'.ipCounts = agg.ipCounts /\ agg'.connections = agg.connections
      BY <2>2 DEF TickSecond, TypeOK, Aggregates
    <3> QED
      BY <3>1 DEF KeysAddUp, FromSource
  <2>3. CASE UNCHANGED agg
    BY <2>3
  <2> QED
    BY <2>1, <2>2, <2>3
    DEF Next, Send, Deliver, Drop, SendOnClosed, Subscribe, Unsubscribe, Receive, vars, aggVars
<1> QED
  BY <1>1, <1>2, TypeCorrect, PTL DEF Spec

\* The keys that count something.
Busy(counts) == {k \in DOMAIN counts : counts[k] > 0}

\* A top list names keys once each, and all of them when nothing was cut.
LEMMA TopListed ==
  ASSUME NEW D, IsFiniteSet(D), NEW counts \in [D -> Nat], NEW n \in Nat,
         NEW s \in TopLists(counts, n)
  PROVE  /\ IsFiniteSet(DOMAIN s) /\ s \in [DOMAIN s -> D]
         /\ \A i, j \in DOMAIN s : s[i] = s[j] => i = j
         /\ Cardinality(Busy(counts)) <= n => {s[i] : i \in DOMAIN s} = Busy(counts)
<1> DEFINE B == Busy(counts)
           C == Cardinality(B)
<1>1. PICK f \in SetToSeqs(B) : s = SubSeq(f, 1, Min({n, Len(f)}))
  BY DEF TopLists, Busy
<1>2. B \subseteq D /\ IsFiniteSet(B) /\ C \in Nat
  BY FS_Subset, FS_CardinalityType DEF Busy
<1> HIDE DEF B, C
<1>3. f \in [1..C -> B] /\ \A i, j \in 1..C : f[i] = f[j] => i = j
  BY <1>1 DEF SetToSeqs, C
<1>4. f \in Seq(B) /\ Len(f) = C
  BY <1>2, <1>3
<1> DEFINE m == IF n <= C THEN n ELSE C
<1>5. Min({n, Len(f)}) = m
  <2>1. m \in {n, C} /\ \A y \in {n, C} : m <= y
    BY <1>2
  <2>2. \A x \in {n, C} : (\A y \in {n, C} : x <= y) => x = m
    BY <1>2
  <2> HIDE DEF m
  <2>3. (CHOOSE x \in {n, C} : \A y \in {n, C} : x <= y) = m
    BY <2>1, <2>2
  <2> QED
    BY <1>4, <2>3 DEF Min
<1>6. m \in Nat /\ m <= C /\ (C <= n => m = C)
  BY <1>2
<1> HIDE DEF m
<1>7. s \in Seq(B) /\ Len(s) = m /\ \A i \in 1..m : s[i] = f[i] /\ i \in 1..C
  <2>1. s = SubSeq(f, 1, m) /\ \A i \in 1..m : f[i] \in B
    <3>1. \A i \in 1..m : i \in 1..C
      BY <1>2, <1>6
    <3> QED
      BY <1>1, <1>3, <1>5, <3>1
  <2>2. /\ s \in Seq(B)
        /\ Len(s) = IF 1 <= m THEN m - 1 + 1 ELSE 0
        /\ \A i \in 1..m - 1 + 1 : s[i] = f[1 + i - 1]
    BY <1>6, <2>1, SubSeqProperties
  <2>3. Len(s) = m /\ \A i \in 1..m : s[i] = f[i]
    BY <1>6, <2>2
  <2> QED
    BY <1>2, <1>6, <2>2, <2>3
<1>8. DOMAIN s = 1..m /\ s = [i \in 1..m |-> s[i]]
  BY <1>7, LenProperties
<1>9. s \in [DOMAIN s -> D] /\ IsFiniteSet(DOMAIN s)
  <2>1. IsFiniteSet(1..m)
    BY <1>6, FS_Interval
  <2>2. \A i \in 1..m : s[i] \in D
    BY <1>2, <1>3, <1>7
  <2> QED
    BY <1>8, <2>1, <2>2
<1>10. \A i, j \in DOMAIN s : s[i] = s[j] => i = j
  BY <1>3, <1>7, <1>8
<1>11. ASSUME C <= n PROVE {s[i] : i \in DOMAIN s} = B
  <2>1. m = C
    BY <1>6, <1>11
  <2>2. f \in Injection(1..C, B)
    BY <1>3 DEF Injection, IsInjective
  <2>3. Cardinality(1..C) = Cardinality(B)
    <3>1. Cardinality(1..C) = C
      BY <1>2, FS_Interval
    <3> QED
      BY <3>1 DEF C
  <2>4. f \in Surjection(1..C, B)
    BY <1>2, <2>2, <2>3, FS_Injection
  <2>5. \A b \in B : \E i \in 1..C : f[i] = b
    BY <2>4 DEF Surjection
  <2> QED
    BY <1>3, <1>7, <1>8, <2>1, <2>5
<1> QED
  BY <1>9, <1>10, <1>11 DEF B, C

\* The fields of a snapshot.
LEMMA SnapshotFields ==
  ASSUME agg \in Aggregates, NEW ips, NEW conns, NEW snap, snap = SnapshotOf(ips, conns)
  PROVE  /\ snap.total_pkts = agg.totalPkts /\ snap.protos = agg.protoCounts
         /\ snap.traffic = agg.trafficSecs
         /\ snap.connections = Cardinality(Busy(agg.connections))
         /\ snap.top_ips = Sources(ips) /\ snap.top_conns = Links(conns)
<1>1. Busy(agg.connections) = {c \in IPs \X IPs : agg.connections[c] > 0}
  <2>1. DOMAIN agg.connections = IPs \X IPs
    BY DEF Aggregates
  <2> QED
    BY <2>1 DEF Busy
<1> QED
  BY <1>1 DEF SnapshotOf

\* The graph counts each link at both its ends.
LEMMA EndsBalance ==
  ASSUME NEW I, IsFiniteSet(I), NEW A, IsFiniteSet(A),
         NEW c \in [I -> Nat], NEW src \in [I -> A], NEW dst \in [I -> A],
         NEW f, f = [a \in A |-> CountBy(I, src, c, a) + CountBy(I, dst, c, a)]
  PROVE  f \in [A -> Nat] /\ SumAll(f) = 2 * SumAll(c)
<1> DEFINE s == [a \in A |-> CountBy(I, src, c, a)]
           d == [a \in A |-> CountBy(I, dst, c, a)]
<1>1. ASSUME NEW key, NEW a PROVE CountBy(I, key, c, a) \in Nat
  <2> DEFINE at == [i \in I |-> IF key[i] = a THEN c[i] ELSE 0]
  <2>1. at \in [I -> Nat] /\ DOMAIN at = I
    OBVIOUS
  <2> HIDE DEF at
  <2>2. SumAll(at) \in Nat
    BY <2>1, SumProperties DEF SumAll
  <2> QED
    BY <2>2 DEF CountBy, at
<1>2. s \in [A -> Nat] /\ d \in [A -> Nat]
  BY <1>1
<1>3. \A a \in A : s[a] = CountBy(I, src, c, a)
  OBVIOUS
<1>4. \A a \in A : d[a] = CountBy(I, dst, c, a)
  OBVIOUS
<1>5. f \in [A -> Nat] /\ \A a \in A : f[a] = s[a] + d[a]
  BY <1>1
<1> HIDE DEF s, d
<1>6. SumAll(s) = SumAll(c)
  BY <1>2, <1>3, SumByKey
<1>7. SumAll(d) = SumAll(c)
  BY <1>2, <1>4, SumByKey
<1>8. SumAll(f) = SumAll(s) + SumAll(d)
  BY <1>2, <1>5, SumPlus
<1>9. SumAll(c) \in Nat
  <2>1. DOMAIN c = I
    OBVIOUS
  <2> QED
    BY <2>1, SumProperties DEF SumAll
<1> QED
  BY <1>5, <1>6, <1>7, <1>8, <1>9

\* In every reachable state, whatever the order of ties, each packet of a link of the
\* connection graph is counted at its two ends.
THEOREM GraphAlwaysBalances == Spec => []GraphBalances
<1>1. TypeOK => GraphBalances
  <2> SUFFICES ASSUME TypeOK, NEW snap \in Snapshots
               PROVE  Total(Nodes(snap)) = 2 * CountsOf(snap.top_conns)
    BY DEF GraphBalances
  <2>1. agg \in Aggregates /\ agg.connections \in [IPs \X IPs -> Nat]
    BY DEF TypeOK, Aggregates
  <2>2. PICK ips \in TopLists(agg.ipCounts, MaxTopIPs), conns \in TopLists(agg.connections, MaxTopConns) :
          snap = SnapshotOf(ips, conns)
    BY DEF Snapshots
  <2>3. snap.top_conns = Links(conns)
    BY <2>1, <2>2, SnapshotFields
  <2> DEFINE I == DOMAIN conns
             t == snap.top_conns
             A == {e.src : e \in ToSet(t)} \cup {e.dst : e \in ToSet(t)}
             c == [i \in I |-> agg.connections[conns[i]]]
             src == [i \in I |-> conns[i][1]]
             dst == [i \in I |-> conns[i][2]]
  <2>4. IsFiniteSet(I) /\ \A i \in I : conns[i] \in IPs \X IPs
    BY <2>1, PairsFinite, TopListed, TopAssumption
  <2> HIDE DEF I
  <2>5. DOMAIN t = I /\ \A i \in I : t[i].src = src[i] /\ t[i].dst = dst[i] /\ t[i].count = c[i]
    BY <2>3 DEF I, Links
  <2>6. c \in [I -> Nat] /\ src \in [I -> IPs] /\ dst \in [I -> IPs]
    BY <2>1, <2>4
  <2>7. A = {src[i] : i \in I} \cup {dst[i] : i \in I}
    BY <2>5 DEF ToSet
  <2>8. IsFiniteSet(A) /\ src \in [I -> A] /\ dst \in [I -> A]
    <3>1. A \subseteq IPs
      BY <2>6, <2>7
    <3>2. IsFiniteSet(A)
      BY <3>1, NamesAssumption, FS_Subset
    <3>3. src = [i \in I |-> src[i]] /\ dst = [i \in I |-> dst[i]]
      OBVIOUS
    <3> HIDE DEF A, src, dst
    <3> QED
      BY <2>7, <3>2, <3>3
  <2> HIDE DEF A, src, dst, c, t
  <2>9. CountsOf(t) = SumAll(c)
    <3>1. [i \in DOMAIN t |-> t[i].count] = c
      BY <2>5, <2>6
    <3> QED
      BY <2>4, <2>6, <3>1, TotalIsSum DEF CountsOf
  <2>10. ASSUME NEW a
        PROVE  /\ CountsWith(t, LAMBDA e : e.src = a) = CountBy(I, src, c, a)
               /\ CountsWith(t, LAMBDA e : e.dst = a) = CountBy(I, dst, c, a)
    <3> DEFINE ofsrc == [i \in I |-> IF src[i] = a THEN c[i] ELSE 0]
               ofdst == [i \in I |-> IF dst[i] = a THEN c[i] ELSE 0]
    <3>1. ofsrc \in [I -> Nat] /\ ofdst \in [I -> Nat]
      BY <2>6
    <3>2. /\ [i \in DOMAIN t |-> IF t[i].src = a THEN t[i].count ELSE 0] = ofsrc
          /\ [i \in DOMAIN t |-> IF t[i].dst = a THEN t[i].count ELSE 0] = ofdst
      BY <2>5
    <3> HIDE DEF ofsrc, ofdst
    <3>3. Total(ofsrc) = SumAll(ofsrc) /\ Total(ofdst) = SumAll(ofdst)
      BY <2>4, <3>1, TotalIsSum
    <3>4. CountsWith(t, LAMBDA e : e.src = a) = Total(ofsrc)
      BY <3>2 DEF CountsWith
    <3>5. CountsWith(t, LAMBDA e : e.dst = a) = Total(ofdst)
      BY <3>2 DEF CountsWith
    <3> QED
      BY <3>3, <3>4, <3>5 DEF CountBy, ofsrc, ofdst
  <2> DEFINE f == [a \in A |-> CountBy(I, src, c, a) + CountBy(I, dst, c, a)]
  <2>11. Nodes(snap) = f
    <3>1. Nodes(snap) = [a \in A |-> CountsWith(t, LAMBDA e : e.src = a) + CountsWith(t, LAMBDA e : e.dst = a)]
      BY DEF Nodes, A, t
    <3> QED
      BY <2>10, <3>1
  <2>12. f \in [A -> Nat] /\ SumAll(f) = 2 * SumAll(c)
    <3> DEFINE g == f
    <3>1. g = f
      OBVIOUS
    <3> HIDE DEF g
    <3>2. g \in [A -> Nat] /\ SumAll(g) = 2 * SumAll(c)
      BY <2>4, <2>6, <2>8, <3>1, EndsBalance
    <3> QED
      BY <3>1, <3>2
  <2> HIDE DEF f
  <2>13. Total(f) = SumAll(f)
    BY <2>8, <2>12, TotalIsSum
  <2> QED
    BY <2>9, <2>11, <2>12, <2>13 DEF t
<1> QED
  BY <1>1, TypeCorrect, PTL

\* The buckets of the chart up to the n-th are the packets between two boundaries.
LEMMA BucketsTelescope ==
  ASSUME TypeOK, RollingWindow, NEW n \in 0..Window
  PROVE  SumOver(agg.trafficSecs, 1..n) = marks[n + 1].pkts - marks[1].pkts
<1> DEFINE g == agg.trafficSecs
           Bad == {m \in 0..Window : SumOver(g, 1..m) # marks[m + 1].pkts - marks[1].pkts}
<1>1. /\ Window \in Nat \ {0} /\ g \in [1..Window -> Nat] /\ IsFiniteSet(1..Window)
      /\ \A i \in 1..Window + 1 : marks[i].pkts \in Nat
  <2>1. /\ Window \in Nat \ {0} /\ g \in Seq(Nat) /\ Len(g) = Window
        /\ marks \in Seq([pkts : Nat, bytes : Nat]) /\ Len(marks) = Window + 1
    BY SizesAssumption DEF TypeOK, Aggregates
  <2> HIDE DEF g
  <2>2. g \in [1..Window -> Nat]
    BY <2>1, LenProperties
  <2>3. \A i \in 1..Window + 1 : marks[i] \in [pkts : Nat, bytes : Nat]
    BY <2>1, ElementOfSeq
  <2>4. IsFiniteSet(1..Window)
    BY <2>1, FS_Interval
  <2> QED
    BY <2>1, <2>2, <2>3, <2>4
<1> SUFFICES ASSUME Bad # {} PROVE FALSE
  OBVIOUS
<1>2. PICK m \in Bad : \A k \in Bad : m <= k
  <2>1. Bad \in SUBSET Nat
    BY <1>1
  <2> HIDE DEF Bad
  <2> QED
    BY <2>1, LeastNumber
<1>3. m \in Nat /\ m <= Window /\ SumOver(g, 1..m) # marks[m + 1].pkts - marks[1].pkts
  BY <1>1, <1>2
<1> HIDE DEF g
<1>4. m # 0
  <2>1. 1..0 = {} /\ SumOver(g, {}) = 0
    BY <1>1, SumProperties
  <2>2. marks[0 + 1].pkts - marks[1].pkts = 0
    BY <1>1
  <2> QED
    BY <1>3, <2>1, <2>2
<1>5. m \in 1..m /\ (1..m) \ {m} = 1..m - 1 /\ 1..m \in SUBSET (1..Window) /\ m \in 1..Window
  BY <1>1, <1>3, <1>4
<1>6. SumOver(g, 1..m) = g[m] + SumOver(g, 1..m - 1)
  <2> DEFINE J == 1..m
             D == 1..Window
  <2>1. J \in SUBSET D /\ m \in J /\ J \ {m} = 1..m - 1 /\ g \in [D -> Nat] /\ IsFiniteSet(D)
    BY <1>1, <1>5
  <2> HIDE DEF J, D, Bad
  <2>2. SumOver(g, J) = g[m] + SumOver(g, J \ {m})
    BY <2>1, SumProperties
  <2> QED
    BY <2>1, <2>2 DEF J
<1>7. SumOver(g, 1..m - 1) = marks[m].pkts - marks[1].pkts
  <2>1. m - 1 \in 0..Window /\ m - 1 \notin Bad /\ m - 1 + 1 = m
    BY <1>1, <1>2, <1>3, <1>4
  <2> QED
    BY <2>1 DEF g
<1>8. g[m] = marks[m + 1].pkts - marks[m].pkts
  BY <1>5 DEF RollingWindow, g
<1>9. marks[m].pkts \in Nat /\ marks[m + 1].pkts \in Nat /\ marks[1].pkts \in Nat
  BY <1>1, <1>5
<1> QED
  BY <1>3, <1>6, <1>7, <1>8, <1>9

\* The chart holds no more than the total.
LEMMA ChartBounded ==
  ASSUME TypeOK, RollingWindow
  PROVE  Total(agg.trafficSecs) <= agg.totalPkts
<1> DEFINE g == agg.trafficSecs
<1>1. /\ Window \in Nat \ {0} /\ g \in Seq(Nat) /\ Len(g) = Window
      /\ marks \in Seq([pkts : Nat, bytes : Nat]) /\ Len(marks) = Window + 1
      /\ agg.curSecPkts \in Nat /\ agg.totalPkts \in Nat
  BY SizesAssumption DEF TypeOK, Aggregates
<1>2. agg.curSecPkts = agg.totalPkts - marks[Window + 1].pkts
  BY DEF RollingWindow
<1>3. SumOver(g, 1..Window) = marks[Window + 1].pkts - marks[1].pkts
  BY <1>1, BucketsTelescope
<1> HIDE DEF g
<1>4. g \in [1..Window -> Nat] /\ DOMAIN g = 1..Window /\ IsFiniteSet(1..Window)
  <2>1. g \in [1..Window -> Nat] /\ DOMAIN g = 1..Window
    BY <1>1, LenProperties
  <2>2. IsFiniteSet(1..Window)
    BY <1>1, FS_Interval
  <2> QED
    BY <2>1, <2>2
<1>5. Total(g) = SumOver(g, 1..Window)
  BY <1>4, TotalIsSum DEF SumAll
<1>6. marks[1].pkts \in Nat /\ marks[Window + 1].pkts \in Nat
  <2>1. 1 \in 1..Len(marks) /\ Window + 1 \in 1..Len(marks)
    BY <1>1
  <2>2. marks[1] \in [pkts : Nat, bytes : Nat] /\ marks[Window + 1] \in [pkts : Nat, bytes : Nat]
    BY <1>1, <2>1, ElementOfSeq
  <2> QED
    BY <2>2
<1> QED
  BY <1>1, <1>2, <1>3, <1>5, <1>6 DEF g

\* The sources listed have no more packets than there are.
LEMMA SourcesBounded ==
  ASSUME agg \in Aggregates, KeysAddUp(agg), NEW ips \in TopLists(agg.ipCounts, MaxTopIPs)
  PROVE  CountsOf(Sources(ips)) <= agg.totalPkts
<1> DEFINE I == DOMAIN ips
           g == agg.ipCounts
<1>1. g \in [IPs -> Nat] /\ SumAll(g) = agg.totalPkts
  BY DEF Aggregates, KeysAddUp
<1>2. /\ IsFiniteSet(I) /\ ips \in [I -> IPs]
      /\ \A i, j \in I : ips[i] = ips[j] => i = j
  BY <1>1, NamesAssumption, TopAssumption, TopListed
<1> DEFINE c == [i \in I |-> g[ips[i]]]
           R == {ips[i] : i \in I}
<1>3. [i \in DOMAIN Sources(ips) |-> Sources(ips)[i].count] = c
  BY DEF Sources
<1> HIDE DEF I, g
<1>4. c \in [I -> Nat]
  BY <1>1, <1>2
<1>5. R \in SUBSET IPs
  BY <1>2
<1>6. SumAll(c) = SumOver(g, R)
  BY <1>1, <1>2, NamesAssumption, SumRenamed
<1> HIDE DEF c, R
<1>7. SumOver(g, R) <= SumAll(g)
  BY <1>1, <1>5, NamesAssumption, SumPart
<1>8. Total(c) = SumAll(c)
  BY <1>2, <1>4, TotalIsSum
<1>9. CountsOf(Sources(ips)) = Total(c)
  BY <1>3 DEF CountsOf
<1> QED
  BY <1>1, <1>6, <1>7, <1>8, <1>9

\* What the map places of a source is what was counted for it, or less when cut.
LEMMA SourceLocated ==
  ASSUME agg \in Aggregates, KeysAddUp(agg), NEW a \in IPs,
         NEW conns \in TopLists(agg.connections, MaxTopConns)
  PROVE  /\ CountsWith(Links(conns), LAMBDA e : e.src = a) <= agg.ipCounts[a]
         /\ Cardinality(Busy(agg.connections)) <= MaxTopConns
              => CountsWith(Links(conns), LAMBDA e : e.src = a) = agg.ipCounts[a]
<1> DEFINE I == DOMAIN conns
           P == IPs \X IPs
           g == FromSource(agg, a)
           c == [i \in I |-> g[conns[i]]]
           R == {conns[i] : i \in I}
           B == Busy(agg.connections)
<1>1. agg.connections \in [P -> Nat]
  BY DEF Aggregates
<1>2. g \in [P -> Nat] /\ SumAll(g) = agg.ipCounts[a]
  BY <1>1 DEF KeysAddUp, FromSource
<1>3. /\ IsFiniteSet(I) /\ conns \in [I -> P]
      /\ \A i, j \in I : conns[i] = conns[j] => i = j
      /\ Cardinality(B) <= MaxTopConns => R = B
  BY <1>1, PairsFinite, TopAssumption, TopListed
<1>4. [i \in DOMAIN Links(conns) |->
         IF Links(conns)[i].src = a THEN Links(conns)[i].count ELSE 0] = c
  <2>1. \A i \in I : g[conns[i]] = IF conns[i][1] = a THEN agg.connections[conns[i]] ELSE 0
    BY <1>3 DEF FromSource
  <2>2. DOMAIN Links(conns) = I
    BY DEF Links
  <2>3. \A i \in I : Links(conns)[i].src = conns[i][1] /\ Links(conns)[i].count = agg.connections[conns[i]]
    BY DEF Links
  <2> HIDE DEF I, g
  <2> QED
    BY <2>1, <2>2, <2>3
<1>5. \A x \in P \ B : g[x] = 0
  <2>1. \A x \in P \ B : agg.connections[x] = 0
    BY <1>1 DEF Busy
  <2> QED
    BY <2>1 DEF FromSource
<1> HIDE DEF I, P, g, B
<1>6. c \in [I -> Nat] /\ R \in SUBSET P
  BY <1>2, <1>3
<1>7. IsFiniteSet(P)
  BY PairsFinite DEF P
<1>8. SumAll(c) = SumOver(g, R)
  BY <1>2, <1>3, <1>7, SumRenamed
<1> HIDE DEF c, R
<1>9. SumOver(g, R) <= SumAll(g) /\ ((\A x \in P \ R : g[x] = 0) => SumOver(g, R) = SumAll(g))
  BY <1>2, <1>6, <1>7, SumPart
<1>10. CountsWith(Links(conns), LAMBDA e : e.src = a) = SumAll(c)
  <2>1. Total(c) = SumAll(c)
    BY <1>3, <1>6, TotalIsSum
  <2>2. CountsWith(Links(conns), LAMBDA e : e.src = a) = Total(c)
    BY <1>4 DEF CountsWith
  <2> QED
    BY <2>1, <2>2
<1>11. CountsWith(Links(conns), LAMBDA e : e.src = a) <= agg.ipCounts[a]
  BY <1>2, <1>8, <1>9, <1>10
<1>12. ASSUME Cardinality(B) <= MaxTopConns
       PROVE  CountsWith(Links(conns), LAMBDA e : e.src = a) = agg.ipCounts[a]
  <2>1. \A x \in P \ R : g[x] = 0
    BY <1>3, <1>5, <1>12
  <2> QED
    BY <1>2, <1>8, <1>9, <1>10, <2>1
<1> QED
  BY <1>11, <1>12 DEF B

\* In every reachable state and whatever the order of ties, protocols, chart, top sources
\* and map of one snapshot agree with its total and with the counters.
THEOREM DashboardAlwaysAgrees == Spec => []DashboardAgrees
<1>1. TypeOK /\ RollingWindow /\ KeysAddUp(agg) => DashboardAgrees
  <2> SUFFICES ASSUME TypeOK, RollingWindow, KeysAddUp(agg), NEW snap \in Snapshots
               PROVE  /\ Total(snap.protos) = snap.total_pkts
                      /\ Total(snap.traffic) <= snap.total_pkts
                      /\ CountsOf(snap.top_ips) <= snap.total_pkts
                      /\ \A a \in DOMAIN Located(snap) :
                           /\ Located(snap)[a] <= agg.ipCounts[a]
                           /\ snap.connections <= MaxTopConns => Located(snap)[a] = agg.ipCounts[a]
    BY DEF DashboardAgrees
  <2>1. agg \in Aggregates /\ agg.protoCounts \in [Protos -> Nat] /\ agg.connections \in [IPs \X IPs -> Nat]
    BY DEF TypeOK, Aggregates
  <2>2. PICK ips \in TopLists(agg.ipCounts, MaxTopIPs), conns \in TopLists(agg.connections, MaxTopConns) :
          snap = SnapshotOf(ips, conns)
    BY DEF Snapshots
  <2>3. /\ snap.total_pkts = agg.totalPkts /\ snap.protos = agg.protoCounts
        /\ snap.traffic = agg.trafficSecs
        /\ snap.connections = Cardinality(Busy(agg.connections))
        /\ snap.top_ips = Sources(ips) /\ snap.top_conns = Links(conns)
    BY <2>1, <2>2, SnapshotFields
  <2>4. Total(snap.protos) = snap.total_pkts
    <3> DEFINE g == agg.protoCounts
    <3>1. g \in [Protos -> Nat] /\ SumAll(g) = agg.totalPkts
      BY <2>1 DEF KeysAddUp
    <3> HIDE DEF g
    <3>2. Total(g) = agg.totalPkts
      BY <3>1, NamesAssumption, TotalIsSum
    <3> QED
      BY <2>3, <3>2 DEF g
  <2>5. Total(snap.traffic) <= snap.total_pkts
    BY <2>3, ChartBounded
  <2>6. CountsOf(snap.top_ips) <= snap.total_pkts
    BY <2>1, <2>3, SourcesBounded
  <2>7. ASSUME NEW a \in DOMAIN Located(snap)
        PROVE  /\ Located(snap)[a] <= agg.ipCounts[a]
               /\ snap.connections <= MaxTopConns => Located(snap)[a] = agg.ipCounts[a]
    <3> DEFINE t == Links(conns)
    <3>1. Located(snap) = [b \in {e.src : e \in ToSet(t)} \cap Placed |->
                             CountsWith(t, LAMBDA e : e.src = b)]
      BY <2>3 DEF Located
    <3>2. a \in {e.src : e \in ToSet(t)}
      BY <3>1
    <3>3. a \in IPs
      <4>1. \A i \in DOMAIN conns : conns[i] \in IPs \X IPs
        BY <2>1, PairsFinite, TopAssumption, TopListed
      <4>2. DOMAIN t = DOMAIN conns /\ \A i \in DOMAIN conns : t[i].src = conns[i][1]
        BY DEF Links
      <4> HIDE DEF t
      <4> QED
        BY <3>2, <4>1, <4>2 DEF ToSet
    <3>4. Located(snap)[a] = CountsWith(t, LAMBDA e : e.src = a)
      BY <3>1, <3>2
    <3> QED
      BY <2>1, <2>3, <3>3, <3>4, SourceLocated
  <2> QED
    BY <2>4, <2>5, <2>6, <2>7
<1> QED
  BY <1>1, TypeCorrect, WindowsExact, KeysAlwaysAddUp, PTL
-----------------------------------------------------------------------------
(* That there is a snapshot *)

\* f names the elements of B once each, busiest first.
Ranked(f, B, counts) ==
  /\ f \in [1..Cardinality(B) -> B]
  /\ \A i, j \in 1..Cardinality(B) : i # j => f[i] # f[j]
  /\ \A i, j \in 1..Cardinality(B) : i < j => counts[f[i]] >= counts[f[j]]

\* Whoever counts least goes to the end.
LEMMA RankedMore ==
  ASSUME NEW I, IsFiniteSet(I), NEW counts, NEW x \in I, \A y \in I : counts[y] \in Nat /\ counts[x] <= counts[y],
         NEW f, Ranked(f, I \ {x}, counts)
  PROVE  \E g : Ranked(g, I, counts)
<1>1. PICK c : c = Cardinality(I \ {x})
  OBVIOUS
<1>2. c \in Nat /\ Cardinality(I) = c + 1
  <2>1. IsFiniteSet(I \ {x}) /\ x \notin I \ {x} /\ (I \ {x}) \cup {x} = I
    BY FS_Subset
  <2>2. Cardinality((I \ {x}) \cup {x}) = Cardinality(I \ {x}) + 1
    BY <2>1, FS_AddElement
  <2> QED
    BY <1>1, <2>1, <2>2, FS_CardinalityType
<1>3. /\ f \in [1..c -> I \ {x}]
      /\ \A i, j \in 1..c : i # j => f[i] # f[j]
      /\ \A i, j \in 1..c : i < j => counts[f[i]] >= counts[f[j]]
  BY <1>1 DEF Ranked
<1> DEFINE g == [i \in 1..c + 1 |-> IF i = c + 1 THEN x ELSE f[i]]
<1>4. \A i \in 1..c + 1 : i = c + 1 \/ i \in 1..c
  BY <1>2
<1>5. \A i \in 1..c : f[i] \in I /\ f[i] # x
  BY <1>3
<1>6. \A i \in 1..c : i # c + 1 /\ i < c + 1
  BY <1>2
<1>7. g \in [1..c + 1 -> I] /\ g[c + 1] = x /\ \A i \in 1..c : g[i] = f[i]
  BY <1>2, <1>4, <1>5, <1>6
<1> HIDE DEF g
<1>8. ASSUME NEW i \in 1..c + 1, NEW j \in 1..c + 1, i # j PROVE g[i] # g[j]
  BY <1>3, <1>4, <1>5, <1>7, <1>8
<1>9. ASSUME NEW i \in 1..c + 1, NEW j \in 1..c + 1, i < j PROVE counts[g[i]] >= counts[g[j]]
  <2>1. i \in 1..c
    BY <1>2, <1>9
  <2>2. CASE j = c + 1
    <3>1. counts[x] <= counts[f[i]] /\ counts[f[i]] \in Nat /\ counts[x] \in Nat
      BY <1>5, <2>1
    <3> QED
      BY <1>7, <2>1, <2>2, <3>1
  <2>3. CASE j \in 1..c
    BY <1>3, <1>7, <1>9, <2>1, <2>3
  <2> QED
    BY <1>4, <2>2, <2>3
<1>10. Ranked(g, I, counts)
  BY <1>2, <1>7, <1>8, <1>9 DEF Ranked
<1> QED
  BY <1>10

\* Any finite set of keys can be ranked by its counts.
LEMMA RankingExists ==
  ASSUME NEW D, IsFiniteSet(D), NEW counts \in [D -> Nat], NEW B \in SUBSET D
  PROVE  \E f : Ranked(f, B, counts)
<1> DEFINE T == {I \in SUBSET D : ~\E f : Ranked(f, I, counts)}
<1>1. CASE T = {}
  BY <1>1
<1>2. CASE T # {}
  <2>1. PICK I \in T : \A x \in I : I \ {x} \notin T
    BY <1>2, SmallestSet
  <2>2. I \in SUBSET D /\ IsFiniteSet(I) /\ ~\E f : Ranked(f, I, counts)
    BY <2>1, FS_Subset
  <2>3. ASSUME NEW x \in I PROVE \E f : Ranked(f, I \ {x}, counts)
    BY <2>1, <2>2
  <2> HIDE DEF T
  <2>4. I # {}
    <3>1. SUFFICES ASSUME I = {} PROVE FALSE
      OBVIOUS
    <3>2. Cardinality(I) = 0
      BY <3>1, FS_EmptySet
    <3>3. Ranked([i \in 1..0 |-> 0], I, counts)
      BY <3>1, <3>2 DEF Ranked
    <3> QED
      BY <2>2, <3>3
  <2>5. {counts[y] : y \in I} \in SUBSET Nat /\ {counts[y] : y \in I} # {}
    BY <2>2, <2>4
  <2>6. PICK m \in {counts[y] : y \in I} : \A k \in {counts[y] : y \in I} : m <= k
    BY <2>5, LeastNumber
  <2>7. PICK x \in I : counts[x] = m
    BY <2>6
  <2>8. \A y \in I : counts[y] \in Nat /\ counts[x] <= counts[y]
    BY <2>2, <2>6, <2>7
  <2>9. PICK f : Ranked(f, I \ {x}, counts)
    BY <2>3
  <2> QED
    BY <2>2, <2>8, <2>9, RankedMore
<1> QED
  BY <1>1, <1>2

\* A top list always exists: the dashboard never waits for one.
LEMMA TopListExists ==
  ASSUME NEW D, IsFiniteSet(D), NEW counts \in [D -> Nat], NEW n
  PROVE  TopLists(counts, n) # {}
<1> DEFINE B == {k \in DOMAIN counts : counts[k] > 0}
<1>1. B \in SUBSET D
  OBVIOUS
<1>2. PICK f : Ranked(f, B, counts)
  BY <1>1, RankingExists
<1> HIDE DEF B
<1>3. f \in SetToSeqs(B) /\ DOMAIN f = 1..Cardinality(B)
  BY <1>2 DEF Ranked, SetToSeqs
<1>4. \A i, j \in DOMAIN f : i < j => counts[f[i]] >= counts[f[j]]
  BY <1>2, <1>3 DEF Ranked
<1>5. SubSeq(f, 1, Min({n, Len(f)})) \in TopLists(counts, n)
  BY <1>3, <1>4 DEF TopLists, B
<1> QED
  BY <1>5

\* Whatever has been counted, there is a way to rank it and a snapshot to take: what is
\* said of every snapshot of the store is not said of none.
THEOREM SnapshotsExist == Spec => [](Snapshots # {})
<1>1. TypeOK => Snapshots # {}
  <2> SUFFICES ASSUME TypeOK PROVE Snapshots # {}
    OBVIOUS
  <2>1. agg.ipCounts \in [IPs -> Nat] /\ agg.connections \in [IPs \X IPs -> Nat]
    BY DEF TypeOK, Aggregates
  <2>2. IsFiniteSet(IPs) /\ IsFiniteSet(IPs \X IPs)
    BY NamesAssumption, PairsFinite
  <2>3. PICK ips \in TopLists(agg.ipCounts, MaxTopIPs) : TRUE
    BY <2>1, <2>2, TopListExists
  <2>4. PICK conns \in TopLists(agg.connections, MaxTopConns) : TRUE
    BY <2>1, <2>2, TopListExists
  <2> QED
    BY <2>3, <2>4 DEF Snapshots
<1> QED
  BY <1>1, TypeCorrect, PTL
-----------------------------------------------------------------------------
(* The feed *)

\* A step of the feed is a step of the store or leaves it alone.
LEMMA FeedStep == [LiveNext]_liveVars => [Next]_vars
<1> SUFFICES ASSUME [LiveNext]_liveVars PROVE [Next]_vars
  OBVIOUS
<1>1. ASSUME NEW h \in Handlers, Connect(h) \/ Depart(h) \/ Handle(h) PROVE [Next]_vars
  <2>1. h \in Chans
    BY DEF Handlers
  <2>2. Subscribe(h) \/ Receive(h) \/ Unsubscribe(h) \/ UNCHANGED vars
    BY <1>1 DEF Connect, Depart, Handle, Take, EnrichPanics, Insert, WritePacket, Return, Cleanup
  <2> QED
    BY <2>1, <2>2 DEF Next
<1>2. CASE StartEngine \/ Ingest
  BY <1>2, EngineAssumption DEF StartEngine, Ingest, Next
<1>3. CASE (\E k \in Kinds : Capture(k)) \/ Fanout \/ Second
  BY <1>3 DEF Capture, Fanout, Second, Next
<1>4. CASE StartPCAP \/ StopPCAP \/ UNCHANGED liveVars
  BY <1>4 DEF StartPCAP, StopPCAP, liveVars
<1> QED
  BY <1>1, <1>2, <1>3, <1>4 DEF LiveNext

\* Whatever the handlers, the engine and the exporter do, the store moves by its
\* own operations only.
THEOREM FeedUsesStore == LiveSpec => Spec
<1>1. LiveInit => Init
  BY DEF LiveInit
<1> QED
  BY <1>1, FeedStep, PTL DEF LiveSpec, Spec

\* In the composed feed, too, viewers and engine get packets in capture order
\* and account for every one of them.
THEOREM FeedDelivers == LiveSpec => [](TypeOK /\ SubscribersOpen /\ OrderedDelivery /\ NoGap)
BY FeedUsesStore, TypeCorrect, ListIsOpen, DeliveryOrdered, NothingGoesMissing, PTL

-----------------------------------------------------------------------------
\* The program counters and the requests; what makes the two theorems inductive:
\* a handler past its select has a done context or was derailed, a panic leaves the
\* closed channel at the head of the list.
Ownership ==
  /\ pc \in [Handlers -> {"absent", "select", "insert", "record", "leaving", "gone"}]
  /\ ChannelOwned
  /\ \A h \in Handlers : pc[h] \in {"leaving", "gone"} => h \in done \/ Derailed(h)
  /\ panicked => subs # <<>> /\ status[Head(subs)] = "closed"

\* The start: no handler, no subscription.
LEMMA OwnershipInit == LiveInit => Ownership
BY EngineAssumption DEF LiveInit, Init, Ownership, ChannelOwned, Handlers

\* What was taken stays taken, and packets stay what they are.
LEMMA DerailedStays ==
  ASSUME TypeOK, OrderedDelivery, [LiveNext]_liveVars, NEW h \in Handlers, Derailed(h)
  PROVE  Derailed(h)'
<1>1. h \in Chans /\ captured \in Seq(Kinds) /\ received \in [Chans -> Seq(Nat)] /\ buf[h] \in Seq(Nat)
  BY DEF TypeOK, Handlers
<1>2. PICK i \in 1..Len(received[h]) : LocatePanics(captured[received[h][i]])
  BY <1>1 DEF Derailed
<1>3. received[h][i] \in 1..Len(captured)
  <2>1. i \in DOMAIN Reached(h) /\ Reached(h)[i] = received[h][i]
    BY <1>1 DEF Reached
  <2>2. joined[h] < received[h][i] /\ received[h][i] <= Len(captured)
    BY <2>1, <1>1 DEF OrderedDelivery, InOrder
  <2> QED
    BY <2>2, <1>1 DEF TypeOK
<1>4. captured' = captured \/ \E k \in Kinds : captured' = Append(captured, k)
  BY FeedStep DEF Next, Add, Send, Deliver, Drop, SendOnClosed, TickSecond, Subscribe, Unsubscribe,
     Receive, vars, aggVars
<1>5. captured'[received[h][i]] = captured[received[h][i]]
  BY <1>1, <1>3, <1>4
<1>6. received' = received \/ \E c \in Chans : buf[c] # <<>> /\ received' = [received EXCEPT ![c] = Append(@, Head(buf[c]))]
  BY FeedStep DEF Next, Add, Send, Deliver, Drop, SendOnClosed, TickSecond, Subscribe, Unsubscribe,
     Receive, vars, feedVars, histVars
<1>7. i \in DOMAIN received'[h] /\ received'[h][i] = received[h][i]
  <2>1. \A c \in Chans : buf[c] # <<>> => Head(buf[c]) \in Nat
    BY HeadTailProperties DEF TypeOK
  <2>2. received'[h] = received[h] \/ \E n \in Nat : received'[h] = Append(received[h], n)
    BY <1>1, <1>6, <2>1
  <2>3. received[h] \in Seq(Nat) /\ i \in 1..Len(received[h])
    BY <1>1, <1>2
  <2> QED
    BY <2>2, <2>3
<1> QED
  BY <1>2, <1>5, <1>7 DEF Derailed, LocatePanics

\* A handler whose Enrich panics is derailed.
LEMMA PanicDerails ==
  ASSUME TypeOK, NEW h \in Handlers, EnrichPanics(h)
  PROVE  Derailed(h)'
<1>1. /\ h \in Chans /\ buf[h] \in Seq(Nat) /\ buf[h] # <<>> /\ received \in [Chans -> Seq(Nat)]
      /\ received' = [received EXCEPT ![h] = Append(@, Head(buf[h]))] /\ captured' = captured
      /\ LocatePanics(captured[Head(buf[h])])
  BY DEF EnrichPanics, Receive, TypeOK, Handlers, aggVars
<1>2. Head(buf[h]) \in Nat
  BY <1>1, HeadTailProperties
<1>3. /\ Len(received[h]) + 1 \in DOMAIN received'[h]
      /\ received'[h][Len(received[h]) + 1] = Head(buf[h])
  BY <1>1, <1>2
<1> QED
  BY <1>1, <1>3 DEF Derailed, LocatePanics

\* Every step of the feed keeps the ownership of the channels.
LEMMA OwnershipStep ==
  TypeOK /\ SubscribersOpen /\ OrderedDelivery /\ Ownership /\ [LiveNext]_liveVars => Ownership'
<1> SUFFICES ASSUME TypeOK, SubscribersOpen, OrderedDelivery, Ownership, [LiveNext]_liveVars
             PROVE  Ownership'
  OBVIOUS
<1>d. \A h \in Handlers : Derailed(h) => Derailed(h)'
  BY DerailedStays
<1>0. status \in [Chans -> {"unmade", "open", "closed"}] /\ Handlers \subseteq Chans
  BY DEF TypeOK, Handlers
<1>1. ASSUME NEW h \in Handlers, Connect(h) PROVE Ownership'
  <2>1. /\ pc[h] = "absent" /\ pc' = [pc EXCEPT ![h] = "select"] /\ done' = done
        /\ status' = [status EXCEPT ![h] = "open"] /\ ~panicked /\ panicked' = panicked
    BY <1>1 DEF Connect, Subscribe
  <2> QED
    BY <2>1, <1>0, EngineAssumption, <1>d DEF Ownership, ChannelOwned, Handlers
<1>2. ASSUME NEW h \in Handlers, Depart(h) PROVE Ownership'
  BY <1>2, <1>d DEF Depart, Ownership, ChannelOwned, vars, feedVars
<1>3. ASSUME NEW h \in Handlers, Take(h) \/ Insert(h) \/ WritePacket(h) PROVE Ownership'
  <2>1. /\ pc[h] \in {"select", "insert", "record"} /\ UNCHANGED <<status, done>>
        /\ \E l \in {"select", "insert", "record"} : pc' = [pc EXCEPT ![h] = l]
        /\ ~panicked /\ panicked' = panicked
    BY <1>3 DEF Take, Receive, Insert, WritePacket, vars, feedVars
  <2> QED
    BY <2>1, <1>d DEF Ownership, ChannelOwned
<1>4. ASSUME NEW h \in Handlers, Return(h) \/ EnrichPanics(h) PROVE Ownership'
  <2>1. /\ pc[h] = "select" /\ (h \in done \/ Derailed(h)') /\ UNCHANGED <<status, done>>
        /\ pc' = [pc EXCEPT ![h] = "leaving"] /\ ~panicked /\ panicked' = panicked
    BY <1>4, PanicDerails DEF Return, EnrichPanics, Receive, vars, feedVars
  <2> QED
    BY <2>1, <1>d DEF Ownership, ChannelOwned
<1>5. ASSUME NEW h \in Handlers, Cleanup(h) PROVE Ownership'
  <2>1. /\ pc[h] = "leaving" /\ pc' = [pc EXCEPT ![h] = "gone"] /\ done' = done
        /\ status' = [status EXCEPT ![h] = "closed"] /\ ~panicked /\ panicked' = panicked
    BY <1>5 DEF Cleanup, Unsubscribe
  <2> QED
    BY <2>1, <1>0, EngineAssumption, <1>d DEF Ownership, ChannelOwned, Handlers
<1>6. CASE StartEngine
  <2>1. /\ UNCHANGED <<pc, done>> /\ status[Engine] = "unmade"
        /\ status' = [status EXCEPT ![Engine] = "open"] /\ ~panicked /\ panicked' = panicked
    BY <1>6 DEF StartEngine, Subscribe, handlerVars
  <2> QED
    BY <2>1, <1>0, EngineAssumption, <1>d DEF Ownership, ChannelOwned, Handlers
<1>7. CASE Ingest \/ Second \/ \E k \in Kinds : Capture(k)
  <2>1. UNCHANGED <<pc, done, status>> /\ ~panicked /\ panicked' = panicked
    BY <1>7 DEF Ingest, Receive, Second, TickSecond, Capture, Add, handlerVars, feedVars
  <2> QED
    BY <2>1, <1>d DEF Ownership, ChannelOwned
<1>8. CASE Fanout
  <2>1. UNCHANGED <<pc, done, status>> /\ ~panicked
    BY <1>8 DEF Fanout, Send, Deliver, Drop, SendOnClosed, handlerVars
  <2>2. CASE Deliver \/ Drop
    <3>1. ~panicked'
      BY <2>2, <2>1 DEF Deliver, Drop
    <3> QED
      BY <2>1, <3>1, <1>d DEF Ownership, ChannelOwned
  <2>3. CASE SendOnClosed
    <3>1. subs' # <<>> /\ status'[Head(subs')] = "closed"
      BY <2>3 DEF SendOnClosed
    <3> QED
      BY <2>1, <3>1, <1>d DEF Ownership, ChannelOwned
  <2> QED
    BY <1>8, <2>2, <2>3 DEF Fanout, Send
<1>9. CASE StartPCAP \/ StopPCAP \/ UNCHANGED liveVars
  <2>1. UNCHANGED <<pc, done, status, subs, panicked>>
    BY <1>9 DEF StartPCAP, StopPCAP, liveVars, handlerVars, vars, feedVars
  <2> QED
    BY <2>1, <1>d DEF Ownership, ChannelOwned
<1> QED
  BY <1>1, <1>2, <1>3, <1>4, <1>5, <1>6, <1>7, <1>8, <1>9 DEF LiveNext, Handle

\* Ownership is invariant, with the type invariant of the store it rests on.
LEMMA FeedOwnership == LiveSpec => [](TypeOK /\ Ownership)
BY FeedDelivers, OwnershipInit, OwnershipStep, PTL DEF LiveSpec

\* A handler's channel is in the list exactly while the handler runs, and the
\* engine's channel is never closed.
THEOREM FeedChannelOwned == LiveSpec => []ChannelOwned
<1>1. Ownership => ChannelOwned
  BY DEF Ownership
<1> QED
  BY <1>1, FeedOwnership, PTL

\* The process never dies of a client that is still connected and whose handler did not
\* panic.
THEOREM FeedPanicNeedsDeparture == LiveSpec => []PanicNeedsDeparture
<1>1. TypeOK /\ Ownership => PanicNeedsDeparture
  <2> SUFFICES ASSUME TypeOK, Ownership, panicked PROVE subs # <<>> /\ (Head(subs) \in done \/ Derailed(Head(subs)))
    BY DEF PanicNeedsDeparture
  <2>1. subs # <<>> /\ status[Head(subs)] = "closed" /\ Head(subs) \in Chans
    BY HeadTailProperties DEF Ownership, TypeOK
  <2>2. Head(subs) # Engine
    BY <2>1 DEF Ownership, ChannelOwned
  <2> QED
    BY <2>1, <2>2 DEF Ownership, ChannelOwned, Handlers
<1> QED
  BY <1>1, FeedOwnership, PTL

-----------------------------------------------------------------------------
(* What is stored *)

Entry == [pkt : Nat, by : Handlers]

\* What a handler stored, in order and taken from its channel; of the packet it works
\* on, nothing yet while its pc is in before.
Kept(s, before) ==
  /\ s \in Seq(Entry)
  /\ \A i, j \in 1..Len(s) : i < j /\ s[i].by = s[j].by => s[i].pkt < s[j].pkt
  /\ \A i \in 1..Len(s) : /\ s[i].pkt \in ToSet(received[s[i].by])
                          /\ pc[s[i].by] \in before => s[i].pkt < pkt[s[i].by]

Storing ==
  /\ pkt \in [Handlers -> Nat] /\ done \subseteq Handlers /\ recording \in BOOLEAN
  /\ \A h \in Handlers : pkt[h] # 0 <=> pc[h] \in {"insert", "record"}
  /\ \A h \in Handlers : pc[h] \in {"insert", "record"} => pkt[h] \in ToSet(received[h])
  /\ Kept(rows, {"insert"}) /\ Kept(pcap, {"insert", "record"})

\* Appending to a sequence adds the one element to its range.
LEMMA AppendAdds ==
  ASSUME NEW s \in Seq(Nat), NEW e \in Nat
  PROVE  /\ ToSet(Append(s, e)) = ToSet(s) \cup {e}
         /\ ToSet(s) \subseteq ToSet(Append(s, e))
<1> DEFINE t == Append(s, e)
<1>1. /\ DOMAIN s = 1..Len(s) /\ DOMAIN t = 1..(Len(s) + 1) /\ Len(s) \in Nat
      /\ \A i \in 1..Len(s) : t[i] = s[i]
      /\ t[Len(s) + 1] = e
  BY AppendProperties, LenProperties
<1> HIDE DEF t
<1>2. DOMAIN t = DOMAIN s \cup {Len(s) + 1}
  BY <1>1
<1>3. \A i \in DOMAIN s : t[i] = s[i]
  BY <1>1
<1>4. ToSet(t) = ToSet(s) \cup {e}
  BY <1>1, <1>2, <1>3, Zenon DEF ToSet
<1> QED
  BY <1>4 DEF t

\* The next packet of a channel is newer than all that were taken from it.
LEMMA HeadIsNewer ==
  ASSUME TypeOK, OrderedDelivery, NEW c \in Chans, buf[c] # <<>>
  PROVE  /\ Head(buf[c]) \in Nat \ {0}
         /\ \A n \in ToSet(received[c]) : n \in Nat /\ n < Head(buf[c])
<1> DEFINE r == received[c]
           b == buf[c]
<1>1. r \in Seq(Nat) /\ b \in Seq(Nat) /\ joined[c] \in Nat /\ DOMAIN r = 1..Len(r) /\ Len(r) \in Nat
  BY DEF TypeOK
<1>2. Head(b) = b[1] /\ b[1] \in Nat /\ Len(b) \in Nat /\ Len(b) >= 1
  BY <1>1, EmptySeq, ElementOfSeq
<1>3. /\ Reached(c) = r \o b /\ DOMAIN (r \o b) = 1..Len(r) + Len(b)
      /\ \A i \in 1..Len(r) + Len(b) : (r \o b)[i] = IF i <= Len(r) THEN r[i] ELSE b[i - Len(r)]
  <2>1. Reached(c) = r \o b
    BY DEF Reached
  <2>2. /\ r \o b \in Seq(Nat) /\ Len(r \o b) = Len(r) + Len(b)
        /\ \A i \in 1..Len(r) + Len(b) : (r \o b)[i] = IF i <= Len(r) THEN r[i] ELSE b[i - Len(r)]
    <3> HIDE DEF r, b
    <3> QED
      BY <1>1, ConcatProperties
  <2> HIDE DEF r, b
  <2> QED
    BY <1>1, <1>2, <2>1, <2>2
<1>4. /\ \A i, j \in DOMAIN Reached(c) : i < j => Reached(c)[i] < Reached(c)[j]
      /\ \A i \in DOMAIN Reached(c) : joined[c] < Reached(c)[i]
  BY DEF OrderedDelivery, InOrder
<1>5. \A i \in 1..Len(r) : r[i] \in Nat
  BY <1>1, ElementOfSeq
<1> HIDE DEF r, b
<1>6. (r \o b)[Len(r) + 1] = b[1] /\ Len(r) + 1 \in 1..Len(r) + Len(b)
  BY <1>1, <1>2, <1>3
<1>7. joined[c] < b[1]
  BY <1>3, <1>4, <1>6
<1>8. ASSUME NEW i \in 1..Len(r) PROVE r[i] < b[1]
  <2>1. i \in 1..Len(r) + Len(b) /\ i < Len(r) + 1 /\ i <= Len(r)
    BY <1>1, <1>2
  <2>2. (r \o b)[i] < (r \o b)[Len(r) + 1]
    BY <1>3, <1>4, <1>6, <2>1
  <2>3. (r \o b)[i] = r[i]
    BY <1>3, <2>1
  <2> QED
    BY <1>6, <2>2, <2>3
<1>9. \A n \in ToSet(r) : n \in Nat /\ n < b[1]
  BY <1>1, <1>5, <1>8 DEF ToSet
<1> QED
  BY <1>1, <1>2, <1>7, <1>9 DEF r, b

\* A sequence that is not written to stays as it should be.
LEMMA KeptStays ==
  ASSUME NEW s, NEW before, Kept(s, before),
         \A h \in Handlers : ToSet(received[h]) \subseteq ToSet(received'[h]),
         \A h \in Handlers : pc'[h] \in before =>
           (pc[h] \in before /\ pkt'[h] = pkt[h]) \/ \A n \in ToSet(received[h]) : n < pkt'[h]
  PROVE  /\ s \in Seq(Entry)
         /\ \A i, j \in 1..Len(s) : i < j /\ s[i].by = s[j].by => s[i].pkt < s[j].pkt
         /\ \A i \in 1..Len(s) : /\ s[i].pkt \in ToSet(received'[s[i].by])
                                 /\ pc'[s[i].by] \in before => s[i].pkt < pkt'[s[i].by]
<1>1. \A e \in Entry : e.by \in Handlers
  BY DEF Entry
<1>2. \A i \in 1..Len(s) : s[i].by \in Handlers
  BY <1>1, ElementOfSeq DEF Kept
<1> QED
  BY <1>2 DEF Kept

\* An entry for the packet at hand, which the handler has then done with.
LEMMA KeptGrows ==
  ASSUME NEW s, NEW before, NEW after, Kept(s, before), Storing, NEW h \in Handlers,
         pc[h] \in {"insert", "record"}, pc[h] \in before, after \subseteq before, pc'[h] \notin after,
         \A g \in Handlers \ {h} : pc'[g] = pc[g] /\ pkt'[g] = pkt[g], received' = received
  PROVE  LET t == Append(s, [pkt |-> pkt[h], by |-> h]) IN
         /\ t \in Seq(Entry)
         /\ \A i, j \in 1..Len(t) : i < j /\ t[i].by = t[j].by => t[i].pkt < t[j].pkt
         /\ \A i \in 1..Len(t) : /\ t[i].pkt \in ToSet(received'[t[i].by])
                                 /\ pc'[t[i].by] \in after => t[i].pkt < pkt'[t[i].by]
<1> DEFINE e == [pkt |-> pkt[h], by |-> h]
           t == Append(s, e)
<1>1. e \in Entry /\ e.pkt = pkt[h] /\ e.by = h /\ pkt[h] \in ToSet(received[h])
  BY DEF Storing, Entry
<1>2. \A i \in 1..Len(s) : s[i].by \in Handlers
  <2>1. \A x \in Entry : x.by \in Handlers
    BY DEF Entry
  <2> QED
    BY <2>1, ElementOfSeq DEF Kept
<1> HIDE DEF e
<1>3. /\ t \in Seq(Entry) /\ Len(t) = Len(s) + 1 /\ t[Len(s) + 1] = e /\ Len(s) \in Nat
      /\ \A i \in 1..Len(s) : t[i] = s[i]
  BY <1>1, AppendProperties DEF Kept
<1> HIDE DEF t
<1>4. ASSUME NEW i \in 1..Len(t), NEW j \in 1..Len(t), i < j, t[i].by = t[j].by
      PROVE  t[i].pkt < t[j].pkt
  <2>1. i \in 1..Len(s)
    BY <1>3, <1>4
  <2>2. CASE j \in 1..Len(s)
    BY <1>3, <1>4, <2>1, <2>2 DEF Kept
  <2>3. CASE j = Len(s) + 1
    BY <1>1, <1>3, <1>4, <2>1, <2>3 DEF Kept
  <2> QED
    BY <1>3, <2>2, <2>3
<1>5. ASSUME NEW i \in 1..Len(t)
      PROVE  /\ t[i].pkt \in ToSet(received'[t[i].by])
             /\ pc'[t[i].by] \in after => t[i].pkt < pkt'[t[i].by]
  <2>1. CASE i \in 1..Len(s)
    BY <1>2, <1>3, <2>1 DEF Kept
  <2>2. CASE i = Len(s) + 1
    BY <1>1, <1>3, <2>2
  <2> QED
    BY <1>3, <2>1, <2>2
<1> QED
  BY <1>3, <1>4, <1>5 DEF t, e

\* The start: nothing is stored.
LEMMA StoringInit == LiveInit => Storing
<1> SUFFICES ASSUME LiveInit PROVE Storing
  OBVIOUS
<1>1. rows = <<>> /\ pcap = <<>>
  BY DEF LiveInit
<1>2. rows \in Seq(Entry) /\ pcap \in Seq(Entry) /\ 1..Len(rows) = {} /\ 1..Len(pcap) = {}
  BY <1>1, EmptySeq
<1>3. Kept(rows, {"insert"}) /\ Kept(pcap, {"insert", "record"})
  BY <1>2 DEF Kept
<1>4. recording \in BOOLEAN /\ done \subseteq Handlers
  BY Zenon DEF LiveInit
<1> QED
  BY <1>3, <1>4 DEF LiveInit, Storing

\* Every step of the feed keeps what is stored in order.
LEMMA StoringStep ==
  TypeOK /\ OrderedDelivery /\ Ownership /\ Storing /\ [LiveNext]_liveVars => Storing'
<1> SUFFICES ASSUME TypeOK, OrderedDelivery, Ownership, Storing, [LiveNext]_liveVars PROVE Storing'
  OBVIOUS
<1>0. /\ received \in [Chans -> Seq(Nat)] /\ Handlers \subseteq Chans /\ Engine \in Chans \ Handlers
      /\ pc \in [Handlers -> {"absent", "select", "insert", "record", "leaving", "gone"}]
      /\ pkt \in [Handlers -> Nat] /\ Kept(rows, {"insert"}) /\ Kept(pcap, {"insert", "record"})
      /\ recording \in BOOLEAN /\ done \subseteq Handlers
  BY EngineAssumption DEF TypeOK, Handlers, Ownership, Storing
\* A step of no handler, or one that stores nothing.
<1>1. ASSUME UNCHANGED <<pkt, storageVars>>, done' \subseteq Handlers,
             \A h \in Handlers : received'[h] = received[h],
             \A h \in Handlers : pc'[h] = pc[h] \/ {pc[h], pc'[h]} \cap {"insert", "record"} = {}
      PROVE  Storing'
  <2>1. \A h \in Handlers : pc'[h] \in {"insert", "record"} => pc[h] = pc'[h]
    BY <1>1
  <2>2. /\ \A h \in Handlers : pc'[h] \in {"insert"} => pc[h] \in {"insert"} /\ pkt'[h] = pkt[h]
        /\ \A h \in Handlers : ToSet(received[h]) \subseteq ToSet(received'[h])
    BY <1>1, <2>1
  <2>3. Kept(rows, {"insert"})'
    <3> DEFINE B == {"insert"}
    <3>1. Kept(rows, B) /\ \A h \in Handlers : pc'[h] \in B => pc[h] \in B /\ pkt'[h] = pkt[h]
      BY <1>0, <2>2
    <3> HIDE DEF B
    <3>2. Kept(rows, B)'
      BY <1>1, <2>2, <3>1, KeptStays DEF Kept, storageVars
    <3> QED
      BY <3>2 DEF B
  <2>4. Kept(pcap, {"insert", "record"})'
    BY <1>0, <1>1, <2>1, KeptStays DEF Kept, storageVars
  <2> QED
    BY <1>1, <2>3, <2>4 DEF Storing, storageVars
<1>2. ASSUME NEW h \in Handlers, Take(h) PROVE Storing'
  <2> DEFINE p == Head(buf[h])
  <2>1. /\ pc[h] = "select" /\ pc' = [pc EXCEPT ![h] = "insert"] /\ pkt' = [pkt EXCEPT ![h] = p]
        /\ received' = [received EXCEPT ![h] = Append(received[h], p)]
        /\ buf[h] # <<>> /\ UNCHANGED <<done, rows, recording, pcap>>
    BY <1>2 DEF Take, Receive, storageVars
  <2>2. p \in Nat \ {0} /\ \A n \in ToSet(received[h]) : n \in Nat /\ n < p
    BY <1>0, <2>1, HeadIsNewer
  <2> HIDE DEF p
  <2>3. ToSet(Append(received[h], p)) = ToSet(received[h]) \cup {p}
    BY <1>0, <2>2, AppendAdds
  <2>4. \A g \in Handlers : ToSet(received[g]) \subseteq ToSet(received'[g])
    BY <1>0, <2>1, <2>3
  <2>5. \A g \in Handlers \ {h} : pc'[g] = pc[g] /\ pkt'[g] = pkt[g]
    BY <1>0, <2>1
  <2>6. pc'[h] = "insert" /\ pkt'[h] = p /\ p \in ToSet(received'[h])
    BY <1>0, <2>1, <2>3
  <2>7. Kept(rows, {"insert"})' /\ Kept(pcap, {"insert", "record"})'
    BY <1>0, <2>1, <2>2, <2>4, <2>5, <2>6, KeptStays DEF Kept
  <2>8. \A g \in Handlers : pkt'[g] # 0 <=> pc'[g] \in {"insert", "record"}
    BY <2>2, <2>5, <2>6 DEF Storing
  <2>9. \A g \in Handlers : pc'[g] \in {"insert", "record"} => pkt'[g] \in ToSet(received'[g])
    BY <2>4, <2>5, <2>6 DEF Storing
  <2>10. pkt' \in [Handlers -> Nat]
    BY <1>0, <2>1, <2>2
  <2> QED
    BY <1>0, <2>1, <2>7, <2>8, <2>9, <2>10 DEF Storing
<1>3. ASSUME NEW h \in Handlers, EnrichPanics(h) PROVE Storing'
  <2>1. /\ pc[h] = "select" /\ pc' = [pc EXCEPT ![h] = "leaving"] /\ UNCHANGED <<pkt, done, storageVars>>
        /\ received' = [received EXCEPT ![h] = Append(received[h], Head(buf[h]))]
        /\ buf[h] # <<>>
    BY <1>3 DEF EnrichPanics, Receive
  <2>2. Head(buf[h]) \in Nat /\ received[h] \in Seq(Nat)
    BY <1>0, <2>1, HeadIsNewer
  <2>3. ToSet(received[h]) \subseteq ToSet(Append(received[h], Head(buf[h])))
    BY <2>2, AppendAdds
  <2>4. \A g \in Handlers : ToSet(received[g]) \subseteq ToSet(received'[g])
    BY <1>0, <2>1, <2>3
  <2>5. \A g \in Handlers \ {h} : pc'[g] = pc[g]
    BY <1>0, <2>1
  <2>6. pc'[h] = "leaving"
    BY <1>0, <2>1
  <2>7. Kept(rows, {"insert"})' /\ Kept(pcap, {"insert", "record"})'
    BY <1>0, <2>1, <2>4, <2>5, <2>6, KeptStays DEF Kept, storageVars
  <2> QED
    BY <1>0, <2>1, <2>4, <2>5, <2>6, <2>7 DEF Storing, storageVars
<1>4. ASSUME NEW h \in Handlers, Insert(h) PROVE Storing'
  <2>1. /\ pc[h] = "insert" /\ pc' = [pc EXCEPT ![h] = "record"]
        /\ UNCHANGED <<received, pkt, done, recording, pcap>>
        /\ rows' = rows \/ rows' = Append(rows, [pkt |-> pkt[h], by |-> h])
    BY <1>4 DEF Insert, vars, feedVars, histVars
  <2>2. pc'[h] = "record" /\ \A g \in Handlers \ {h} : pc'[g] = pc[g] /\ pkt'[g] = pkt[g]
    BY <1>0, <2>1
  <2>3. Kept(pcap, {"insert", "record"})'
    BY <1>0, <2>1, <2>2, KeptStays DEF Kept
  <2>4. Kept(rows, {"insert"})'
    <3>1. CASE rows' = rows
      BY <1>0, <2>1, <2>2, <3>1, KeptStays DEF Kept
    <3>2. CASE rows' = Append(rows, [pkt |-> pkt[h], by |-> h])
      BY <1>0, <2>1, <2>2, <3>2, KeptGrows DEF Kept
    <3> QED
      BY <2>1, <3>1, <3>2
  <2> QED
    BY <1>0, <2>1, <2>2, <2>3, <2>4 DEF Storing
<1>5. ASSUME NEW h \in Handlers, WritePacket(h) PROVE Storing'
  <2>1. /\ pc[h] = "record" /\ pc' = [pc EXCEPT ![h] = "select"] /\ pkt' = [pkt EXCEPT ![h] = 0]
        /\ UNCHANGED <<received, done, recording, rows>>
        /\ pcap' = pcap \/ pcap' = Append(pcap, [pkt |-> pkt[h], by |-> h])
    BY <1>5 DEF WritePacket, vars, feedVars, histVars
  <2>2. /\ pc'[h] = "select" /\ pkt'[h] = 0
        /\ \A g \in Handlers \ {h} : pc'[g] = pc[g] /\ pkt'[g] = pkt[g]
    BY <1>0, <2>1
  <2>3. Kept(rows, {"insert"})'
    BY <1>0, <2>1, <2>2, KeptStays DEF Kept
  <2>4. Kept(pcap, {"insert", "record"})'
    <3>1. CASE pcap' = pcap
      BY <1>0, <2>1, <2>2, <3>1, KeptStays DEF Kept
    <3>2. CASE pcap' = Append(pcap, [pkt |-> pkt[h], by |-> h])
      <4> DEFINE B == {"insert", "record"}
      <4>1. pc[h] \in {"insert", "record"} /\ pc[h] \in B /\ pc'[h] \notin B /\ Kept(pcap, B)
        BY <1>0, <2>1, <2>2
      <4> HIDE DEF B
      <4>2. Kept(pcap, B)'
        BY <2>1, <2>2, <3>2, <4>1, KeptGrows DEF Kept
      <4> QED
        BY <4>2 DEF B
    <3> QED
      BY <2>1, <3>1, <3>2
  <2> QED
    BY <1>0, <2>1, <2>2, <2>3, <2>4 DEF Storing
<1>6. ASSUME NEW h \in Handlers, Connect(h) \/ Depart(h) \/ Return(h) \/ Cleanup(h) PROVE Storing'
  <2>1. /\ UNCHANGED <<received, pkt, storageVars>> /\ done' \subseteq Handlers
        /\ pc' = pc \/ \E l \in {"select", "leaving", "gone"} :
             pc[h] \in {"absent", "select", "leaving"} /\ pc' = [pc EXCEPT ![h] = l]
    BY <1>0, <1>6 DEF Connect, Subscribe, Depart, Return, Cleanup, Unsubscribe, vars, feedVars, histVars
  <2>2. \A g \in Handlers : pc'[g] = pc[g] \/ {pc[g], pc'[g]} \cap {"insert", "record"} = {}
    BY <1>0, <2>1
  <2> QED
    BY <1>1, <2>1, <2>2
<1>7. CASE StartEngine \/ Ingest \/ Fanout \/ Second \/ \E k \in Kinds : Capture(k)
  <2>1. UNCHANGED <<handlerVars, storageVars>> /\ \A h \in Handlers : received'[h] = received[h]
    BY <1>0, <1>7 DEF StartEngine, Subscribe, Ingest, Receive, Fanout, Send, Deliver, Drop, SendOnClosed,
                      Second, TickSecond, Capture, Add, feedVars, histVars
  <2> QED
    BY <1>0, <1>1, <2>1 DEF handlerVars
<1>8. CASE StartPCAP
  <2>1. /\ UNCHANGED <<received, pc, pkt, done, rows>> /\ recording' \in BOOLEAN
    BY <1>8, Zenon DEF StartPCAP, vars, feedVars, histVars, handlerVars
  <2>2. pcap' \in Seq(Entry) /\ 1..Len(pcap') = {}
    BY <1>8, EmptySeq DEF StartPCAP
  <2>3. Kept(pcap, {"insert", "record"})'
    BY <2>2 DEF Kept
  <2>4. Kept(rows, {"insert"})'
    BY <1>0, <2>1 DEF Kept
  <2> QED
    BY <2>1, <2>3, <2>4 DEF Storing
<1>9. CASE StopPCAP
  <2>1. UNCHANGED <<received, pc, pkt, done, rows, pcap>> /\ recording' \in BOOLEAN
    BY <1>9, Zenon DEF StopPCAP, vars, feedVars, histVars, handlerVars
  <2> QED
    BY <2>1 DEF Storing, Kept
<1>10. CASE UNCHANGED liveVars
  <2>1. UNCHANGED <<received, pc, pkt, done, rows, recording, pcap>>
    BY <1>10 DEF liveVars, vars, feedVars, histVars, handlerVars, storageVars
  <2> QED
    BY <2>1 DEF Storing, Kept
<1> QED
  BY <1>2, <1>3, <1>4, <1>5, <1>6, <1>7, <1>8, <1>9, <1>10 DEF LiveNext, Handle

\* Type, ownership and the storing order together, along every behaviour of the feed.
LEMMA FeedStoring == LiveSpec => [](TypeOK /\ Ownership /\ Storing)
BY FeedDelivers, FeedOwnership, StoringInit, StoringStep, PTL DEF LiveSpec

\* The handlers keep to their types; a handler works on a packet exactly between its
\* select and its return to it.
THEOREM FeedTypesHold == LiveSpec => []LiveTypeOK
<1>1. Ownership /\ Storing => LiveTypeOK
  BY DEF Ownership, Storing, Kept, Entry, Entries, LiveTypeOK
<1> QED
  BY <1>1, FeedStoring, PTL

\* What each viewer leaves in the session database and in the recording is what it
\* received: in capture order, each packet at most once.
THEOREM FeedStoredAsReceived == LiveSpec => []StoredAsReceived
<1>1. Storing => StoredAsReceived
  <2> SUFFICES ASSUME Storing, NEW s \in {rows, pcap}
               PROVE  /\ \A i, j \in DOMAIN s : i < j /\ s[i].by = s[j].by => s[i].pkt < s[j].pkt
                      /\ \A i \in DOMAIN s : s[i].pkt \in ToSet(received[s[i].by])
    BY DEF StoredAsReceived
  <2>1. \E before : Kept(s, before)
    BY DEF Storing
  <2> QED
    BY <2>1 DEF Kept
<1> QED
  BY <1>1, FeedStoring, PTL

\* The channels made so far: finitely many, however many there could be.
MadeChans == {c \in Chans : status[c] # "unmade"}

\* Only finitely many subscriptions have been made at any time.
LEMMA MadeFinite == Spec => []IsFiniteSet(MadeChans)
<1>1. Init => IsFiniteSet(MadeChans)
  <2> SUFFICES ASSUME Init PROVE IsFiniteSet(MadeChans)
    OBVIOUS
  <2>1. MadeChans = {}
    BY DEF Init, MadeChans
  <2> QED
    BY <2>1, FS_EmptySet
<1>2. TypeOK /\ IsFiniteSet(MadeChans) /\ [Next]_vars => IsFiniteSet(MadeChans)'
  <2> SUFFICES ASSUME TypeOK, IsFiniteSet(MadeChans), [Next]_vars PROVE IsFiniteSet(MadeChans')
    OBVIOUS
  <2>0. status \in [Chans -> {"unmade", "open", "closed"}]
    BY DEF TypeOK
  <2>1. ASSUME NEW c \in Chans, NEW s, status' = [status EXCEPT ![c] = s] PROVE IsFiniteSet(MadeChans')
    <3>1. MadeChans' \in SUBSET (MadeChans \cup {c})
      BY <2>0, <2>1 DEF MadeChans
    <3>2. IsFiniteSet(MadeChans \cup {c})
      BY FS_AddElement
    <3> QED
      BY <3>1, <3>2, FS_Subset
  <2>2. CASE UNCHANGED status
    BY <2>2 DEF MadeChans
  <2> QED
    BY <2>1, <2>2
    DEF Next, Add, Send, Deliver, Drop, SendOnClosed, TickSecond, Subscribe, Unsubscribe, Receive,
        vars, feedVars
<1> QED
  BY <1>1, <1>2, TypeCorrect, PTL DEF Spec

\* However rows are inserted and viewers come and go, no packet is stored more often than
\* there were viewers to see it.
THEOREM FeedRowsPerViewer == LiveSpec => []RowsPerViewer
<1>1. /\ TypeOK /\ DeliveryInv /\ Storing /\ IsFiniteSet(MadeChans)
      => RowsPerViewer
  <2> SUFFICES ASSUME TypeOK, DeliveryInv, Storing, IsFiniteSet(MadeChans), NEW n \in DOMAIN captured
               PROVE  Cardinality({i \in DOMAIN rows : rows[i].pkt = n})
                        <= Cardinality({h \in Handlers : status[h] # "unmade" /\ joined[h] < n})
    BY DEF RowsPerViewer
  <2> DEFINE R == {i \in DOMAIN rows : rows[i].pkt = n}
             V == {h \in Handlers : status[h] # "unmade" /\ joined[h] < n}
             f == [i \in R |-> rows[i].by]
  <2>1. /\ rows \in Seq(Entry) /\ DOMAIN rows = 1..Len(rows) /\ Len(rows) \in Nat
        /\ \A i, j \in 1..Len(rows) : i < j /\ rows[i].by = rows[j].by => rows[i].pkt < rows[j].pkt
        /\ \A i \in 1..Len(rows) : rows[i].pkt \in ToSet(received[rows[i].by])
    BY LenProperties DEF Storing, Kept
  <2>2. \A i \in 1..Len(rows) : rows[i].pkt \in Nat /\ rows[i].by \in Handlers
    <3>1. \A e \in Entry : e.pkt \in Nat /\ e.by \in Handlers
      BY DEF Entry
    <3> QED
      BY <2>1, <3>1, ElementOfSeq
  <2>3. ASSUME NEW c \in Chans, n \in ToSet(received[c])
        PROVE  status[c] # "unmade" /\ joined[c] < n
    <3>1. received[c] \in Seq(Nat) /\ buf[c] \in Seq(Nat)
      BY DEF TypeOK
    <3>2. PICK i \in DOMAIN received[c] : received[c][i] = n
      BY <2>3 DEF ToSet
    <3>3. received[c] # <<>>
      BY <3>2
    <3>4. /\ i \in 1..Len(received[c]) /\ Len(Reached(c)) = Len(received[c]) + Len(buf[c])
          /\ Reached(c) \in Seq(Nat) /\ Len(buf[c]) \in Nat /\ Len(received[c]) \in Nat
          /\ \A j \in 1..Len(received[c]) + Len(buf[c]) :
               Reached(c)[j] = IF j <= Len(received[c]) THEN received[c][j] ELSE buf[c][j - Len(received[c])]
      BY <3>1, <3>2, LenProperties, ConcatProperties DEF Reached
    <3>5. i \in DOMAIN Reached(c) /\ Reached(c)[i] = n
      <4>1. i \in 1..Len(received[c]) + Len(buf[c]) /\ i <= Len(received[c])
        <5>1. \A x, y \in Nat : \A j \in 1..x : j \in 1..x + y /\ j <= x
          OBVIOUS
        <5>2. i \in 1..Len(received[c]) /\ Len(received[c]) \in Nat /\ Len(buf[c]) \in Nat
          BY <3>4
        <5> QED
          BY <5>1, <5>2, Zenon
      <4>2. DOMAIN Reached(c) = 1..Len(received[c]) + Len(buf[c])
        BY <3>4, LenProperties
      <4>3. Reached(c)[i] = received[c][i]
        BY <3>4, <4>1
      <4> QED
        BY <3>2, <4>1, <4>2, <4>3
    <3> QED
      BY <3>3, <3>5 DEF DeliveryInv, NothingBefore, OrderedDelivery, InOrder
  <2>4. \A i \in R : rows[i].by \in V
    BY <2>1, <2>2, <2>3 DEF Handlers
  <2>5. ASSUME NEW i \in R, NEW j \in R, rows[i].by = rows[j].by PROVE i = j
    <3>1. i \in Nat /\ j \in Nat /\ rows[i].pkt = n /\ rows[j].pkt = n /\ n \in Nat
      BY <2>1, <2>2
    <3>2. ~(i < j) /\ ~(j < i)
      BY <2>1, <2>5, <3>1
    <3> QED
      BY <3>1, <3>2
  <2> HIDE DEF R, V
  <2>6. f \in Injection(R, V)
    BY <2>4, <2>5 DEF Injection, IsInjective
  <2>7. IsFiniteSet(V)
    <3>1. V \in SUBSET MadeChans
      BY DEF V, MadeChans, Handlers
    <3> QED
      BY <3>1, FS_Subset
  <2>8. Cardinality(R) <= Cardinality(V)
    BY <2>6, <2>7, FS_Injection
  <2> QED
    BY <2>8 DEF R, V
<1> QED
  BY <1>1, FeedUsesStore, DeliveryHolds, MadeFinite, FeedStoring, PTL
=============================================================================
