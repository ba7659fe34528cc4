--------------------------- MODULE CaptureProofs ---------------------------
(***************************************************************************)
(* Theorems about the capture loop and the filter form.                    *)
(***************************************************************************)
EXTENDS Capture, Sums

\* What a packet in the hands of the loop says of the counters.
LoopInv ==
  /\ source \in {"opening", "device", "mock", "closing", "ended"}
  /\ loop.step \in {"read", "bytes", "add"}
  /\ loop.step # "read" => loop.frame \in Frames /\ source \in {"device", "mock"}
  /\ metrics \in [packets : Nat, bytes : Nat, active : Nat]
  /\ added.packets \in Nat /\ added.bytes \in Nat
  /\ CountersLead

\* The capture loop starts in its invariant.
LEMMA LoopInit == Init => LoopInv
BY DEF Init, LoopInv, CountersLead, NoFrame

\* Every step of the capture loop, its consumers and the filter keeps it.
LEMMA LoopStep == LoopInv /\ [Next]_vars => LoopInv'
<1> SUFFICES ASSUME LoopInv, [Next]_vars PROVE LoopInv'
  OBVIOUS
<1> USE DEF loopVars
<1>0. \A f \in Frames : f.size \in Nat
  BY FramesAssumption
<1>1. CASE UNCHANGED loopVars
  BY <1>1 DEF LoopInv, CountersLead
<1>2. CASE OpenDevice \/ OpenFails
  BY <1>2 DEF OpenDevice, OpenFails, LoopInv, CountersLead
<1>3. ASSUME NEW f \in Frames, CountPacket(f) PROVE LoopInv'
  BY <1>0, <1>3 DEF CountPacket, LoopInv, CountersLead
<1>4. CASE CountBytes
  BY <1>0, <1>4 DEF CountBytes, LoopInv, CountersLead
<1>5. CASE AddPacket
  BY <1>0, <1>5 DEF AddPacket, LoopInv, CountersLead, NoFrame
<1>6. CASE DeviceEnds \/ CaptureEnds
  BY <1>6 DEF DeviceEnds, CaptureEnds, LoopInv, CountersLead
<1>7. CASE FilterCrashes
  BY <1>1, <1>7 DEF FilterCrashes
<1>8. ASSUME NEW r \in Requests, LogFilter(r) PROVE LoopInv'
  BY <1>1, <1>8 DEF LogFilter
<1>9. ASSUME NEW r \in Requests, NEW e \in Exprs,
             StoreFilter(r, e) \/ ApplyFilter(r, e) \/ RefuseFilter(r, e)
      PROVE  LoopInv'
  BY <1>1, <1>9 DEF StoreFilter, ApplyFilter, RefuseFilter
<1> QED
  BY <1>1, <1>2, <1>3, <1>4, <1>5, <1>6, <1>7, <1>8, <1>9 DEF Next, vars

\* What a scrape reads is never behind what was stored, and one packet ahead at most.
THEOREM CountersLeadHolds == Spec => []CountersLead
<1>1. LoopInv => CountersLead
  BY DEF LoopInv
<1> QED
  BY <1>1, LoopInit, LoopStep, PTL DEF Spec

-----------------------------------------------------------------------------
(* The filter *)

Entry   == [expr : Exprs, ok : BOOLEAN]
Request == [step : {"idle"}, expr : {None}, ok : {FALSE}] \cup [step : {"log"}, expr : Exprs, ok : BOOLEAN]

TypeInv ==
  /\ changes \in Seq(Exprs) /\ audit \in Seq(Entry)
  /\ request \in [Requests -> Request]

\* c.mock is only ever set when no device was opened, and no filter is set while one is.
HandleInv ==
  /\ source = "opening" => filter = None /\ handle = "nil"
  /\ source \in {"opening", "device"} \/ handle # "nil" => ~mock.set /\ ~mock.raced
  /\ source = "device" => handle = "live"
  /\ handle = "nil" => applied = None
  /\ filter = IF changes = <<>> THEN None ELSE changes[Len(changes)]
  /\ handle # "nil" => applied = filter

Logged == \A e \in Exprs : Cardinality(Entries(e)) + Cardinality(Unlogged(e)) <= Cardinality(Changes(e))

\* No handle is open and no filter logged at the start.
LEMMA FilterInit == Init => TypeInv /\ HandleInv /\ Logged
<1> SUFFICES ASSUME Init PROVE TypeInv /\ HandleInv /\ Logged
  OBVIOUS
<1>1. TypeInv
  BY DEF Init, TypeInv, NoRequest, Request
<1>2. HandleInv
  BY DEF Init, HandleInv
<1>3. \A e \in Exprs : Entries(e) = {} /\ Unlogged(e) = {} /\ Changes(e) = {}
  BY DEF Init, NoRequest, Entries, Unlogged, Changes
<1>4. Logged
  BY <1>3, FS_EmptySet DEF Logged
<1> QED
  BY <1>1, <1>2, <1>4

\* What the type invariant says of one filter request, by its step.
LEMMA RequestKnown ==
  ASSUME TypeInv, NEW r \in Requests
  PROVE  /\ request[r].step = "idle" => request[r].ok = FALSE
         /\ request[r].step = "log" => request[r].expr \in Exprs /\ request[r].ok \in BOOLEAN
BY DEF TypeInv, Request

\* All three sets are finite.
LEMMA AllFinite ==
  ASSUME TypeInv, NEW e
  PROVE  IsFiniteSet(Entries(e)) /\ IsFiniteSet(Unlogged(e)) /\ IsFiniteSet(Changes(e))
<1>1. Len(audit) \in Nat /\ Len(changes) \in Nat
  BY DEF TypeInv
<1>2. IsFiniteSet(1..Len(audit)) /\ IsFiniteSet(1..Len(changes)) /\ IsFiniteSet(Requests)
  BY <1>1, FS_Interval, CaptureAssumption
<1>3. /\ Entries(e) \in SUBSET (1..Len(audit)) /\ Changes(e) \in SUBSET (1..Len(changes))
      /\ Unlogged(e) \in SUBSET Requests
  BY DEF Entries, Unlogged, Changes, TypeInv
<1> QED
  BY <1>2, <1>3, FS_Subset

\* A filter was set, or not, and the answer is to be logged.
LEMMA RepliesKeep ==
  ASSUME TypeInv, Logged, NEW r \in Requests, NEW x \in Exprs, NEW b \in BOOLEAN,
         request[r].step = "idle", Replies(r, x, b), UNCHANGED audit
  PROVE  TypeInv' /\ Logged'
<1>1. /\ request' = [request EXCEPT ![r] = [step |-> "log", expr |-> x, ok |-> b]]
      /\ changes' = IF b THEN Append(changes, x) ELSE changes
  BY DEF Replies
<1>2. changes \in Seq(Exprs) /\ Len(changes) \in Nat /\ request \in [Requests -> Request]
  BY DEF TypeInv
<1>3. [step |-> "log", expr |-> x, ok |-> b] \in Request
  BY DEF Request
<1>4. TypeInv'
  BY <1>1, <1>2, <1>3 DEF TypeInv
<1>5. ASSUME NEW e \in Exprs
      PROVE  Cardinality(Entries(e)') + Cardinality(Unlogged(e)') <= Cardinality(Changes(e)')
  <2>1. Cardinality(Entries(e)) + Cardinality(Unlogged(e)) <= Cardinality(Changes(e))
    BY DEF Logged
  <2>2. /\ Cardinality(Entries(e)) \in Nat /\ Cardinality(Unlogged(e)) \in Nat
        /\ Cardinality(Changes(e)) \in Nat
    BY AllFinite, FS_CardinalityType
  <2>3. Entries(e)' = Entries(e)
    BY DEF Entries
  <2>4. CASE b /\ x = e
    <3>1. Unlogged(e)' = Unlogged(e) \cup {r}
      BY <1>1, <1>2, <2>4 DEF Unlogged
    <3>2. changes' = Append(changes, e)
      BY <1>1, <2>4
    <3>3. Changes(e)' = Changes(e) \cup {Len(changes) + 1} /\ Len(changes) + 1 \notin Changes(e)
      BY <1>2, <3>2 DEF Changes
    <3>4. Cardinality(Changes(e)') = Cardinality(Changes(e)) + 1
      BY <3>3, AllFinite, FS_AddElement
    <3>5. Cardinality(Unlogged(e)') <= Cardinality(Unlogged(e)) + 1 /\ Cardinality(Unlogged(e)') \in Nat
      <4>1. Cardinality(Unlogged(e) \cup {r}) =
              IF r \in Unlogged(e) THEN Cardinality(Unlogged(e)) ELSE Cardinality(Unlogged(e)) + 1
        BY AllFinite, FS_AddElement
      <4> QED
        BY <2>2, <3>1, <4>1
    <3> QED
      BY <2>1, <2>2, <2>3, <3>4, <3>5
  <2>5. CASE ~(b /\ x = e)
    <3>1. Unlogged(e)' = Unlogged(e)
      BY <1>1, <1>2, <2>5, RequestKnown DEF Unlogged
    <3>2. Changes(e)' = Changes(e)
      BY <1>1, <1>2, <2>5 DEF Changes
    <3> QED
      BY <2>1, <2>3, <3>1, <3>2
  <2> QED
    BY <2>4, <2>5
<1> QED
  BY <1>4, <1>5 DEF Logged

\* An answer moves to the log, or is lost.
LEMMA LogKeeps ==
  ASSUME TypeInv, Logged, NEW r \in Requests, LogFilter(r)
  PROVE  TypeInv' /\ Logged'
<1> DEFINE new == [expr |-> request[r].expr, ok |-> request[r].ok]
<1>1. /\ request[r].step = "log" /\ request' = [request EXCEPT ![r] = NoRequest]
      /\ UNCHANGED changes
      /\ audit' = Append(audit, new) \/ audit' = audit
  BY DEF LogFilter
<1>2. /\ new.expr = request[r].expr /\ new.ok = request[r].ok
      /\ audit \in Seq(Entry) /\ Len(audit) \in Nat /\ changes \in Seq(Exprs)
      /\ ~NoRequest.ok /\ request \in [Requests -> Request]
  BY DEF TypeInv, NoRequest
<1>3. new \in Entry
  BY <1>1, RequestKnown DEF Entry
<1> HIDE DEF new
<1>4. TypeInv'
  <2>2. NoRequest \in Request
    BY DEF NoRequest, Request
  <2>3. audit' \in Seq(Entry)
    BY <1>1, <1>2, <1>3
  <2>4. request' \in [Requests -> Request]
    BY <1>1, <1>2, <2>2
  <2> QED
    BY <1>1, <1>2, <2>3, <2>4 DEF TypeInv
<1>5. ASSUME NEW e
      PROVE  \/ Entries(e)' = Entries(e)
             \/ new.ok /\ new.expr = e /\ Entries(e)' = Entries(e) \cup {Len(audit) + 1}
  <2>1. CASE audit' = audit
    BY <2>1 DEF Entries
  <2>2. CASE audit' = Append(audit, new)
    <3>1. /\ DOMAIN audit = 1..Len(audit) /\ DOMAIN audit' = 1..Len(audit) + 1
          /\ \A i \in 1..Len(audit) : audit'[i] = audit[i]
          /\ audit'[Len(audit) + 1] = new
      BY <1>2, <1>3, <2>2
    <3>2. DOMAIN audit' = DOMAIN audit \cup {Len(audit) + 1} /\ Len(audit) + 1 \notin DOMAIN audit
      BY <1>2, <3>1
    <3>3. CASE new.ok /\ new.expr = e
      BY <3>1, <3>2, <3>3, Zenon DEF Entries
    <3>4. CASE ~(new.ok /\ new.expr = e)
      BY <3>1, <3>2, <3>4, Zenon DEF Entries
    <3> QED
      BY <3>3, <3>4
  <2> QED
    BY <1>1, <2>1, <2>2
<1>6. ASSUME NEW e \in Exprs
      PROVE  Cardinality(Entries(e)') + Cardinality(Unlogged(e)') <= Cardinality(Changes(e)')
  <2>1. Cardinality(Entries(e)) + Cardinality(Unlogged(e)) <= Cardinality(Changes(e))
    BY DEF Logged
  <2>2. /\ Cardinality(Entries(e)) \in Nat /\ Cardinality(Unlogged(e)) \in Nat
        /\ Cardinality(Changes(e)) \in Nat
    BY AllFinite, FS_CardinalityType
  <2>3. Changes(e)' = Changes(e)
    BY <1>1 DEF Changes
  <2>4. Unlogged(e)' = Unlogged(e) \ {r}
    BY <1>1, <1>2 DEF Unlogged
  <2>5. CASE r \in Unlogged(e)
    <3>1. Cardinality(Unlogged(e)') = Cardinality(Unlogged(e)) - 1
      BY <2>4, <2>5, AllFinite, FS_RemoveElement
    <3>2. Entries(e)' = Entries(e) \/ Entries(e)' = Entries(e) \cup {Len(audit) + 1}
      BY <1>5
    <3>3. Cardinality(Entries(e)') <= Cardinality(Entries(e)) + 1 /\ Cardinality(Entries(e)') \in Nat
      <4>1. Cardinality(Entries(e) \cup {Len(audit) + 1}) =
              IF Len(audit) + 1 \in Entries(e) THEN Cardinality(Entries(e)) ELSE Cardinality(Entries(e)) + 1
        BY AllFinite, FS_AddElement
      <4>2. CASE Entries(e)' = Entries(e)
        BY <2>2, <4>2
      <4>3. CASE Entries(e)' = Entries(e) \cup {Len(audit) + 1}
        BY <2>2, <4>1, <4>3
      <4> QED
        BY <3>2, <4>2, <4>3
    <3> QED
      BY <2>1, <2>2, <2>3, <3>1, <3>3
  <2>6. CASE r \notin Unlogged(e)
    <3>1. ~(request[r].ok /\ request[r].expr = e)
      BY <1>1, <2>6 DEF Unlogged
    <3>2. Entries(e)' = Entries(e)
      BY <1>2, <1>5, <3>1
    <3> QED
      BY <2>1, <2>3, <2>4, <2>6, <3>2
  <2> QED
    BY <2>5, <2>6
<1> QED
  BY <1>4, <1>6 DEF Logged

\* Every step keeps the handle's filter and the log of filters in agreement.
LEMMA FilterStep == TypeInv /\ HandleInv /\ Logged /\ [Next]_vars => TypeInv' /\ HandleInv' /\ Logged'
<1> SUFFICES ASSUME TypeInv, HandleInv, Logged, [Next]_vars PROVE TypeInv' /\ HandleInv' /\ Logged'
  OBVIOUS
<1> USE DEF loopVars, filterVars
<1>1. ASSUME UNCHANGED filterVars PROVE TypeInv' /\ Logged'
  BY <1>1 DEF TypeInv, Logged, Entries, Unlogged, Changes
<1>2. ASSUME UNCHANGED <<source, mock, handle, filter, applied, changes>> PROVE HandleInv'
  BY <1>2 DEF HandleInv
<1>3. CASE UNCHANGED vars \/ CountBytes \/ AddPacket \/ FilterCrashes \/ \E f \in Frames : CountPacket(f)
  BY <1>1, <1>2, <1>3 DEF vars, CountBytes, AddPacket, FilterCrashes, CountPacket
<1>4. CASE OpenDevice \/ OpenFails \/ DeviceEnds \/ CaptureEnds
  <2>1. HandleInv'
    BY <1>4 DEF OpenDevice, OpenFails, DeviceEnds, CaptureEnds, HandleInv
  <2> QED
    BY <1>1, <1>4, <2>1 DEF OpenDevice, OpenFails, DeviceEnds, CaptureEnds
<1>5. ASSUME NEW r \in Requests, LogFilter(r) PROVE TypeInv' /\ HandleInv' /\ Logged'
  BY <1>2, <1>5, LogKeeps DEF LogFilter
<1>6. ASSUME NEW r \in Requests, NEW e \in Exprs,
             StoreFilter(r, e) \/ ApplyFilter(r, e) \/ RefuseFilter(r, e)
      PROVE  TypeInv' /\ HandleInv' /\ Logged'
  <2>1. request[r].step = "idle" /\ UNCHANGED <<audit, mock, loopVars>>
    BY <1>6 DEF StoreFilter, ApplyFilter, RefuseFilter, Asked
  <2>2. PICK b \in BOOLEAN : Replies(r, e, b) /\ (b => filter' = e) /\ (~b => UNCHANGED <<filter, applied>>)
    BY <1>6 DEF StoreFilter, ApplyFilter, RefuseFilter
  <2>3. TypeInv' /\ Logged'
    BY <2>1, <2>2, RepliesKeep
  <2>4. changes' = IF b THEN Append(changes, e) ELSE changes
    BY <2>2 DEF Replies
  <2>5. changes \in Seq(Exprs)
    BY DEF TypeInv
  <2>6. filter' = IF changes' = <<>> THEN None ELSE changes'[Len(changes')]
    <3>1. CASE b
      BY <2>2, <2>4, <2>5, <3>1
    <3>2. CASE ~b
      BY <2>2, <2>4, <3>2 DEF HandleInv
    <3> QED
      BY <3>1, <3>2
  <2>7. CASE StoreFilter(r, e)
    <3>1. (mock.set \/ mock.raced) /\ UNCHANGED applied
      BY <2>7 DEF StoreFilter, MockRead
    <3> QED
      BY <2>1, <2>3, <2>6, <3>1 DEF HandleInv
  <2>8. CASE ApplyFilter(r, e)
    <3>1. handle = "live" /\ filter' = applied'
      BY <2>8 DEF ApplyFilter
    <3> QED
      BY <2>1, <2>3, <2>6, <3>1 DEF HandleInv
  <2>9. CASE RefuseFilter(r, e)
    BY <2>1, <2>3, <2>6, <2>9 DEF RefuseFilter, HandleInv
  <2> QED
    BY <1>6, <2>7, <2>8, <2>9
<1> QED
  BY <1>3, <1>4, <1>5, <1>6 DEF Next

\* The filter that is shown is the last that was set and the one on the device, and the
\* audit log tells of no change that was not made.
THEOREM FilterToldHolds == Spec => []FilterTold
<1>1. HandleInv /\ Logged => FilterTold
  BY DEF HandleInv, Logged, FilterTold
<1> QED
  BY <1>1, FilterInit, FilterStep, PTL DEF Spec
-----------------------------------------------------------------------------
(* Inspection *)

\* A packet that came from the device is the parse of a frame.
ParsedInv == Parsed => /\ Last \in Frames
                       /\ \E drawn, again \in BOOLEAN : Read = Parse(Last, drawn, again)

\* Every step keeps the last packet stored the inspection of the frame it came from.
LEMMA ParsedStep == LoopInv /\ ParsedInv /\ [Next]_vars => ParsedInv'
<1> SUFFICES ASSUME LoopInv, ParsedInv, [Next]_vars PROVE ParsedInv'
  OBVIOUS
<1> USE DEF loopVars, Parsed, Last, Read
<1>1. ASSUME UNCHANGED added, source' # "mock" => source # "mock" PROVE ParsedInv'
  BY <1>1 DEF ParsedInv
<1>2. CASE UNCHANGED vars \/ OpenDevice \/ OpenFails \/ CountBytes \/ DeviceEnds \/ CaptureEnds \/ FilterCrashes
  BY <1>1, <1>2 DEF vars, OpenDevice, OpenFails, CountBytes, DeviceEnds, CaptureEnds, FilterCrashes
<1>3. ASSUME NEW f \in Frames, CountPacket(f) PROVE ParsedInv'
  BY <1>1, <1>3 DEF CountPacket
<1>4. ASSUME NEW r \in Requests, LogFilter(r) PROVE ParsedInv'
  BY <1>1, <1>4 DEF LogFilter
<1>5. ASSUME NEW r \in Requests, NEW e \in Exprs,
             StoreFilter(r, e) \/ ApplyFilter(r, e) \/ RefuseFilter(r, e)
      PROVE  ParsedInv'
  BY <1>1, <1>5 DEF StoreFilter, ApplyFilter, RefuseFilter
<1>6. CASE AddPacket
  <2>1. loop.frame \in Frames /\ source' = source
    BY <1>6 DEF AddPacket, LoopInv
  <2>2. PICK drawn, again \in BOOLEAN :
          added' = [packets |-> added.packets + 1, bytes |-> added.bytes + loop.frame.size,
                    last |-> [frame |-> loop.frame,
                              pkt |-> IF source = "mock" THEN MadeUp(loop.frame, drawn)
                                      ELSE Parse(loop.frame, drawn, again)]]
    BY <1>6 DEF AddPacket
  <2>3. /\ added'.last.frame = loop.frame
        /\ source # "mock" => added'.last.pkt = Parse(loop.frame, drawn, again)
    BY <2>2
  <2> QED
    BY <2>1, <2>3 DEF ParsedInv
<1> QED
  BY <1>2, <1>3, <1>4, <1>5, <1>6 DEF Next

\* What the parse of a frame says.
LEMMA ParseFields ==
  ASSUME NEW f, NEW d, NEW a, NEW p, p = Parse(f, d, a)
  PROVE  /\ p.dpi = Inspect(f) /\ p.intel \in {Intel(f), NoIntel}
         /\ p.dpi.host = IF f.app.kind = "http" THEN HttpHost(f.app) ELSE None
         /\ p.dpi.sni = IF f.app.kind = "hello" /\ "TCP" \in f.layers THEN Sni(ClientHello(f.app)) ELSE <<>>
         /\ p.dpi.card = IF f.app.kind = "card" /\ Found(f.app.digits) /\ ValidCC(f.app.digits)
                        THEN Masked(f.app.digits) ELSE <<>>
BY DEF Parse, Inspect, Intel, NoIntel

\* The least and the greatest of some numbers, when one is known to be it.
LEMMA MinIs == ASSUME NEW S \in SUBSET Int, NEW m \in S, \A x \in S : m <= x PROVE Min(S) = m
<1>1. \E x \in S : \A y \in S : x <= y
  OBVIOUS
<1>2. Min(S) \in S /\ \A y \in S : Min(S) <= y
  BY <1>1, Zenon DEF Min
<1>3. m <= Min(S) /\ Min(S) <= m /\ Min(S) \in Int /\ m \in Int
  BY <1>2
<1> QED
  BY <1>3

\* An element that bounds a set of integers is its maximum.
LEMMA MaxIs == ASSUME NEW S \in SUBSET Int, NEW m \in S, \A x \in S : x <= m PROVE Max(S) = m
<1>1. \E x \in S : \A y \in S : x >= y
  OBVIOUS
<1>2. Max(S) \in S /\ \A y \in S : Max(S) >= y
  BY <1>1, Zenon DEF Max
<1>3. Max(S) <= m /\ Max(S) >= m /\ Max(S) \in Int /\ m \in Int
  BY <1>2
<1> QED
  BY <1>3

\* The least of some positions is one of them.
LEMMA MinIn ==
  ASSUME NEW S \in SUBSET Nat, S # {}
  PROVE  Min(S) \in S /\ \A x \in S : Min(S) <= x
<1>1. PICK m \in S : \A x \in S : m <= x
  BY LeastNumber
<1>2. Min(S) = m
  BY <1>1, MinIs
<1> QED
  BY <1>1, <1>2

-----------------------------------------------------------------------------
(* The host *)

\* The heading is the beginning of the lines.
LEMMA HeadingBegins ==
  ASSUME NEW S, NEW lines \in Seq(S)
  PROVE  \E n \in 0..Len(lines) : /\ DOMAIN Heading(lines) = 1..n
                                  /\ \A i \in 1..n : Heading(lines)[i] = lines[i]
<1> DEFINE blanks == {i \in DOMAIN lines : lines[i] = Blank}
<1>1. Len(lines) \in Nat /\ DOMAIN lines = 1..Len(lines)
  OBVIOUS
<1>2. CASE blanks = {}
  <2>1. Heading(lines) = lines
    BY <1>2 DEF Heading
  <2>2. /\ Len(lines) \in 0..Len(lines) /\ DOMAIN Heading(lines) = 1..Len(lines)
        /\ \A i \in 1..Len(lines) : Heading(lines)[i] = lines[i]
    BY <1>1, <2>1
  <2> QED
    BY <2>2
<1>3. CASE blanks # {}
  <2>1. blanks \in SUBSET Nat
    BY <1>1
  <2>2. Min(blanks) \in blanks
    BY <1>3, <2>1, MinIn
  <2> DEFINE n == Min(blanks) - 1
  <2>3. n \in 0..Len(lines) /\ Heading(lines) = SubSeq(lines, 1, n)
    <3>1. Heading(lines) = SubSeq(lines, 1, n)
      BY <1>3 DEF Heading
    <3>2. Min(blanks) \in 1..Len(lines)
      BY <1>1, <2>2
    <3> QED
      BY <1>1, <3>1, <3>2
  <2> HIDE DEF n
  <2>4. DOMAIN SubSeq(lines, 1, n) = 1..n /\ \A i \in 1..n : SubSeq(lines, 1, n)[i] = lines[i]
    BY <1>1, <2>3
  <2> QED
    BY <2>3, <2>4
<1> QED
  BY <1>2, <1>3

\* Of the one line for a host in the heading both parsers take its value, when it is
\* spelled "Host:".
LEMMA HostFound ==
  ASSUME NEW S, NEW p, p.lines \in Seq(S), NEW i, HostLines(Heading(p.lines)) = {i},
         p.lines[i].proper, ~p.lines[i].padded,
         p.url = None, p.verb \in {"get", "post"}, p.upper
  PROVE  HttpHost(p) = p.lines[i].val /\ DomainOf(p) = p.lines[i].val
<1> DEFINE head == Heading(p.lines)
           hosts == {j \in HostLines(head) : head[j].proper}
<1>1. PICK n \in 0..Len(p.lines) : /\ DOMAIN head = 1..n
                                   /\ \A j \in 1..n : head[j] = p.lines[j]
  BY HeadingBegins
<1>2. Len(p.lines) \in Nat /\ DOMAIN p.lines = 1..Len(p.lines)
  OBVIOUS
<1>3. HostLines(head) = {i}
  OBVIOUS
<1> HIDE DEF head
<1>4. i \in 1..n /\ i \in DOMAIN p.lines /\ p.lines[i].key = "host"
  BY <1>1, <1>2, <1>3 DEF HostLines
<1>5. \A j \in 1..n : p.lines[j].key = "host" => j = i
  BY <1>1, <1>3 DEF HostLines
<1>6. hosts = {i}
  BY <1>1, <1>3, <1>4
<1>7. Max(hosts) = i
  <2>1. i \in Int
    BY <1>1, <1>2, <1>4
  <2>2. {i} \in SUBSET Int /\ i \in {i} /\ \A x \in {i} : x <= i
    BY <2>1
  <2>3. Max({i}) = i
    BY <2>2, MaxIs
  <2> QED
    BY <1>6, <2>3
<1>8. Min(HostPrefixed(p)) = i /\ HostPrefixed(p) # {}
  <2>1. HostPrefixed(p) \in SUBSET Int /\ i \in HostPrefixed(p)
    BY <1>2, <1>4 DEF HostPrefixed, HostLines
  <2>2. \A j \in HostPrefixed(p) : i <= j
    BY <1>2, <1>4, <1>5 DEF HostPrefixed, HostLines
  <2> QED
    BY <2>1, <2>2, MinIs
<1>9. HttpHost(p) = head[Max(hosts)].val
  <2>1. p.verb \in Verbs /\ p.upper
    BY DEF Verbs
  <2>2. hosts # {} /\ p.url = None
    BY <1>6
  <2> QED
    BY <2>1, <2>2 DEF HttpHost, head
<1>10. DomainOf(p) = p.lines[Min(HostPrefixed(p))].val
  BY <1>8 DEF DomainOf
<1> QED
  BY <1>1, <1>4, <1>7, <1>8, <1>9, <1>10

\* The two hosts stored are the one the request carries.
LEMMA HostIsRead == ParsedInv => HostRead
<1> SUFFICES ASSUME ParsedInv, Parsed, Last.app.kind = "http",
                    NEW i \in HostLines(Heading(Last.app.lines)),
                    HostLines(Heading(Last.app.lines)) = {i},
                    Last.app.lines[i].proper, ~Last.app.lines[i].padded,
                    Last.app.url = None, Last.app.verb \in {"get", "post"}, Last.app.upper
             PROVE  /\ Read.dpi.host = Last.app.lines[i].val
                    /\ Read.intel # NoIntel => Read.intel.domain = Read.dpi.host
  BY DEF HostRead
<1>1. Last.app.lines \in Seq([key : STRING, proper : BOOLEAN, padded : BOOLEAN, val : STRING])
  BY FramesAssumption DEF ParsedInv
<1>2. HttpHost(Last.app) = Last.app.lines[i].val /\ DomainOf(Last.app) = Last.app.lines[i].val
  BY <1>1, HostFound
<1>3. /\ Read.intel \in {Intel(Last), NoIntel}
      /\ Read.dpi.host = HttpHost(Last.app)
  BY ParseFields DEF ParsedInv
<1>4. Intel(Last).domain = DomainOf(Last.app)
  BY DEF Intel
<1> QED
  BY <1>2, <1>3, <1>4

\* Of a request with one line for a host in its head, spelled as usual, both parsers report
\* that host, whatever else is in the payload.
THEOREM HostsAreRead == Spec => []HostRead
<1>1. Init => ParsedInv
  BY DEF Init, ParsedInv, Parsed
<1> QED
  BY <1>1, HostIsRead, LoopInit, LoopStep, ParsedStep, PTL DEF Spec
-----------------------------------------------------------------------------
(* Cards *)

Digits == Seq(0..9)

\* The weights of the Luhn sum are digits.
LEMMA WeightsType ==
  ASSUME NEW c \in Digits
  PROVE  Weights(c) \in [1..Len(c) -> Nat] /\ \A i \in 1..Len(c) : Weight(c, i) \in 0..9
<1>1. Len(c) \in Nat /\ DOMAIN c = 1..Len(c) /\ \A i \in 1..Len(c) : c[i] \in 0..9
  BY DEF Digits
<1>2. \A i \in 1..Len(c) : Weight(c, i) \in 0..9
  BY <1>1 DEF Weight
<1> QED
  BY <1>1, <1>2 DEF Weights

\* What isValidCC counts is what the standard says.
LEMMA CountsAreWeights == ASSUME NEW c \in Digits PROVE Counts(c) = Weights(c)
<1>1. Len(c) \in Nat /\ DOMAIN c = 1..Len(c) /\ \A i \in 1..Len(c) : c[i] \in 0..9
  BY DEF Digits
<1>2. \A x \in 0..9 : (2 * x) \div 10 + ((2 * x) % 10) = IF x > 4 THEN 2 * x - 9 ELSE 2 * x
  OBVIOUS
<1>3. \A i \in 1..Len(c) : (Len(c) - i) % 2 = 1 <=> (Len(c) - i) % 2 # 0
  BY <1>1
<1>4. ASSUME NEW i \in DOMAIN c PROVE Counts(c)[i] = Weight(c, i)
  BY <1>1, <1>2, <1>3, <1>4 DEF Counts, Weight
<1> QED
  BY <1>4 DEF Counts, Weights

\* The sum that isValidCC takes.
LEMMA ValidSum ==
  ASSUME NEW c \in Digits, ValidCC(c)
  PROVE  SumAll(Weights(c)) % 10 = 0
<1>1. Weights(c) \in [1..Len(c) -> Nat] /\ Len(c) \in Nat /\ DOMAIN c = 1..Len(c)
  BY WeightsType DEF Digits
<1>2. IsFiniteSet(1..Len(c))
  BY <1>1, FS_Interval
<1> DEFINE g == Weights(c)
           D == 1..Len(c)
<1>3. MapThenSumSet(LAMBDA i : g[i], DOMAIN g) % 10 = 0
  BY Zenon DEF ValidCC, CheckSum
<1>4. DOMAIN g = D /\ IsFiniteSet(D) /\ g \in [D -> Nat]
  BY <1>1, <1>2
<1> HIDE DEF g, D
<1>5. MapThenSumSet(LAMBDA k : g[k], D) = SumAll(g)
  BY <1>4, FoldIsSum
<1>6. MapThenSumSet(LAMBDA k : g[k], D) % 10 = 0
  BY <1>3, <1>4
<1>7. SumAll(g) % 10 = 0
  BY <1>5, <1>6
<1> QED
  BY <1>7 DEF g

\* A digit is wrong.
Wrong(c, i, d) == [c EXCEPT ![i] = d]

\* Two digits never count the same.
LEMMA WeightTells ==
  ASSUME NEW c \in Digits, NEW i \in DOMAIN c, NEW d \in 0..9, d # c[i]
  PROVE  /\ Wrong(c, i, d) \in Digits /\ Len(Wrong(c, i, d)) = Len(c)
         /\ Weight(Wrong(c, i, d), i) # Weight(c, i)
         /\ \A j \in DOMAIN c \ {i} : Weight(Wrong(c, i, d), j) = Weight(c, j)
<1> DEFINE e == Wrong(c, i, d)
<1>1. Len(c) \in Nat /\ DOMAIN c = 1..Len(c) /\ c[i] \in 0..9 /\ i \in 1..Len(c)
  BY DEF Digits
<1>2. e \in Digits /\ Len(e) = Len(c) /\ e[i] = d /\ \A j \in DOMAIN c \ {i} : e[j] = c[j]
  BY <1>1, ExceptSeq DEF Digits, Wrong
<1> HIDE DEF e
<1>3. Weight(e, i) # Weight(c, i)
  BY <1>1, <1>2 DEF Weight
<1>4. \A j \in DOMAIN c \ {i} : Weight(e, j) = Weight(c, j)
  BY <1>2 DEF Weight
<1> QED
  BY <1>2, <1>3, <1>4 DEF e

\* Sums of which one has a digit more are not both multiples of ten.
LEMMA NotBoth ==
  ASSUME NEW s \in Nat, NEW a \in 0..9, NEW b \in 0..9, a # b
  PROVE  (s + a) % 10 = 0 => (s + b) % 10 # 0
OBVIOUS

\* One wrong digit is found.
LEMMA WrongDigit ==
  ASSUME NEW c \in Digits, ValidCC(c), NEW i \in DOMAIN c, NEW d \in 0..9, d # c[i]
  PROVE  ~ValidCC(Wrong(c, i, d))
<1> SUFFICES ASSUME ValidCC(Wrong(c, i, d)) PROVE FALSE
  OBVIOUS
<1> DEFINE e == Wrong(c, i, d)
           D == 1..Len(c)
           g == Weights(c)
           h == Weights(e)
<1>1. /\ e \in Digits /\ Len(e) = Len(c) /\ Weight(e, i) # Weight(c, i)
      /\ \A j \in DOMAIN c \ {i} : Weight(e, j) = Weight(c, j)
  BY WeightTells
<1> HIDE DEF e
<1>2. DOMAIN c = D /\ DOMAIN e = D /\ Len(c) \in Nat /\ i \in D
  BY <1>1 DEF Digits
<1>3. SumAll(g) % 10 = 0 /\ SumAll(h) % 10 = 0
  BY <1>1, ValidSum DEF e
<1>4. /\ g \in [D -> Nat] /\ h \in [D -> Nat] /\ IsFiniteSet(D)
      /\ Weight(c, i) \in 0..9 /\ Weight(e, i) \in 0..9
  <2>1. g \in [D -> Nat] /\ Weight(c, i) \in 0..9
    BY <1>2, WeightsType
  <2>2. h \in [D -> Nat] /\ Weight(e, i) \in 0..9
    BY <1>1, <1>2, WeightsType
  <2>3. IsFiniteSet(D)
    BY <1>2, FS_Interval
  <2> QED
    BY <2>1, <2>2, <2>3
<1>5. /\ g[i] = Weight(c, i) /\ h[i] = Weight(e, i)
      /\ \A j \in D \ {i} : g[j] = h[j]
  BY <1>1, <1>2 DEF Weights
<1> HIDE DEF g, h, D
<1>6. /\ SumAll(g) = g[i] + SumOver(g, D \ {i}) /\ SumAll(h) = h[i] + SumOver(h, D \ {i})
      /\ SumOver(g, D \ {i}) \in Nat
  BY <1>2, <1>4, SumSplit
<1>7. SumOver(g, D \ {i}) = SumOver(h, D \ {i})
  BY <1>4, <1>5, SumCongruence
<1>8. g[i] \in 0..9 /\ h[i] \in 0..9 /\ g[i] # h[i]
  BY <1>1, <1>4, <1>5
<1> DEFINE s == SumOver(g, D \ {i})
<1>9. s \in Nat /\ (s + g[i]) % 10 = 0 /\ (s + h[i]) % 10 = 0
  <2>1. SumAll(g) = s + g[i] /\ SumAll(h) = s + h[i] /\ s \in Nat
    BY <1>6, <1>7, <1>8
  <2> QED
    BY <1>3, <2>1
<1> HIDE DEF s
<1> QED
  BY <1>8, <1>9, NotBoth

\* A number is reported when the check of the standard lets it pass, and with any one
\* digit changed it would not.
LEMMA CardIsRead == ParsedInv => CardRead
<1> SUFFICES ASSUME ParsedInv, Parsed, Last.app.kind = "card"
             PROVE  /\ Read.dpi.card # <<>> <=> Len(Last.app.digits) \in 13..16 /\ Luhn(Last.app.digits)
                    /\ Read.dpi.card # <<>> =>
                         /\ Len(Read.dpi.card) = 4
                         /\ \A i \in DOMAIN Last.app.digits : \A d \in 0..9 \ {Last.app.digits[i]} :
                              ~ValidCC([Last.app.digits EXCEPT ![i] = d])
  BY DEF CardRead
<1>1. Read.dpi.card = IF Found(Last.app.digits) /\ ValidCC(Last.app.digits)
                      THEN Masked(Last.app.digits) ELSE <<>>
  BY ParseFields DEF ParsedInv
<1>2. Last.app.digits \in Digits
  BY FramesAssumption DEF ParsedInv, Digits
<1> DEFINE c == Last.app.digits
<1>3. Len(c) \in Nat /\ (Found(c) <=> Len(c) \in 13..16)
  BY <1>2 DEF Digits, Found
<1>4. Luhn(c) <=> CheckSum(Weights(c)) % 10 = 0
  BY <1>2, CountsAreWeights DEF Luhn
<1>5. Found(c) => (ValidCC(c) <=> Luhn(c))
  <2>1. Len(c) \in 13..16 => Len(c) \in 13..19
    BY <1>3
  <2> QED
    BY <1>3, <1>4, <2>1 DEF ValidCC
<1> HIDE DEF c
<1>6. Found(c) => Len(Masked(c)) = 4
  BY <1>2, <1>3 DEF c, Digits, Masked
<1>7. Found(c) => Masked(c) # <<>>
  BY <1>6
<1> QED
  BY <1>1, <1>2, <1>3, <1>5, <1>6, <1>7, WrongDigit DEF c, Wrong

\* Of the numbers in a payload those are reported that pass the check of the standard.
THEOREM CardsAreRead == Spec => []CardRead
<1>1. Init => ParsedInv
  BY DEF Init, ParsedInv, Parsed
<1> QED
  BY <1>1, CardIsRead, LoopInit, LoopStep, ParsedStep, PTL DEF Spec
-----------------------------------------------------------------------------
(* The server name *)

Bytes == Seq(0..255)

\* The n bytes of b behind the first o are w, all printable, and what follows is not.
Reads(b, o, w, n) ==
  /\ b \in Bytes /\ w \in Bytes /\ o \in Nat /\ n \in Nat
  /\ Len(w) = n /\ o + n <= Len(b)
  /\ \A j \in 1..n : b[o + j] = w[j] /\ Printable(w[j])
  /\ o + n < Len(b) => ~Printable(b[o + n + 1])

\* Word returns the run of printable bytes that starts at an offset.
LEMMA WordIs ==
  ASSUME NEW b, NEW o, NEW w, NEW n, Reads(b, o, w, n), NEW i, i = o + 1
  PROVE  Word(b, i) = w
<1>0. PICK l, k : l = Len(b) /\ k = o + n
  OBVIOUS
<1>1. /\ b \in Seq(0..255) /\ w \in Seq(0..255) /\ o \in Nat /\ n \in Nat
      /\ Len(w) = n /\ k <= l
      /\ \A j \in 1..n : b[o + j] = w[j] /\ Printable(w[j])
      /\ k < l => ~Printable(b[k + 1])
  BY <1>0 DEF Reads, Bytes
<1>2. l \in Nat /\ k \in Nat /\ k = o + n /\ i = o + 1 /\ i \in Nat
  BY <1>0, <1>1
<1> DEFINE stops == {j \in i..l : ~Printable(b[j])}
<1>3. Word(b, i) = SubSeq(b, i, IF stops = {} THEN l ELSE Min(stops) - 1)
  BY <1>0 DEF Word
<1>4. \A j \in i..k : Printable(b[j])
  <2> SUFFICES ASSUME NEW j \in i..k PROVE Printable(b[j])
    OBVIOUS
  <2>1. PICK x : x = j - o
    OBVIOUS
  <2>2. x \in 1..n /\ o + x = j
    BY ONLY <1>1, <1>2, <2>1, j \in i..k
  <2> QED
    BY <1>1, <2>2
<1>5. Word(b, i) = SubSeq(b, i, k)
  <2>1. CASE k = l
    <3>1. stops = {}
      BY <1>4, <2>1
    <3> QED
      BY <1>3, <2>1, <3>1
  <2>2. CASE k < l
    <3>1. k + 1 \in stops /\ stops \in SUBSET Int /\ \A j \in stops : k + 1 <= j
      BY <1>1, <1>2, <1>4, <2>2
    <3> HIDE DEF stops
    <3>2. Min(stops) = k + 1
      BY <3>1, MinIs
    <3>3. Min(stops) - 1 = k
      BY <1>2, <3>2
    <3> QED
      BY <1>3, <3>1, <3>3
  <2> QED
    BY <1>1, <1>2, <2>1, <2>2
<1>6. SubSeq(b, i, k) = w
  <2>1. PICK u : u = SubSeq(b, i, k)
    OBVIOUS
  <2>2. u \in Seq(0..255) /\ Len(u) = n /\ \A j \in 1..n : u[j] = b[o + j]
    <3>1. \A j \in i..k : b[j] \in 0..255
      <4>1. \A j \in 1..l : b[j] \in 0..255
        BY <1>0, <1>1
      <4>2. \A j \in i..k : j \in 1..l
        BY ONLY <1>1, <1>2
      <4> QED
        BY <4>1, <4>2
    <3>2. k - i + 1 = n /\ \A j \in 1..n : i + j - 1 = o + j
      BY <1>1, <1>2
    <3> QED
      BY <1>0, <1>1, <1>2, <2>1, <3>1, <3>2, SubSeqProperties
  <2> QED
    BY <1>1, <2>1, <2>2, SeqEqual
<1> QED
  BY <1>5, <1>6

\* u is s and then t.
Joins(u, s, t) ==
  /\ Len(u) = Len(s) + Len(t)
  /\ \A i \in 1..Len(s) : u[i] = s[i]
  /\ \A i \in 1..Len(t) : u[Len(s) + i] = t[i]

\* A concatenation holds its two parts, one after the other.
LEMMA Joined ==
  ASSUME NEW S, NEW s \in Seq(S), NEW t \in Seq(S)
  PROVE  s \o t \in Seq(S) /\ Joins(s \o t, s, t)
<1>1. /\ s \o t \in Seq(S) /\ Len(s \o t) = Len(s) + Len(t) /\ Len(s) \in Nat /\ Len(t) \in Nat
      /\ \A i \in 1 .. Len(s) + Len(t) : (s \o t)[i] = IF i <= Len(s) THEN s[i] ELSE t[i - Len(s)]
  BY ConcatProperties
<1> DEFINE u == s \o t
           l == Len(s)
           m == Len(t)
<1>2. ASSUME NEW i \in 1..m PROVE u[l + i] = t[i]
  <2>1. l \in Nat /\ m \in Nat /\ i \in 1..m
    BY <1>1
  <2>2. \A k \in 1 .. l + m : u[k] = IF k <= l THEN s[k] ELSE t[k - l]
    BY <1>1
  <2> HIDE DEF u, l, m
  <2>3. PICK k : k = l + i
    OBVIOUS
  <2>4. k \in 1 .. l + m /\ ~(k <= l) /\ k - l = i
    BY <2>1, <2>3
  <2>5. u[k] = t[k - l]
    BY <2>2, <2>4
  <2> QED
    BY <2>3, <2>4, <2>5
<1>3. ASSUME NEW i \in 1..l PROVE u[i] = s[i]
  BY <1>1
<1> QED
  BY <1>1, <1>2, <1>3 DEF Joins

\* b is the ClientHello p, whose extension starts at position at, with n bytes of name and
\* m behind it.
HelloOf(b, p, at, n, m) ==
  /\ b \in Bytes /\ Len(b) = at + 8 + n + m /\ Len(p.name) = n /\ Len(p.rest) = m
  /\ \A i \in 1..at - 1 : b[i] = p.pre[i]
  /\ b[at] = 0 /\ b[at + 1] = 0 /\ b[at + 2] = 0 /\ b[at + 3] = n + 5 /\ b[at + 4] = 0
  /\ b[at + 5] = n + 3 /\ b[at + 6] = 0 /\ b[at + 7] = 0 /\ b[at + 8] = n
  /\ \A i \in 1..n : b[at + 8 + i] = p.name[i]
  /\ \A i \in 1..m : b[at + 8 + n + i] = p.rest[i]

\* Where each byte of a client hello lies.
LEMMA HelloBytes ==
  ASSUME NEW p, p.pre \in Bytes, p.name \in Bytes, p.rest \in Bytes, Len(p.name) < 250,
         NEW at, at = Len(p.pre) + 1, NEW n, n = Len(p.name), NEW m, m = Len(p.rest)
  PROVE  HelloOf(ClientHello(p), p, at, n, m) /\ at \in Nat /\ n \in Nat /\ m \in Nat
<1> DEFINE head == <<0, 0, 0, n + 5, 0, n + 3, 0, 0, n>>
           B == 0..255
           s1 == p.pre \o head
           s2 == s1 \o p.name
           b == s2 \o p.rest
<1>1. /\ Len(p.pre) \in Nat /\ n \in Nat /\ m \in Nat /\ n < 250 /\ at \in Nat
      /\ at = Len(p.pre) + 1
  BY DEF Bytes
<1>2. Len(p.name) = n /\ Len(p.rest) = m
  OBVIOUS
<1>3. head \in Seq(B) /\ Len(head) = 9
  <2>1. n + 5 \in B /\ n + 3 \in B /\ n \in B /\ 0 \in B
    BY ONLY <1>1
  <2> HIDE DEF B
  <2> QED
    BY <2>1
<1>4. /\ head[1] = 0 /\ head[2] = 0 /\ head[3] = 0 /\ head[4] = n + 5 /\ head[5] = 0
      /\ head[6] = n + 3 /\ head[7] = 0 /\ head[8] = 0 /\ head[9] = n
  BY <1>1
<1>5. p.pre \in Seq(B) /\ p.name \in Seq(B) /\ p.rest \in Seq(B)
  BY DEF Bytes
<1>6. ClientHello(p) = b
  BY DEF ClientHello
<1> DEFINE l == at - 1
           k == at + 8
           o == at + 8 + n
<1>7. l \in Nat /\ k \in Nat /\ o \in Nat /\ l = Len(p.pre)
  BY ONLY <1>1
<1> HIDE DEF head, B
<1>8. /\ s1 \in Seq(B) /\ Len(s1) = l + 9
      /\ \A i \in 1..l : s1[i] = p.pre[i]
      /\ \A i \in 1..9 : s1[l + i] = head[i]
  <2>1. s1 \in Seq(B) /\ Joins(s1, p.pre, head)
    BY <1>3, <1>5, Joined
  <2> HIDE DEF l, s1
  <2> QED
    BY ONLY <1>3, <1>7, <2>1, Zenon DEF Joins
<1> HIDE DEF s1
<1>9. Len(s1) = k
  BY <1>1, <1>8
<1>10. /\ s2 \in Seq(B) /\ Len(s2) = k + n
       /\ \A i \in 1..k : s2[i] = s1[i]
       /\ \A i \in 1..n : s2[k + i] = p.name[i]
  <2>1. s2 \in Seq(B) /\ Joins(s2, s1, p.name)
    BY <1>5, <1>8, Joined
  <2> HIDE DEF k, s2
  <2> QED
    BY ONLY <1>9, <1>2, <2>1, Zenon DEF Joins
<1> HIDE DEF s2
<1>11. Len(s2) = o
  BY <1>10
<1>12. /\ b \in Seq(B) /\ Len(b) = o + m
       /\ \A i \in 1..o : b[i] = s2[i]
       /\ \A i \in 1..m : b[o + i] = p.rest[i]
  <2>1. b \in Seq(B) /\ Joins(b, s2, p.rest)
    BY <1>5, <1>10, Joined
  <2> HIDE DEF o, b
  <2> QED
    BY ONLY <1>11, <1>2, <2>1, Zenon DEF Joins
<1> HIDE DEF b
<1>13. ASSUME NEW i \in 1..9 PROVE b[l + i] = head[i]
  <2>1. l + i \in 1..k /\ l + i \in 1..o
    BY ONLY <1>1
  <2> QED
    BY <1>8, <1>10, <1>12, <2>1
<1>14. ASSUME NEW i \in 1..l PROVE b[i] = p.pre[i]
  <2>1. i \in 1..k /\ i \in 1..o
    BY ONLY <1>1
  <2> QED
    BY <1>8, <1>10, <1>12, <2>1
<1>15. ASSUME NEW i \in 1..n PROVE b[k + i] = p.name[i]
  <2>1. k + i \in 1..o
    BY ONLY <1>1
  <2> QED
    BY <1>10, <1>12, <2>1
<1>16. /\ b[at] = head[1] /\ b[at + 1] = head[2] /\ b[at + 2] = head[3] /\ b[at + 3] = head[4]
       /\ b[at + 4] = head[5] /\ b[at + 5] = head[6] /\ b[at + 6] = head[7] /\ b[at + 7] = head[8]
       /\ b[at + 8] = head[9]
  <2>1. /\ l + 1 = at /\ l + 2 = at + 1 /\ l + 3 = at + 2 /\ l + 4 = at + 3
        /\ l + 5 = at + 4 /\ l + 6 = at + 5 /\ l + 7 = at + 6 /\ l + 8 = at + 7
        /\ l + 9 = at + 8
    BY <1>1
  <2>2. 1 \in 1..9 /\ 2 \in 1..9 /\ 3 \in 1..9 /\ 4 \in 1..9 /\ 5 \in 1..9 /\ 6 \in 1..9
        /\ 7 \in 1..9 /\ 8 \in 1..9 /\ 9 \in 1..9
    OBVIOUS
  <2> HIDE DEF l
  <2>3. /\ b[l + 1] = head[1] /\ b[l + 2] = head[2] /\ b[l + 3] = head[3] /\ b[l + 4] = head[4]
        /\ b[l + 5] = head[5] /\ b[l + 6] = head[6] /\ b[l + 7] = head[7] /\ b[l + 8] = head[8]
        /\ b[l + 9] = head[9]
    BY <1>13, <2>2, Zenon
  <2> QED
    BY <2>1, <2>3, Zenon
<1>17. b \in Bytes /\ Len(b) = at + 8 + n + m
  BY <1>12 DEF B, Bytes
<1> QED
  BY <1>1, <1>2, <1>4, <1>6, <1>12, <1>14, <1>15, <1>16, <1>17 DEF HelloOf

\* Where a byte is not printable, or the next is not, no name starts.
LEMMA ShortWord ==
  ASSUME NEW b \in Bytes, NEW i \in 1..Len(b), ~Printable(b[i]) \/ (i < Len(b) /\ ~Printable(b[i + 1]))
  PROVE  ~IsName(Word(b, i))
<1>0. PICK o : o = i - 1
  OBVIOUS
<1>1. Len(b) \in Nat /\ b \in Seq(0..255) /\ b[i] \in 0..255
  <2>1. b \in Seq(0..255)
    BY DEF Bytes
  <2>2. b[i] \in 0..255
    BY <2>1, ElementOfSeq
  <2>3. Len(b) \in Nat
    BY <2>1
  <2> QED
    BY <2>1, <2>2, <2>3
<1>2. o \in Nat /\ i = o + 1 /\ i \in Nat /\ i <= Len(b) /\ o + 0 = o /\ o + 0 + 1 = i
  BY <1>0, <1>1
<1>3. CASE ~Printable(b[i])
  <2>1. <<>> \in Bytes /\ Len(<<>>) = 0
    BY DEF Bytes
  <2>2. Reads(b, o, <<>>, 0)
    BY <1>1, <1>2, <1>3, <2>1 DEF Reads
  <2>3. Word(b, i) = <<>>
    BY <1>2, <2>2, WordIs
  <2> QED
    BY <2>1, <2>3 DEF IsName
<1>4. CASE Printable(b[i])
  <2>1. PICK w : w = <<b[i]>>
    OBVIOUS
  <2>2. w \in Bytes /\ Len(w) = 1 /\ w[1] = b[i]
    BY <1>1, <2>1 DEF Bytes
  <2>3. o + 1 < Len(b) => ~Printable(b[o + 1 + 1])
    BY <1>2, <1>4
  <2>4. \A j \in 1..1 : b[o + j] = w[j] /\ Printable(w[j])
    BY <1>2, <1>4, <2>2
  <2>5. Reads(b, o, w, 1)
    BY <1>1, <1>2, <2>2, <2>3, <2>4 DEF Reads
  <2>6. Word(b, i) = w
    BY <1>2, <2>5, WordIs
  <2>7. ~IsName(w)
    BY <2>2 DEF IsName
  <2> QED
    BY <2>6, <2>7
<1> QED
  BY <1>3, <1>4

\* The words at the name, before it and behind its first byte.
Words(b, p, at, n) ==
  /\ Word(b, at + 9) = p.name
  /\ Word(b, at + 10) = Tail(p.name)
  /\ Printable(n) => Word(b, at + 8) = <<n>> \o p.name

\* The printable words of a client hello at its name, and one byte to either side.
LEMMA NameWords ==
  ASSUME NEW p, p.name \in Bytes, p.rest \in Bytes, NEW b, NEW at \in Nat \ {0}, NEW n \in Nat, NEW m \in Nat,
         HelloOf(b, p, at, n, m), n > 1,
         \A i \in DOMAIN p.name : Printable(p.name[i]), p.rest # <<>> => ~Printable(p.rest[1])
  PROVE  Words(b, p, at, n)
<1>0. PICK o, k, x : o = at + 8 /\ k = at + 8 + n /\ x = at + 7
  OBVIOUS
<1>1. /\ b \in Seq(0..255) /\ b[o] = n
      /\ \A i \in 1..n : b[o + i] = p.name[i]
      /\ p.name \in Seq(0..255) /\ p.rest \in Seq(0..255) /\ b \in Bytes
      /\ Len(p.name) = n
  BY <1>0 DEF HelloOf, Bytes
<1>2. Len(b) = k + m /\ (\A i \in 1..m : b[k + i] = p.rest[i]) /\ Len(p.rest) = m
  BY <1>0 DEF HelloOf
<1>3. /\ o \in Nat /\ k \in Nat /\ x \in Nat /\ k = o + n /\ o = x + 1
      /\ at + 9 = o + 1 /\ at + 10 = o + 2 /\ at + 8 = o
  BY ONLY <1>0, at \in Nat, n \in Nat
<1>4. k <= Len(b) /\ Len(b) \in Nat
  BY ONLY <1>2, <1>3, m \in Nat
<1>5. k < Len(b) => ~Printable(b[k + 1])
  <2> SUFFICES ASSUME k < Len(b) PROVE ~Printable(b[k + 1])
    OBVIOUS
  <2>1. 1 \in 1..m
    BY ONLY <1>2, <1>3, k < Len(b), m \in Nat
  <2>2. p.rest # <<>>
    BY <1>2, <2>1
  <2>3. b[k + 1] = p.rest[1]
    BY <1>2, <2>1
  <2> QED
    BY <2>2, <2>3
<1>6. \A i \in 1..n : Printable(p.name[i])
  BY <1>1
<1>7. Word(b, o + 1) = p.name
  <2>1. Reads(b, o, p.name, n)
    BY <1>1, <1>3, <1>4, <1>5, <1>6 DEF Reads, Bytes
  <2> QED
    BY <2>1, WordIs
<1>8. Word(b, o + 2) = Tail(p.name)
  <2>1. PICK w, l, q : w = Tail(p.name) /\ l = n - 1 /\ q = o + 1
    OBVIOUS
  <2>2. l \in Nat /\ q \in Nat /\ q + l = k /\ o + 2 = q + 1 /\ l + 1 = n
    BY ONLY <1>3, <2>1, n \in Nat, n > 1
  <2>3. w \in Seq(0..255) /\ Len(w) = l /\ \A j \in 1..l : w[j] = p.name[j + 1]
    BY <1>1, <2>1
  <2>4. ASSUME NEW j \in 1..l PROVE b[q + j] = w[j] /\ Printable(w[j])
    <3>1. PICK i : i = j + 1
      OBVIOUS
    <3>2. i \in 1..n /\ q + j = o + i
      BY ONLY <1>3, <2>1, <2>2, <3>1, n \in Nat, j \in 1..l
    <3> QED
      BY <1>1, <1>6, <2>3, <3>1, <3>2
  <2>5. Reads(b, q, w, l)
    BY <1>1, <1>4, <1>5, <2>2, <2>3, <2>4 DEF Reads, Bytes
  <2>6. Word(b, o + 2) = w
    BY <2>2, <2>5, WordIs
  <2> QED
    BY <2>1, <2>6
<1>9. ASSUME Printable(n) PROVE Word(b, o) = <<n>> \o p.name
  <2>1. <<n>> \in Seq(0..255) /\ Len(<<n>>) = 1 /\ <<n>>[1] = n
    BY <1>9 DEF Printable
  <2>2. PICK w, l : w = <<n>> \o p.name /\ l = n + 1
    OBVIOUS
  <2>3. w \in Seq(0..255) /\ Joins(w, <<n>>, p.name)
    BY <1>1, <2>1, <2>2, Joined
  <2>4. Len(w) = 1 + n /\ w[1] = n /\ \A i \in 1..n : w[1 + i] = p.name[i]
    BY <1>1, <2>1, <2>3 DEF Joins
  <2>5. l \in Nat /\ x + l = k /\ Len(w) = l
    BY ONLY <1>3, <2>2, <2>4, n \in Nat
  <2>6. ASSUME NEW j \in 1..l PROVE b[x + j] = w[j] /\ Printable(w[j])
    <3>1. CASE j = 1
      BY <1>1, <1>3, <1>9, <2>4, <3>1
    <3>2. CASE j # 1
      <4>1. PICK i : i = j - 1
        OBVIOUS
      <4>2. i \in 1..n /\ 1 + i = j /\ x + j = o + i
        BY ONLY <1>3, <2>2, <3>2, <4>1, n \in Nat, j \in 1..l
      <4> QED
        BY <1>1, <1>6, <2>4, <4>2
    <3> QED
      BY <3>1, <3>2
  <2>7. Reads(b, x, w, l)
    BY <1>1, <1>3, <1>4, <1>5, <2>3, <2>5, <2>6 DEF Reads, Bytes
  <2>8. Word(b, o) = w
    BY <1>3, <2>7, WordIs
  <2> QED
    BY <2>2, <2>8
<1> QED
  BY <1>3, <1>7, <1>8, <1>9 DEF Words

\* Where parseTLS finds the name, and what of it.
NameFrom(b, p, at, n, first) ==
  IF first = at THEN Tail(p.name)
  ELSE IF first + 1 < at /\ Printable(n) THEN <<n>> \o p.name ELSE p.name

\* The bytes between the start of the extension and the length of the name start no name.
LEMMA BetweenWords ==
  ASSUME NEW p, NEW b, NEW at \in Nat \ {0}, NEW n \in Nat, NEW m \in Nat, HelloOf(b, p, at, n, m),
         NEW i \in at..at + 7
  PROVE  ~IsName(Word(b, i))
<1>1. b \in Bytes /\ Len(b) = at + 8 + n + m
  BY DEF HelloOf
<1>2. i \in 1..Len(b) /\ i < Len(b) /\ i + 1 <= Len(b)
  BY ONLY <1>1, at \in Nat \ {0}, n \in Nat, m \in Nat, i \in at..at + 7
<1>3. ~Printable(0)
  BY DEF Printable
<1>4. ~Printable(b[i]) \/ ~Printable(b[i + 1])
  <2>1. /\ b[at] = 0 /\ b[at + 1] = 0 /\ b[at + 2] = 0 /\ b[at + 4] = 0 /\ b[at + 6] = 0 /\ b[at + 7] = 0
    BY DEF HelloOf
  <2>2. \/ i = at \/ i = at + 1 \/ i = at + 2 \/ i = at + 4 \/ i = at + 6 \/ i = at + 7
        \/ i + 1 = at + 4 \/ i + 1 = at + 6
    BY ONLY at \in Nat \ {0}, i \in at..at + 7
  <2> QED
    BY <1>3, <2>1, <2>2
<1> QED
  BY <1>1, <1>2, <1>4, ShortWord

\* With its tail the name is one too, and so is it behind its length.
LEMMA Names ==
  ASSUME NEW name \in Bytes, NEW n \in Nat, n = Len(name), n < 250, IsName(Tail(name))
  PROVE  n > 4 /\ IsName(name) /\ (Printable(n) => IsName(<<n>> \o name))
<1>1. PICK w, l : w = Tail(name) /\ l = n - 1
  OBVIOUS
<1>2. name \in Seq(0..255) /\ Len(name) = n
  BY DEF Bytes
<1>3. Len(w) > 3 /\ Len(w) < 253 /\ \E i \in DOMAIN w : w[i] = Dot
  BY <1>1 DEF IsName
<1>4. name # <<>>
  <2>1. CASE name = <<>>
    <3>1. w = <<>>
      BY <1>1, <2>1
    <3> QED
      BY <1>3, <3>1
  <2> QED
    BY <2>1
<1>5. w \in Seq(0..255) /\ Len(w) = l /\ \A i \in 1..l : w[i] = name[i + 1]
  BY <1>1, <1>2, <1>4
<1>6. n > 4
  BY ONLY <1>1, <1>3, <1>5, n \in Nat
<1>7. PICK i \in 1..l : w[i] = Dot
  BY <1>3, <1>5
<1>8. PICK j : j = i + 1
  OBVIOUS
<1>9. j \in 1..n /\ name[j] = Dot
  <2>1. j \in 1..n
    BY ONLY <1>1, <1>8, i \in 1..l, n \in Nat
  <2> QED
    BY <1>5, <1>7, <1>8, <2>1
<1>10. IsName(name)
  BY <1>2, <1>6, <1>9 DEF IsName
<1>11. ASSUME Printable(n) PROVE IsName(<<n>> \o name)
  <2>1. <<n>> \in Seq(0..255) /\ Len(<<n>>) = 1
    <3>1. n \in 0..255
      BY ONLY n \in Nat, n < 250
    <3> QED
      BY ONLY <3>1
  <2>2. PICK u : u = <<n>> \o name
    OBVIOUS
  <2>3. u \in Seq(0..255) /\ Joins(u, <<n>>, name)
    BY <1>2, <2>1, <2>2, Joined
  <2>4. Len(u) = 1 + n /\ \A k \in 1..n : u[1 + k] = name[k]
    BY <1>2, <2>1, <2>3 DEF Joins
  <2>5. PICK k : k = 1 + j
    OBVIOUS
  <2>6. k \in 1..1 + n /\ u[k] = Dot
    BY <1>9, <2>4, <2>5
  <2>7. Len(u) > 3 /\ Len(u) < 253
    BY ONLY <1>6, <2>4, n \in Nat, n < 250
  <2>8. k \in DOMAIN u
    BY <2>3, <2>4, <2>6
  <2>9. IsName(u)
    BY <2>6, <2>7, <2>8 DEF IsName
  <2> QED
    BY <2>2, <2>9
<1> QED
  BY <1>6, <1>10, <1>11

\* Which bytes of a ClientHello are taken for its name.
LEMMA NameFound ==
  ASSUME NEW p, p.pre \in Bytes, p.name \in Bytes, p.rest \in Bytes, NEW b,
         NEW at \in Nat, NEW n \in Nat, NEW m \in Nat, HelloOf(b, p, at, n, m),
         at > 1, p.pre[1] = 22, n < 250, n + m >= 12,
         IsName(Tail(p.name)), \A i \in DOMAIN p.name : Printable(p.name[i]),
         p.rest # <<>> => ~Printable(p.rest[1]),
         NEW first, first = Min(ZeroPairs(b)),
         \A i \in first + 10..at - 1 : ~IsName(Word(b, i))
  PROVE  Sni(b) = NameFrom(b, p, at, n, first)
<1> DEFINE names == {i \in Starts(b) : IsName(Word(b, i))}
<1>1. b \in Bytes /\ b \in Seq(0..255)
  BY DEF HelloOf, Bytes
<1>2. Len(b) = at + 8 + n + m /\ b[at] = 0 /\ b[at + 1] = 0 /\ b[at + 8] = n /\ b[1] = 22
  <2>1. 1 \in 1..at - 1
    BY ONLY at \in Nat, at > 1
  <2> QED
    BY <2>1 DEF HelloOf
<1>3. Len(p.name) = n
  BY DEF HelloOf
<1>4. n > 4 /\ IsName(p.name) /\ (Printable(n) => IsName(<<n>> \o p.name))
  BY <1>3, Names
<1>5. Words(b, p, at, n)
  BY <1>4, NameWords
<1>6. at \in ZeroPairs(b) /\ ZeroPairs(b) \in SUBSET Nat
  <2>1. at \in 1..Len(b) - 1
    BY ONLY <1>2, at \in Nat, n \in Nat, m \in Nat, at > 1
  <2>2. Len(b) \in Nat
    BY <1>1
  <2>3. ZeroPairs(b) \in SUBSET Nat
    BY <2>2 DEF ZeroPairs
  <2> QED
    BY <1>2, <2>1, <2>3 DEF ZeroPairs
<1>7. first \in Nat /\ first <= at /\ ZeroPairs(b) # {}
  BY <1>6, MinIn
<1>8. PICK up : up = Len(b) - 10
  OBVIOUS
<1>9. up \in Nat /\ up >= at + 10 /\ Len(b) >= 5
  BY ONLY <1>2, <1>8, at \in Nat, n \in Nat, m \in Nat, n + m >= 12, at > 1
<1>10. Starts(b) = first + 10..up
  BY <1>8 DEF Starts
<1>11. names # {} => Sni(b) = Word(b, Min(names))
  BY <1>2, <1>7, <1>9 DEF Sni
<1>12. names \in SUBSET Int
  BY <1>10
<1>13. \A i \in names : i \in first + 10..up /\ IsName(Word(b, i))
  BY <1>10
<1>14. \A i \in first + 10..up : IsName(Word(b, i)) => i \in names
  BY <1>10
<1> HIDE DEF names
<1>15. ASSUME NEW i \in first + 10..up, IsName(Word(b, i)), \A x \in names : i <= x
       PROVE  Sni(b) = Word(b, i)
  <2>1. i \in names
    BY <1>14, <1>15
  <2>2. Min(names) = i
    BY <1>12, <1>15, <2>1, MinIs
  <2> QED
    BY <1>11, <2>1, <2>2
<1>16. CASE first = at
  <2>1. PICK i : i = at + 10
    OBVIOUS
  <2>2. i \in first + 10..up /\ \A x \in first + 10..up : i <= x
    BY ONLY <1>9, <1>16, <2>1, at \in Nat, up \in Nat
  <2>3. Word(b, i) = Tail(p.name)
    BY <1>5, <2>1 DEF Words
  <2> QED
    BY <1>13, <1>15, <1>16, <2>2, <2>3 DEF NameFrom
<1>17. CASE first + 1 = at
  <2>1. PICK i : i = at + 9
    OBVIOUS
  <2>2. i \in first + 10..up /\ (\A x \in first + 10..up : i <= x) /\ first # at /\ ~(first + 1 < at)
    BY ONLY <1>7, <1>9, <1>17, <2>1, at \in Nat, up \in Nat
  <2>3. Word(b, i) = p.name
    BY <1>5, <2>1 DEF Words
  <2> QED
    BY <1>4, <1>13, <1>15, <2>2, <2>3 DEF NameFrom
<1>18. CASE first + 1 < at
  <2>1. ASSUME NEW x \in names PROVE x >= at + 8 /\ x \in Nat
    <3>1. x \in first + 10..up /\ IsName(Word(b, x))
      BY <1>13
    <3>2. x \notin at..at + 7
      BY <3>1, BetweenWords
    <3>3. x \notin first + 10..at - 1
      BY <3>1
    <3> QED
      BY ONLY <1>7, <1>9, <3>1, <3>2, <3>3, at \in Nat
  <2>2. CASE Printable(n)
    <3>1. PICK i : i = at + 8
      OBVIOUS
    <3>2. i \in first + 10..up /\ first # at
      BY ONLY <1>7, <1>9, <1>18, <3>1, at \in Nat
    <3>3. Word(b, i) = <<n>> \o p.name
      BY <1>5, <2>2, <3>1 DEF Words
    <3>4. \A x \in names : i <= x
      BY <2>1, <3>1
    <3> QED
      BY <1>4, <1>15, <1>18, <2>2, <3>2, <3>3, <3>4 DEF NameFrom
  <2>3. CASE ~Printable(n)
    <3>1. PICK i, o : i = at + 9 /\ o = at + 8
      OBVIOUS
    <3>2. i \in first + 10..up /\ first # at /\ o \in 1..Len(b)
      BY ONLY <1>2, <1>7, <1>8, <1>9, <1>18, <3>1, at \in Nat
    <3>3. Word(b, i) = p.name
      BY <1>5, <3>1 DEF Words
    <3>4. ~IsName(Word(b, o))
      BY <1>1, <1>2, <2>3, <3>1, <3>2, ShortWord
    <3>5. ASSUME NEW x \in names PROVE i <= x
      <4>1. x # o
        BY <1>13, <3>4
      <4>2. x >= at + 8 /\ x \in Nat
        BY <2>1
      <4> QED
        BY ONLY <3>1, <4>1, <4>2, at \in Nat
    <3> QED
      BY <1>4, <1>15, <2>3, <3>2, <3>3, <3>5 DEF NameFrom
  <2> QED
    BY <2>2, <2>3
<1> QED
  BY <1>7, <1>16, <1>17, <1>18

\* Where the extension of the ClientHello p starts.
Start(p) == Len(p.pre) + 1

\* What is taken for the name of a ClientHello that is looked into as a whole: what is
\* before the zeros of the extension decides.
NameTaken(p) ==
  NameFrom(ClientHello(p), p, Start(p), Len(p.name), Min(ZeroPairs(ClientHello(p))))

\* The server name stored is that of the client hello, or a byte more or less.
LEMMA NameIsTaken ==
  ParsedInv /\ Parsed /\ Last.app.kind = "hello" /\ NameInSight(Last.app)
    => Read.dpi.sni = NameTaken(Last.app)
<1> SUFFICES ASSUME ParsedInv, Parsed, Last.app.kind = "hello", NameInSight(Last.app)
             PROVE  Read.dpi.sni = NameTaken(Last.app)
  OBVIOUS
<1> DEFINE f == Last
           p == f.app
<1>1. PICK drawn, again \in BOOLEAN : f \in Frames /\ Read = Parse(f, drawn, again)
  BY DEF ParsedInv
<1>2. /\ {p.pre, p.name, p.rest} \subseteq Seq(0..255) /\ p.pre # <<>> /\ p.pre[1] = 22
      /\ Len(p.name) < 250 /\ "TCP" \in f.layers
  BY <1>1, FramesAssumption
<1>3. PICK at, n, m : at = Len(p.pre) + 1 /\ n = Len(p.name) /\ m = Len(p.rest)
  OBVIOUS
<1>4. p.pre \in Bytes /\ p.name \in Bytes /\ p.rest \in Bytes
  BY <1>2 DEF Bytes
<1>5. PICK b : b = ClientHello(p)
  OBVIOUS
<1>6. Read.dpi.sni = Sni(b)
  <2> HIDE DEF f
  <2>1. Read.dpi.sni = IF p.kind = "hello" /\ "TCP" \in f.layers THEN Sni(ClientHello(p)) ELSE <<>>
    BY <1>1, ParseFields
  <2> QED
    BY <1>2, <1>5, <2>1 DEF f
<1>7. NameInSight(p)
  OBVIOUS
<1> HIDE DEF p
<1>8. HelloOf(b, p, at, n, m) /\ at \in Nat /\ n \in Nat /\ m \in Nat
  BY <1>2, <1>3, <1>4, <1>5, HelloBytes
<1>9. at > 1 /\ at - 1 = Len(p.pre)
  BY <1>2, <1>3
<1>10. PICK first : first = Min(ZeroPairs(b))
  OBVIOUS
<1>11. /\ IsName(Tail(p.name)) /\ n + m >= 12
       /\ \A i \in DOMAIN p.name : Printable(p.name[i])
       /\ p.rest # <<>> => ~Printable(p.rest[1])
       /\ \A i \in first + 10..at - 1 : ~IsName(Word(b, i))
  BY <1>3, <1>5, <1>7, <1>9, <1>10 DEF NameInSight
<1>12. n < 250 /\ p.pre[1] = 22
  BY <1>2, <1>3
<1>13. Sni(b) = NameFrom(b, p, at, n, first)
  BY <1>4, <1>8, <1>9, <1>10, <1>11, <1>12, NameFound
<1>14. NameTaken(p) = NameFrom(b, p, at, n, first)
  BY <1>3, <1>5, <1>10 DEF NameTaken, Start
<1> QED
  BY <1>6, <1>13, <1>14 DEF p

\* What is taken for the name is a piece of the ClientHello.
LEMMA TakenIsNear ==
  ASSUME NEW p, p.pre \in Bytes, p.name \in Bytes, p.rest \in Bytes, Len(p.name) < 250, Len(p.name) > 1,
         NEW start, start = Len(p.pre) + 10, NEW n, n = Len(p.name)
  PROVE  \E i \in start - 1..start + 1 : NameTaken(p) = SubSeq(ClientHello(p), i, start + n - 1)
<1>1. PICK b, at, m : b = ClientHello(p) /\ at = Len(p.pre) + 1 /\ m = Len(p.rest)
  OBVIOUS
<1>2. HelloOf(b, p, at, n, m) /\ at \in Nat /\ n \in Nat /\ m \in Nat
  BY <1>1, HelloBytes
<1>3. PICK o, k : o = at + 8 /\ k = at + 8 + n
  OBVIOUS
<1>4. /\ b \in Seq(0..255) /\ b[o] = n /\ Len(b) = k + m
      /\ \A i \in 1..n : b[o + i] = p.name[i]
      /\ p.name \in Seq(0..255) /\ Len(p.name) = n
  BY <1>2, <1>3 DEF HelloOf, Bytes
<1>5. o \in Nat /\ k \in Nat /\ k = o + n /\ start = o + 1 /\ start + n - 1 = k
  <2>1. Len(p.pre) \in Nat
    BY DEF Bytes
  <2> QED
    BY ONLY <1>1, <1>2, <1>3, <2>1, start = Len(p.pre) + 10
<1>6. o > 0 /\ k <= Len(b) /\ n > 1 /\ n < 250 /\ Len(b) \in Nat
  <2>1. n > 1 /\ n < 250
    OBVIOUS
  <2> QED
    BY ONLY <1>2, <1>3, <1>4, <1>5, <2>1
<1>7. \A j \in 1..Len(b) : b[j] \in 0..255
  BY <1>4, ElementOfSeq
<1>8. ASSUME NEW i \in o..o + 2
      PROVE  /\ SubSeq(b, i, k) \in Seq(0..255) /\ Len(SubSeq(b, i, k)) = k - i + 1
             /\ \A j \in 1..k - i + 1 : SubSeq(b, i, k)[j] = b[i + j - 1]
  <2>1. i \in Nat /\ k \in Nat /\ i <= k + 1
    BY ONLY <1>5, <1>6, <1>2, i \in o..o + 2
  <2>2. \A j \in i..k : b[j] \in 0..255
    <3>1. \A j \in i..k : j \in 1..Len(b)
      BY ONLY <1>5, <1>6, i \in o..o + 2
    <3> QED
      BY <1>7, <3>1
  <2> QED
    BY <1>4, <2>1, <2>2, SubSeqProperties
<1>9. SubSeq(b, o + 1, k) = p.name
  <2>1. PICK u : u = SubSeq(b, o + 1, k)
    OBVIOUS
  <2>2. o + 1 \in o..o + 2 /\ k - (o + 1) + 1 = n /\ \A j \in 1..n : o + 1 + j - 1 = o + j
    BY <1>2, <1>5
  <2>3. u \in Seq(0..255) /\ Len(u) = n /\ \A j \in 1..n : u[j] = b[o + j]
    BY <1>8, <2>1, <2>2
  <2>4. PICK w : w = p.name
    OBVIOUS
  <2>5. w \in Seq(0..255) /\ Len(w) = n /\ \A j \in 1..n : u[j] = w[j]
    BY ONLY <1>4, <2>3, <2>4
  <2>6. u = w
    BY ONLY <2>3, <2>5, SeqEqual
  <2> QED
    BY <2>1, <2>4, <2>6
<1>10. SubSeq(b, o + 2, k) = Tail(p.name)
  <2>1. PICK u, w, l : u = SubSeq(b, o + 2, k) /\ w = Tail(p.name) /\ l = n - 1
    OBVIOUS
  <2>2. /\ o + 2 \in o..o + 2 /\ k - (o + 2) + 1 = l
        /\ \A j \in 1..l : o + 2 + j - 1 = o + (j + 1) /\ j + 1 \in 1..n
    BY <1>2, <1>5, <1>6, <2>1
  <2>3. u \in Seq(0..255) /\ Len(u) = l /\ \A j \in 1..l : u[j] = b[o + (j + 1)]
    BY <1>8, <2>1, <2>2
  <2>4. w \in Seq(0..255) /\ Len(w) = l /\ \A j \in 1..l : w[j] = p.name[j + 1]
    BY <1>4, <1>6, <2>1
  <2>5. \A j \in 1..l : u[j] = w[j]
    BY <1>4, <2>2, <2>3, <2>4
  <2> QED
    BY <2>1, <2>3, <2>4, <2>5, SeqEqual
<1>11. SubSeq(b, o, k) = <<n>> \o p.name
  <2>1. <<n>> \in Seq(0..255) /\ Len(<<n>>) = 1 /\ <<n>>[1] = n
    <3>1. n \in 0..255
      BY ONLY <1>2, <1>6
    <3> QED
      BY ONLY <3>1
  <2>2. PICK u, w, l : u = SubSeq(b, o, k) /\ w = <<n>> \o p.name /\ l = n + 1
    OBVIOUS
  <2>3. w \in Seq(0..255) /\ Joins(w, <<n>>, p.name)
    BY <1>4, <2>1, <2>2, Joined
  <2>4. Len(w) = l /\ w[1] = n /\ \A j \in 1..n : w[1 + j] = p.name[j]
    BY <1>2, <1>4, <2>1, <2>2, <2>3 DEF Joins
  <2>5. o \in o..o + 2 /\ k - o + 1 = l
    BY <1>2, <1>5, <2>2
  <2>6. u \in Seq(0..255) /\ Len(u) = l /\ \A j \in 1..l : u[j] = b[o + j - 1]
    BY <1>8, <2>2, <2>5
  <2>7. ASSUME NEW j \in 1..l PROVE u[j] = w[j]
    <3>1. CASE j = 1
      <4>1. o + 1 - 1 = o
        BY <1>5
      <4> QED
        BY <1>4, <2>4, <2>6, <3>1, <4>1
    <3>2. CASE j # 1
      <4>1. PICK i : i = j - 1
        OBVIOUS
      <4>2. i \in 1..n /\ 1 + i = j /\ o + j - 1 = o + i
        BY ONLY <1>2, <1>5, <2>2, <3>2, <4>1, j \in 1..l
      <4> QED
        BY <1>4, <2>4, <2>6, <4>2
    <3> QED
      BY <3>1, <3>2
  <2>8. u = w
    BY ONLY <2>3, <2>4, <2>6, <2>7, SeqEqual
  <2> QED
    BY <2>2, <2>8
<1>12. {o, o + 1, o + 2} \subseteq start - 1..start + 1
  BY ONLY <1>5
<1>13. NameTaken(p) \in {Tail(p.name), p.name, <<n>> \o p.name}
  BY DEF NameTaken, NameFrom
<1>14. \E i \in {o, o + 1, o + 2} : NameTaken(p) = SubSeq(b, i, k)
  BY ONLY <1>9, <1>10, <1>11, <1>13, Zenon
<1>15. PICK i \in {o, o + 1, o + 2} : NameTaken(p) = SubSeq(b, i, k)
  BY <1>14
<1>16. i \in start - 1..start + 1
  BY <1>12, <1>15
<1>17. SubSeq(b, i, k) = SubSeq(ClientHello(p), i, start + n - 1)
  BY <1>1, <1>5, Zenon
<1> QED
  BY <1>15, <1>16, <1>17, Zenon

\* The name stored is the piece NameNear speaks of.
LEMMA NameIsNear == ParsedInv => NameNear
<1> SUFFICES ASSUME ParsedInv, Parsed, Last.app.kind = "hello", NameInSight(Last.app),
                    NEW start, start = Len(Last.app.pre) + 10
             PROVE  \E i \in start - 1..start + 1 :
                      Read.dpi.sni = SubSeq(ClientHello(Last.app), i, start + Len(Last.app.name) - 1)
  BY DEF NameNear
<1>1. {Last.app.pre, Last.app.name, Last.app.rest} \subseteq Seq(0..255) /\ Len(Last.app.name) < 250
  BY FramesAssumption DEF ParsedInv
<1> DEFINE name == Last.app.name
<1>2. Len(name) > 1
  <2>1. IsName(Tail(name)) /\ name \in Bytes
    BY <1>1 DEF NameInSight, Bytes
  <2> HIDE DEF name
  <2>2. Len(name) \in Nat
    BY <2>1 DEF Bytes
  <2>3. Len(name) < 250
    BY <1>1 DEF name
  <2>4. Len(name) > 4
    BY <2>1, <2>2, <2>3, Names
  <2> QED
    BY <2>2, <2>4
<1>3. PICK p, n : p = Last.app /\ n = Len(p.name)
  OBVIOUS
<1>4. p.pre \in Bytes /\ p.name \in Bytes /\ p.rest \in Bytes /\ Len(p.name) < 250 /\ Len(p.name) > 1
  BY <1>1, <1>2, <1>3 DEF Bytes
<1>5. start = Len(p.pre) + 10
  BY <1>3
<1>6. \E i \in start - 1..start + 1 : NameTaken(p) = SubSeq(ClientHello(p), i, start + n - 1)
  BY ONLY <1>3, <1>4, <1>5, TakenIsNear
<1>7. Read.dpi.sni = NameTaken(p)
  BY <1>3, NameIsTaken
<1> QED
  BY <1>3, <1>6, <1>7, Zenon

\* Wherever the extension is and whatever is before it, the name stored of a ClientHello
\* that is looked into as a whole is its own up to a byte at the start.
THEOREM NamesAreNear == Spec => []NameNear
<1>1. Init => ParsedInv
  BY DEF Init, ParsedInv, Parsed
<1> QED
  BY <1>1, NameIsNear, LoopInit, LoopStep, ParsedStep, PTL DEF Spec
=============================================================================
