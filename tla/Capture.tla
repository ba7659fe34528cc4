------------------------------- MODULE Capture -------------------------------
(***************************************************************************)
(* capture.Capturer with the handler of the filter form.  One goroutine    *)
(* opens the device and reads it, or makes packets up when that fails; it  *)
(* counts each packet in the metrics before it hands it to the store.      *)
(* SetFilter holds the mutex, so it is one step; its handler writes to the *)
(* audit log in another.  c.mock is set without the mutex when the device  *)
(* cannot be opened: SetFilter may then read either value, whenever it     *)
(* comes.                                                                  *)
(***************************************************************************)
EXTENDS Dpi

CONSTANTS
  Frames,     \* what may come from the device
  Exprs,      \* what may be asked for as a filter
  Valid,      \* the expressions libpcap compiles
  Requests,   \* requests of the form that may be at work at once
  MaxPkts,    \* bound: packets
  MaxCalls    \* bound: requests in a behaviour

\* What the payloads are made of, as in Dpi; a ClientHello is in a handshake record.
ASSUME FramesAssumption ==
  \A f \in Frames :
    /\ f.size \in Nat
    /\ f.app.kind = "http" => f.app.lines \in
         Seq([key : STRING, proper : BOOLEAN, padded : BOOLEAN, val : STRING])
    /\ f.app.kind = "card" => f.app.digits \in Seq(0..9)
    /\ f.app.kind = "hello" =>
         /\ {f.app.pre, f.app.name, f.app.rest} \subseteq Seq(0..255)
         /\ f.app.pre # <<>> /\ f.app.pre[1] = 22 /\ Len(f.app.name) < 250
         /\ "TCP" \in f.layers

ASSUME CaptureAssumption ==
  /\ Valid \subseteq Exprs /\ IsFiniteSet(Requests) /\ MaxPkts \in Nat /\ MaxCalls \in Nat

VARIABLES
  source,    \* "opening", "device", "mock", "closing" or "ended"
  mock,      \* c.mock, and whether it was set beside the mutex
  handle,    \* "nil", "live" or "closed"
  filter,    \* c.filter
  applied,   \* the filter in the handle
  loop,      \* the packet in the hands of the loop: [step, frame]
  metrics,   \* what a scrape reads: [packets, bytes, active]
  added,     \* packets handed to the store, their bytes, the last one: [packets, bytes, last]
  request,   \* each request of the form: [step, expr, ok]
  calls,     \* requests so far
  audit,     \* entries of the audit log: [expr, ok]
  changes,   \* history: the filters that were set, in order
  crashed    \* the process is gone

loopVars   == <<source, handle, loop, metrics, added>>
filterVars == <<filter, applied, request, calls, audit, changes>>
vars       == <<mock, loopVars, filterVars, crashed>>

NoFrame   == [step |-> "read", frame |-> None]
NoRequest == [step |-> "idle", expr |-> None, ok |-> FALSE]
Nothing   == [frame |-> None, pkt |-> None]

\* Start: without an interface the mock goroutine is started, and mock set before it.
Init ==
  /\ \/ source = "opening" /\ mock = [set |-> FALSE, raced |-> FALSE]
     \/ source = "mock" /\ mock = [set |-> TRUE, raced |-> FALSE]
  /\ handle = "nil" /\ filter = None /\ applied = None
  /\ loop = NoFrame
  /\ metrics = [packets |-> 0, bytes |-> 0, active |-> IF source = "mock" THEN 1 ELSE 0]
  /\ added = [packets |-> 0, bytes |-> 0, last |-> Nothing]
  /\ request = [r \in Requests |-> NoRequest] /\ calls = 0
  /\ audit = <<>> /\ changes = <<>>
  /\ crashed = FALSE

-----------------------------------------------------------------------------
(* The capture goroutine *)

OpenDevice ==
  /\ ~crashed /\ source = "opening"
  /\ source' = "device" /\ handle' = "live"
  /\ metrics' = [metrics EXCEPT !.active = @ + 1]
  /\ UNCHANGED <<mock, loop, added, filterVars, crashed>>

OpenFails ==
  /\ ~crashed /\ source = "opening"
  /\ source' = "mock" /\ mock' = [set |-> TRUE, raced |-> TRUE]
  /\ metrics' = [metrics EXCEPT !.active = @ + 1]
  /\ UNCHANGED <<handle, loop, added, filterVars, crashed>>

\* The next packet: PacketsCaptured.Inc ...
CountPacket(f) ==
  /\ ~crashed /\ source \in {"device", "mock"}
  /\ loop.step = "read" /\ metrics.packets < MaxPkts
  /\ loop' = [step |-> "bytes", frame |-> f]
  /\ metrics' = [metrics EXCEPT !.packets = @ + 1]
  /\ UNCHANGED <<source, mock, handle, added, filterVars, crashed>>

\* ... BytesCaptured.Add ...
CountBytes ==
  /\ ~crashed /\ loop.step = "bytes"
  /\ loop' = [loop EXCEPT !.step = "add"]
  /\ metrics' = [metrics EXCEPT !.bytes = @ + loop.frame.size]
  /\ UNCHANGED <<source, mock, handle, added, filterVars, crashed>>

\* A packet made up has intel exactly when it is flagged.
MadeUp(f, drawn) ==
  [proto |-> Proto(f), flagged |-> drawn, dpi |-> NoDpi,
   intel |-> IF drawn THEN [domain |-> "mock", severity |-> "Medium"] ELSE NoIntel]

\* ... and store.Add of the packet made of it.
AddPacket ==
  /\ ~crashed /\ loop.step = "add"
  /\ \E drawn, again \in BOOLEAN :
       added' = [packets |-> added.packets + 1, bytes |-> added.bytes + loop.frame.size,
                 last |-> [frame |-> loop.frame,
                           pkt |-> IF source = "mock" THEN MadeUp(loop.frame, drawn)
                                   ELSE Parse(loop.frame, drawn, again)]]
  /\ loop' = NoFrame
  /\ UNCHANGED <<source, mock, handle, metrics, filterVars, crashed>>

\* The device is gone: the loop ends, the packets the device dropped are counted, which
\* no other counter is compared with, and the handle is closed.  It stays set ...
DeviceEnds ==
  /\ ~crashed /\ source = "device" /\ loop.step = "read"
  /\ source' = "closing" /\ handle' = "closed"
  /\ UNCHANGED <<mock, loop, metrics, added, filterVars, crashed>>

\* ... and ActiveCaptures.Dec, deferred before the Close, comes behind it.
CaptureEnds ==
  /\ ~crashed /\ source = "closing"
  /\ source' = "ended"
  /\ metrics' = [metrics EXCEPT !.active = @ - 1]
  /\ UNCHANGED <<mock, handle, loop, added, filterVars, crashed>>

-----------------------------------------------------------------------------
(* The filter *)

\* What SetFilter may read of c.mock.
MockRead == IF mock.raced THEN BOOLEAN ELSE {mock.set}

\* The reply of SetFilter is for the handler to log.
Replies(r, e, ok) ==
  /\ request' = [request EXCEPT ![r] = [step |-> "log", expr |-> e, ok |-> ok]]
  /\ changes' = IF ok THEN Append(changes, e) ELSE changes
  /\ calls' = calls + 1

Asked(r) == ~crashed /\ request[r].step = "idle" /\ calls < MaxCalls

\* In mock mode a filter is stored, whatever it says.
StoreFilter(r, e) ==
  /\ Asked(r) /\ TRUE \in MockRead
  /\ filter' = e
  /\ Replies(r, e, TRUE)
  /\ UNCHANGED <<mock, loopVars, applied, audit, crashed>>

\* Variant: the filter is stored before it is tried.
ApplyStoring(r, e) ==
  /\ Asked(r) /\ FALSE \in MockRead /\ handle = "live"
  /\ filter' = e
  /\ applied' = IF e \in Valid THEN e ELSE applied
  /\ Replies(r, e, e \in Valid)
  /\ UNCHANGED <<mock, loopVars, audit, crashed>>

ApplyFilter(r, e) ==
  /\ Asked(r) /\ FALSE \in MockRead /\ handle = "live"
  /\ e \in Valid
  /\ filter' = e /\ applied' = e
  /\ Replies(r, e, TRUE)
  /\ UNCHANGED <<mock, loopVars, audit, crashed>>

\* No handle yet, an expression that does not compile, or a handle that is closed.
RefuseFilter(r, e) ==
  /\ Asked(r) /\ FALSE \in MockRead
  /\ handle # "live" \/ e \notin Valid
  /\ Replies(r, e, FALSE)
  /\ UNCHANGED <<mock, loopVars, filter, applied, audit, crashed>>

\* External: libpcap is handed what Close has freed.
FilterCrashes ==
  /\ handle = "closed" /\ \E r \in Requests : Asked(r)
  /\ ~crashed /\ crashed' = TRUE
  /\ UNCHANGED <<mock, loopVars, filterVars>>

\* SET_FILTER_SUCCESS or SET_FILTER_FAILURE, unless the log cannot be written, which
\* nobody is told.
LogFilter(r) ==
  /\ ~crashed /\ request[r].step = "log"
  /\ \/ audit' = Append(audit, [expr |-> request[r].expr, ok |-> request[r].ok])
     \/ UNCHANGED audit
  /\ request' = [request EXCEPT ![r] = NoRequest]
  /\ UNCHANGED <<mock, loopVars, filter, applied, calls, changes, crashed>>

Next ==
  \/ OpenDevice \/ OpenFails \/ CountBytes \/ AddPacket \/ DeviceEnds \/ CaptureEnds \/ FilterCrashes
  \/ \E f \in Frames : CountPacket(f)
  \/ \E r \in Requests :
       LogFilter(r) \/ \E e \in Exprs : StoreFilter(r, e) \/ ApplyFilter(r, e) \/ RefuseFilter(r, e)

Spec == Init /\ [][Next]_vars
-----------------------------------------------------------------------------
(* Properties *)

\* Requests whose answer is still to be logged, and entries, of success with e.
Unlogged(e) == {r \in Requests : request[r].step = "log" /\ request[r].ok /\ request[r].expr = e}
Entries(e)  == {i \in DOMAIN audit : audit[i].ok /\ audit[i].expr = e}
Changes(e)  == {i \in DOMAIN changes : changes[i] = e}

\* What is told of the filter is so: the one ActiveFilter returns is the last that was
\* set and the one on the device, whatever was refused since; and each entry of success
\* in the audit log stands for a change of its own, none for a request that was refused.
FilterTold ==
  /\ filter = IF changes = <<>> THEN None ELSE changes[Len(changes)]
  /\ handle # "nil" => applied = filter
  /\ \A e \in Exprs : Cardinality(Entries(e)) + Cardinality(Unlogged(e)) <= Cardinality(Changes(e))

\* The metrics are never behind the store, and ahead of it by one packet at most, with
\* one loop that captures: which packet a scrape falls in the middle of does not matter.
CountersLead ==
  /\ metrics.active = IF source \in {"device", "mock", "closing"} THEN 1 ELSE 0
  /\ metrics.packets = added.packets + (IF loop.step = "read" THEN 0 ELSE 1)
  /\ metrics.bytes = added.bytes + (IF loop.step = "add" THEN loop.frame.size ELSE 0)

\* The packet last handed to the store, and that it came from the device.
Last   == added.last.frame
Read   == added.last.pkt
Parsed == added.packets > 0 /\ source # "mock"

\* A request whose head has one line for a host, and that one spelled "Host:" as usual: the
\* two parsers, which differ in what they take for such a line and in where they look,
\* both name its host, whatever the body says.
HostRead == Parsed /\ Last.app.kind = "http" =>
  \A i \in HostLines(Heading(Last.app.lines)) :
    /\ HostLines(Heading(Last.app.lines)) = {i}
    /\ Last.app.lines[i].proper /\ ~Last.app.lines[i].padded
    /\ Last.app.url = None /\ Last.app.verb \in {"get", "post"} /\ Last.app.upper
    => /\ Read.dpi.host = Last.app.lines[i].val
       /\ Read.intel # NoIntel => Read.intel.domain = Read.dpi.host

\* The ClientHello is looked into as a whole: twelve bytes are left from the start of its
\* name on, the name is printable, what follows it is not, and nothing before the
\* extension looks like a name.
NameInSight(p) == LET hello == ClientHello(p) IN
  /\ IsName(Tail(p.name)) /\ Len(p.name) + Len(p.rest) >= 12
  /\ \A i \in DOMAIN p.name : Printable(p.name[i])
  /\ p.rest # <<>> => ~Printable(p.rest[1])
  /\ \A i \in Min(ZeroPairs(hello)) + 10..Len(p.pre) : ~IsName(Word(hello, i))

\* "best-effort extraction" (internal/dpi/dpi.go): what is reported of such a ClientHello
\* is a piece of it that ends with the server name and starts with it give or take a byte,
\* wherever the extension is and whatever zeros come before it.
NameNear == Parsed /\ Last.app.kind = "hello" /\ NameInSight(Last.app) =>
  LET start == Len(Last.app.pre) + 10
  IN  \E i \in start - 1..start + 1 :
        Read.dpi.sni = SubSeq(ClientHello(Last.app), i, start + Len(Last.app.name) - 1)

\* External, ISO/IEC 7812: every second digit, the one before the last being the first of
\* them, counts for the digits of its double.
Counts(card) == [i \in DOMAIN card |->
  IF (Len(card) - i) % 2 = 1 THEN (2 * card[i]) \div 10 + ((2 * card[i]) % 10) ELSE card[i]]
Luhn(card) == CheckSum(Counts(card)) % 10 = 0

\* A number is reported as that of a card exactly when it has a length the pattern looks
\* for, odd or even, and passes the check; with any one digit wrong it would not pass.
\* Four digits of it are shown.
CardRead == Parsed /\ Last.app.kind = "card" =>
  /\ Read.dpi.card # <<>> <=> Len(Last.app.digits) \in 13..16 /\ Luhn(Last.app.digits)
  /\ Read.dpi.card # <<>> =>
       /\ Len(Read.dpi.card) = 4
       /\ \A i \in DOMAIN Last.app.digits : \A d \in 0..9 \ {Last.app.digits[i]} :
            ~ValidCC([Last.app.digits EXCEPT ![i] = d])

\* "IF FLAGGED, PERFORM DEEP FORENSICS" (internal/capture/capture.go): a packet has the
\* results of the forensics exactly when it is flagged.
FlaggedInspected == added.packets > 0 => (Read.flagged <=> Read.intel # NoIntel)
=============================================================================
