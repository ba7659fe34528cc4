------------------------------ MODULE LiveFeed ------------------------------
(***************************************************************************)
(* The live packet feed: stats.Store with the goroutines that use it.  The *)
(* alert engine subscribes once, before the server listens.  Every request *)
(* for /sse/packets runs ssePackets in a goroutine of its own with a       *)
(* channel of its own, so a handler is named by its channel and a viewer   *)
(* that reconnects is another handler.  A handler takes a packet, writes   *)
(* it to its client, inserts it in the session database and hands it to    *)
(* the recording exporter: the viewers are what fills both.                *)
(***************************************************************************)
EXTENDS StatsStore

CONSTANTS
  Engine,     \* the channel of the alert engine
  MockGeo,    \* the process was started with MOCK_GEO=true
  PublicIPs   \* the addresses outside the private ranges of package geo

ASSUME EngineAssumption == Engine \in Chans
ASSUME GeoAssumption == MockGeo \in BOOLEAN /\ PublicIPs \subseteq IPs

Handlers == Chans \ {Engine}

VARIABLES
  pc,         \* where each handler is: "absent", "select", "insert", "record", "leaving", "gone"
  pkt,        \* the packet each handler is working on, 0 if none
  done,       \* the requests whose context is done
  rows,       \* the session database: [pkt, by] in order of insertion
  recording,  \* a recording is running
  pcap        \* what the running or last recording holds: [pkt, by] in order

storageVars == <<rows, recording, pcap>>
handlerVars == <<pc, pkt, done>>
liveVars    == <<vars, handlerVars, storageVars>>

LiveInit ==
  /\ Init
  /\ pc = [h \in Handlers |-> "absent"]
  /\ pkt = [h \in Handlers |-> 0]
  /\ done = {}
  /\ rows = <<>>
  /\ recording = FALSE
  /\ pcap = <<>>

-----------------------------------------------------------------------------
\* capture and SecondTicker: started first, they run whether anyone listens or not.
Capture(k) == Add(k) /\ UNCHANGED <<handlerVars, storageVars>>
Fanout     == Send /\ UNCHANGED <<handlerVars, storageVars>>
Second     == TickSecond /\ UNCHANGED <<handlerVars, storageVars>>

\* Engine.Start, before the server listens; Engine.ingest ranges over its
\* channel for the life of the process.
StartEngine == Subscribe(Engine) /\ UNCHANGED <<handlerVars, storageVars>>
Ingest      == Receive(Engine) /\ UNCHANGED <<handlerVars, storageVars>>

\* A request arrives: the headers are flushed, the handler subscribes.
Connect(h) ==
  /\ status[Engine] = "open"
  /\ pc[h] = "absent"
  /\ Subscribe(h)
  /\ pc' = [pc EXCEPT ![h] = "select"]
  /\ UNCHANGED <<pkt, done, storageVars>>

\* The client goes away, or a write misses the server's write deadline: either
\* way net/http cancels the context of the request.
Depart(h) ==
  /\ ~panicked
  /\ pc[h] \notin {"absent", "gone"}
  /\ done' = done \cup {h}
  /\ UNCHANGED <<vars, pc, pkt, storageVars>>

\* Locate has a made-up location for a private address; for a public one it asks
\* the database, which is nil under MOCK_GEO.
LocatePanics(k) == MockGeo /\ {k.src, k.dst} \cap PublicIPs # {}

\* The packet case of the select, which may win although the context is done:
\* enrich the packet and write it to the client, without looking at the error.
Take(h) ==
  /\ pc[h] = "select"
  /\ buf[h] # <<>> /\ ~LocatePanics(captured[Head(buf[h])])
  /\ Receive(h)
  /\ pkt' = [pkt EXCEPT ![h] = Head(buf[h])]
  /\ pc' = [pc EXCEPT ![h] = "insert"]
  /\ UNCHANGED <<done, storageVars>>

\* The same when Enrich panics: net/http recovers, deferred calls are still to run.
EnrichPanics(h) ==
  /\ pc[h] = "select"
  /\ buf[h] # <<>> /\ LocatePanics(captured[Head(buf[h])])
  /\ Receive(h)
  /\ pc' = [pc EXCEPT ![h] = "leaving"]
  /\ UNCHANGED <<pkt, done, storageVars>>

\* Variant: a retry that inserts once more.
InsertTwice(h) ==
  /\ ~panicked
  /\ pc[h] = "insert"
  /\ rows' = rows \o <<[pkt |-> pkt[h], by |-> h], [pkt |-> pkt[h], by |-> h]>>
  /\ pc' = [pc EXCEPT ![h] = "record"]
  /\ UNCHANGED <<vars, pkt, done, recording, pcap>>

\* database.Insert: an error is not looked at, the row is then missing.
Insert(h) ==
  /\ ~panicked
  /\ pc[h] = "insert"
  /\ \/ rows' = Append(rows, [pkt |-> pkt[h], by |-> h])
     \/ UNCHANGED rows
  /\ pc' = [pc EXCEPT ![h] = "record"]
  /\ UNCHANGED <<vars, pkt, done, recording, pcap>>

\* exporter.WritePacket, and back to the select: nothing is written without a
\* recording or when the write fails, whose error is not looked at.
WritePacket(h) ==
  /\ ~panicked
  /\ pc[h] = "record"
  /\ \/ recording /\ pcap' = Append(pcap, [pkt |-> pkt[h], by |-> h])
     \/ UNCHANGED pcap
  /\ pc' = [pc EXCEPT ![h] = "select"]
  /\ pkt' = [pkt EXCEPT ![h] = 0]
  /\ UNCHANGED <<vars, done, rows, recording>>

\* Variant: a handler that gives up on a slow client as well, without its context.
ReturnEarly(h) ==
  /\ ~panicked
  /\ pc[h] = "select"
  /\ pc' = [pc EXCEPT ![h] = "leaving"]
  /\ UNCHANGED <<vars, pkt, done, storageVars>>

\* The context case of the select: the handler returns ...
Return(h) ==
  /\ ~panicked
  /\ pc[h] = "select" /\ h \in done
  /\ pc' = [pc EXCEPT ![h] = "leaving"]
  /\ UNCHANGED <<vars, pkt, done, storageVars>>

\* Variant: the Unsubscribe is not deferred and the return skips it.
CleanupForgets(h) ==
  /\ ~panicked
  /\ pc[h] = "leaving"
  /\ pc' = [pc EXCEPT ![h] = "gone"]
  /\ UNCHANGED <<vars, pkt, done, storageVars>>

\* ... and its deferred Unsubscribe runs.
Cleanup(h) ==
  /\ pc[h] = "leaving"
  /\ Unsubscribe(h)
  /\ pc' = [pc EXCEPT ![h] = "gone"]
  /\ UNCHANGED <<pkt, done, storageVars>>

StartPCAP ==
  /\ ~panicked /\ ~recording
  /\ recording' = TRUE
  /\ pcap' = <<>>
  /\ UNCHANGED <<vars, handlerVars, rows>>

StopPCAP ==
  /\ ~panicked /\ recording
  /\ recording' = FALSE
  /\ UNCHANGED <<vars, handlerVars, rows, pcap>>

Handle(h) == \/ Take(h) \/ EnrichPanics(h) \/ Insert(h) \/ WritePacket(h)
             \/ Return(h) \/ Cleanup(h)

LiveNext ==
  \/ \E k \in Kinds : Capture(k)
  \/ Fanout \/ Second \/ StartEngine \/ Ingest \/ StartPCAP \/ StopPCAP
  \/ \E h \in Handlers : Connect(h) \/ Depart(h) \/ Handle(h)

\* Goroutines keep running.  A select with several ready cases picks one at
\* random, so a done context is not passed over for ever: Return is strongly fair.
LiveSpec ==
  /\ LiveInit /\ [][LiveNext]_liveVars
  /\ WF_vars(Send)
  /\ WF_liveVars(Ingest)
  /\ \A h \in Handlers :
       /\ WF_liveVars(Take(h) \/ EnrichPanics(h))
       /\ WF_liveVars(Insert(h)) /\ WF_liveVars(WritePacket(h))
       /\ SF_liveVars(Return(h)) /\ WF_liveVars(Cleanup(h))

-----------------------------------------------------------------------------
(* Properties *)

Entries == Seq([pkt : Nat, by : Handlers])

\* The types; a handler works on a packet exactly between its select and its
\* return to it.
LiveTypeOK ==
  /\ pc \in [Handlers -> {"absent", "select", "insert", "record", "leaving", "gone"}]
  /\ pkt \in [Handlers -> Nat]
  /\ done \subseteq Handlers
  /\ rows \in Entries /\ pcap \in Entries
  /\ recording \in BOOLEAN
  /\ \A h \in Handlers : pkt[h] # 0 <=> pc[h] \in {"insert", "record"}

\* A handler owns its channel: it is in the subscriber list exactly from Connect
\* to Cleanup, no handler ever receives from a closed channel, and the engine's
\* channel is never closed under it, so alerting never stops for want of input.
ChannelOwned ==
  /\ status[Engine] # "closed"
  /\ \A h \in Handlers :
       /\ status[h] = "unmade" <=> pc[h] = "absent"
       /\ status[h] = "closed" <=> pc[h] = "gone"

\* A packet it took had made Enrich panic.
Derailed(h) == \E i \in DOMAIN received[h] : LocatePanics(captured[received[h][i]])

\* The process only ever dies of a viewer that had departed, or whose handler had
\* panicked for a packet it took: a client that stays connected, however slow, is
\* never the reason.
PanicNeedsDeparture ==
  panicked => subs # <<>> /\ (Head(subs) \in done \/ Derailed(Head(subs)))

\* What a handler stores and records is what it received: in capture order, each
\* packet at most once, none it did not take from its channel.
StoredAsReceived ==
  \A s \in {rows, pcap} :
    /\ \A i, j \in DOMAIN s : i < j /\ s[i].by = s[j].by => s[i].pkt < s[j].pkt
    /\ \A i \in DOMAIN s : s[i].pkt \in ToSet(received[s[i].by])

\* A packet is stored at most once by each viewer that was there to see it.
RowsPerViewer ==
  \A n \in DOMAIN captured :
    Cardinality({i \in DOMAIN rows : rows[i].pkt = n})
      <= Cardinality({h \in Handlers : status[h] # "unmade" /\ joined[h] < n})

\* A departed viewer is forgotten: its handler returns, its channel is closed and
\* no longer costs Add anything, even while packets keep arriving.
DepartedForgotten ==
  \A h \in Handlers : h \in done ~> (status[h] = "closed" \/ panicked)
=============================================================================
