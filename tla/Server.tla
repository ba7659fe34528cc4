------------------------------- MODULE Server -------------------------------
(***************************************************************************)
(* The life of the process, from main to its end, with the timers of its   *)
(* http.Server, the feeds and the requests of the exports page that run in *)
(* it.  A feed is a request that does not end by itself; its writes to the *)
(* client fail from WriteTimeout after its start on, and a failed write    *)
(* cancels its context.  Feeds are what stores and records packets.        *)
(*                                                                         *)
(* Time is counted in whole seconds: what is due in a second happens in    *)
(* it, the clock does not pass by a timer that has expired.                *)
(***************************************************************************)
EXTENDS Exporter

CONSTANTS
  Feeds,         \* requests for /sse/packets that may run at once
  WriteTimeout,  \* 15 seconds in the code
  Heartbeat,     \* 25
  Grace,         \* 10, for requests to end after a signal
  MaxStarts      \* bound: starts of the process

ASSUME TimersAssumption ==
  WriteTimeout \in Nat \ {0} /\ Heartbeat \in Nat \ {0} /\ Grace \in Nat /\ MaxStarts \in Nat

VARIABLES
  phase,    \* "boot", "up", "draining", "closing" or "down"
  starts,   \* how often the process was started
  hasDir,   \* ./exports exists
  boot,     \* steps of main that are done
  opened,   \* databases that are open, in order
  shutBy,   \* when Shutdown gives up
  feed      \* each feed: [step, since, beats]

lifeVars   == <<phase, starts, hasDir, boot, opened, shutBy>>
serverVars == <<vars, lifeVars, feed>>

NoFeed == [step |-> "off", since |-> 0, beats |-> 0]

ServerInit ==
  /\ Init
  /\ phase = "boot" /\ starts = 1 /\ boot = 0 /\ opened = <<>> /\ shutBy = 0
  /\ hasDir \in BOOLEAN
  /\ feed = [f \in Feeds |-> NoFeed]

-----------------------------------------------------------------------------
(* main *)

\* What main opens, in its order; "exports" is export.New, which makes the directory.
Steps == <<"session", "exports", "users", "audit", "alerts">>
Databases == <<"session", "users", "audit", "alerts">>

\* One step of main; a database cannot be opened in a directory that is not there.
Boot ==
  /\ phase = "boot" /\ boot < Len(Steps)
  /\ LET s == Steps[boot + 1] IN
       \/ /\ s = "exports"
          /\ hasDir' = TRUE /\ UNCHANGED opened
       \/ /\ s # "exports" /\ hasDir
          /\ opened' = Append(opened, s) /\ UNCHANGED hasDir
  /\ boot' = boot + 1
  /\ UNCHANGED <<vars, phase, starts, shutBy, feed>>

\* Everything is wired together: the server listens.
Listen ==
  /\ phase = "boot" /\ boot = Len(Steps)
  /\ phase' = "up"
  /\ UNCHANGED <<vars, starts, hasDir, boot, opened, shutBy, feed>>

\* The process ends at once: log.Fatal in main, a panic, a kill.  No deferred call runs.
Die ==
  /\ phase' = "down"
  /\ ProcessEnds
  /\ feed' = [f \in Feeds |-> NoFeed]
  /\ UNCHANGED <<starts, hasDir, boot, opened, shutBy>>

Crash == phase # "down" /\ Die

Signal ==
  /\ phase = "up" /\ now + Grace <= MaxTime
  /\ phase' = "draining" /\ shutBy' = now + Grace
  /\ UNCHANGED <<vars, starts, hasDir, boot, opened, feed>>

AtWork == (\E r \in Requests : job[r].step # "idle") \/ \E f \in Feeds : feed[f].step # "off"

\* Variant: Close where Shutdown should be, main does not wait.
ClosedAtOnce ==
  /\ phase = "draining"
  /\ phase' = "closing"
  /\ UNCHANGED <<vars, starts, hasDir, boot, opened, shutBy, feed>>

\* Shutdown returns: nothing is at work any more.
Drained ==
  /\ phase = "draining" /\ ~AtWork
  /\ phase' = "closing"
  /\ UNCHANGED <<vars, starts, hasDir, boot, opened, shutBy, feed>>

\* Variant: Shutdown with a context that does not expire.
WaitsOn == FALSE /\ UNCHANGED serverVars

\* Shutdown gives up, main ends in log.Fatal.
Forced == phase = "draining" /\ now >= shutBy /\ AtWork /\ Die

\* The deferred calls of main, the last one first; then the process ends.
Close ==
  /\ phase = "closing"
  /\ \/ /\ opened # <<>>
        /\ opened' = SubSeq(opened, 1, Len(opened) - 1)
        /\ UNCHANGED <<vars, phase, feed>>
     \/ opened = <<>> /\ phase' = "down" /\ ProcessEnds /\ UNCHANGED <<opened, feed>>
  /\ UNCHANGED <<starts, hasDir, boot, shutBy>>

\* The container is started again.
Restart ==
  /\ phase = "down" /\ starts < MaxStarts
  /\ phase' = "boot" /\ starts' = starts + 1
  /\ boot' = 0 /\ opened' = <<>> /\ shutBy' = 0
  /\ UNCHANGED <<vars, hasDir, feed>>

-----------------------------------------------------------------------------
(* Feeds *)

On(f) == feed[f].step = "on"

\* The write deadline of the connection, set when the request was read.
Late(f) == now - feed[f].since >= WriteTimeout

\* A heartbeat is due.
Due(f) == On(f) /\ now - feed[f].since >= Heartbeat * (feed[f].beats + 1)

\* The state of a feed after it has written to its client.
Written(f) == IF Late(f) THEN [feed[f] EXCEPT !.step = "cut"] ELSE feed[f]

Connect(f) ==
  /\ phase = "up" /\ feed[f].step = "off"
  /\ feed' = [feed EXCEPT ![f] = [NoFeed EXCEPT !.step = "on", !.since = now]]
  /\ UNCHANGED <<vars, lifeVars>>

\* A packet is written to the client and, whatever became of that, inserted; a select
\* may prefer it to a context that is done.
Push(f) ==
  /\ phase \in {"up", "draining"} /\ feed[f].step # "off"
  /\ Insert
  /\ feed' = [feed EXCEPT ![f] = Written(f)]
  /\ UNCHANGED <<lifeVars>>

Record(f) ==
  /\ phase \in {"up", "draining"} /\ feed[f].step # "off"
  /\ \E p \in 1..stored : WritePacket(p)
  /\ UNCHANGED <<lifeVars, feed>>

Beat(f) ==
  /\ Due(f)
  /\ feed' = [feed EXCEPT ![f] = [Written(f) EXCEPT !.beats = @ + 1]]
  /\ UNCHANGED <<vars, lifeVars>>

\* The client goes away.
Leave(f) ==
  /\ On(f)
  /\ feed' = [feed EXCEPT ![f].step = "cut"]
  /\ UNCHANGED <<vars, lifeVars>>

\* The handler sees its context done and returns.
Return(f) ==
  /\ feed[f].step = "cut"
  /\ feed' = [feed EXCEPT ![f] = NoFeed]
  /\ UNCHANGED <<vars, lifeVars>>

-----------------------------------------------------------------------------
(* Requests of the exports page *)

\* Those of one step are accepted and answered at once.
Manage ==
  /\ phase = "up"
  /\ StartPCAP \/ StopPCAP \/ \E n \in DOMAIN dir : DeleteFile(n)
  /\ UNCHANGED <<lifeVars, feed>>

Accept(r) ==
  /\ phase = "up"
  /\ \/ \E kind \in {"csv", "json"} : Query(r, kind)
     \/ \E n \in DOMAIN dir : Open(r, n)
  /\ UNCHANGED <<lifeVars, feed>>

\* From the write deadline on a download cannot write to its client either.
Proceed(r) ==
  /\ \/ Work(r)
     \/ now - job[r].since < WriteTimeout /\ Copy(r)
  /\ UNCHANGED <<lifeVars, feed>>

\* A second passes when no heartbeat is due, main is waiting and Shutdown not to return.
Second ==
  /\ \A f \in Feeds : ~Due(f)
  /\ phase \notin {"boot", "closing"} /\ ~(phase = "draining" /\ now >= shutBy)
  /\ Tick
  /\ UNCHANGED <<lifeVars, feed>>

ServerNext ==
  \/ Boot \/ Listen \/ Crash \/ Signal \/ Drained \/ Forced \/ Close \/ Restart
  \/ Manage \/ Second
  \/ \E f \in Feeds : Connect(f) \/ Push(f) \/ Record(f) \/ Beat(f) \/ Leave(f) \/ Return(f)
  \/ \E r \in Requests : Accept(r) \/ Proceed(r)

\* Time passes, timers fire and main goes on.  Nothing is assumed of requests and feeds,
\* which may take as long as they like.
ServerSpec ==
  /\ ServerInit /\ [][ServerNext]_serverVars
  /\ WF_serverVars(Second) /\ WF_serverVars(Drained \/ Forced) /\ WF_serverVars(Close)
  /\ \A f \in Feeds : WF_serverVars(Beat(f))
-----------------------------------------------------------------------------
(* Properties *)

\* Whatever the order of starts, signals and crashes, no handler ever works on a
\* database that is closed or not open yet, nor in a directory that is not there.
ServedOpen == AtWork => opened = Databases /\ hasDir /\ phase \in {"up", "draining"}

\* "Heartbeat prevents Tailscale / NAT / firewalls from closing idle TCP sockets"
\* (handlers/handlers.go): a feed whose client is there goes on after a heartbeat.
HeartbeatKeepsAlive ==
  [][\A f \in Feeds : feed'[f].beats > feed[f].beats => feed'[f].step = "on"]_serverVars

\* A signal ends the process, whatever feeds and exports are still at work.
SignalEnds == phase = "draining" ~> phase = "down"

\* What a download has handed to its connection begins the file as it was when its length
\* was declared, although the file is written, deleted or created beside it, if the file
\* is alone in its second.  One that ends by itself, neither its client nor the network
\* nor the disk having broken it off, has handed over the whole, unless the file was
\* written or emptied meanwhile or the process ended.
DownloadSound ==
  [][\A r \in Requests : job[r].step = "copy" /\ job'[r].step # "copy" =>
       /\ Alone(job[r].name)
            => job[r].sent = SubSeq(job[r].whole, 1, Len(job[r].sent))
       /\ \/ Len(job[r].sent) = Len(job[r].whole)
          \/ content[job[r].ino] # job[r].whole
          \/ job'[r].step = "broken"
          \/ phase' = "down"]_serverVars
=============================================================================
