------------------------------ MODULE Exporter ------------------------------
(***************************************************************************)
(* export.Exporter and the handlers of the exports page.  A file has a     *)
(* name of its kind and the second it was created in; os.Create empties a  *)
(* file that has the name already, os.Remove takes the name away while     *)
(* open files live on.  So a directory maps names to inodes, and inodes    *)
(* are numbered in order of creation.                                      *)
(*                                                                         *)
(* StartPCAP, StopPCAP and WritePacket each hold the exporter's mutex and  *)
(* are one step.  The exports to CSV and JSON and the downloads hold       *)
(* nothing: each is a request of several steps, the others' between them.  *)
(* What a file holds is a sequence of items: the number of a packet, 0 for *)
(* a header or a snapshot.                                                 *)
(*                                                                         *)
(* The page deletes and serves whatever base name there is in ./exports,   *)
(* the databases among them; here there are the names of exports only.     *)
(***************************************************************************)
EXTENDS Integers, Sequences

CONSTANTS
  Requests,  \* requests that may be at work at once
  Chunk,     \* items io.Copy reads at a time
  MaxTime,   \* bound: seconds
  MaxPkts,   \* bound: packets stored, and packets in a recording
  MaxCalls   \* bound: requests in a behaviour

ASSUME ExporterAssumption ==
  Chunk \in Nat \ {0} /\ MaxTime \in Nat /\ MaxPkts \in Nat /\ MaxCalls \in Nat

VARIABLES
  now,       \* the second
  stored,    \* packets in the session database
  dir,       \* ./exports: the inode of each name
  content,   \* what each inode holds
  rec,       \* the Exporter struct: recording, the open file and its offset
  job,       \* what each request is at
  calls,     \* requests so far
  made,      \* history: how often a file of each name was created
  finished   \* history: recordings that were stopped, exports that were reported

fileVars == <<dir, content, made>>
vars     == <<now, stored, fileVars, rec, job, calls, finished>>

Kinds == {"pcap", "csv", "json"}
Hole  == -1  \* bytes nobody wrote
Torn  == -2  \* the header of a record without its packet

\* timestamp: names have the second in them.
Names         == Kinds \X (0..MaxTime)
Name(kind, t) == <<kind, t>>
NoName        == Name("none", 0)

NotRecording == [on |-> FALSE, name |-> NoName, ino |-> 0, off |-> 0]
Idle == [step |-> "idle", since |-> 0, kind |-> "none", name |-> NoName, ino |-> 0,
         whole |-> <<>>, sent |-> <<>>]

Init ==
  /\ now = 0 /\ stored = 0 /\ calls = 0
  /\ dir = <<>> /\ content = <<>>
  /\ rec = NotRecording
  /\ job = [r \in Requests |-> Idle]
  /\ made = [n \in Names |-> 0]
  /\ finished = {}

-----------------------------------------------------------------------------
InodeFor(n) == IF n \in DOMAIN dir THEN dir[n] ELSE Len(content) + 1

\* os.Create of a file of this kind, now, which holds s.
Create(kind, s) == LET n == Name(kind, now) IN
  /\ dir' = [m \in DOMAIN dir \cup {n} |-> IF m = n THEN InodeFor(n) ELSE dir[m]]
  /\ content' = IF n \in DOMAIN dir THEN [content EXCEPT ![dir[n]] = s]
                                    ELSE Append(content, s)
  /\ made' = [made EXCEPT ![n] = @ + 1]

\* Writing s to a file that holds c, at an offset.
Put(c, off, s) ==
  [i \in 1..(IF Len(c) > off + Len(s) THEN Len(c) ELSE off + Len(s)) |->
     IF i \in off + 1..off + Len(s) THEN s[i - off] ELSE IF i <= Len(c) THEN c[i] ELSE Hole]

Call == calls < MaxCalls /\ calls' = calls + 1

Tick == now < MaxTime /\ now' = now + 1 /\ UNCHANGED <<stored, fileVars, rec, job, calls, finished>>

\* A viewer's handler has inserted a packet.
Insert == /\ stored < MaxPkts /\ stored' = stored + 1
          /\ UNCHANGED <<now, fileVars, rec, job, calls, finished>>

-----------------------------------------------------------------------------
(* The recording *)

\* Variant: a start that does not look whether a recording runs.
StartAnyway ==
  /\ Call
  /\ Create("pcap", <<0>>)
  /\ rec' = [on |-> TRUE, name |-> Name("pcap", now), ino |-> InodeFor(Name("pcap", now)), off |-> 1]
  /\ UNCHANGED <<now, stored, job, finished>>

\* An early return leaves the file it created behind when its header cannot be
\* written; one that comes before changes nothing.
StartPCAP ==
  /\ ~rec.on /\ Call
  /\ \/ /\ Create("pcap", <<0>>)
        /\ rec' = [on |-> TRUE, name |-> Name("pcap", now), ino |-> InodeFor(Name("pcap", now)), off |-> 1]
     \/ Create("pcap", <<>>) /\ UNCHANGED rec
  /\ UNCHANGED <<now, stored, job, finished>>

StopPCAP ==
  /\ rec.on /\ rec' = NotRecording
  /\ finished' = finished \cup {[name |-> rec.name, holds |-> content[rec.ino]]}
  /\ UNCHANGED <<now, stored, fileVars, job, calls>>

\* By any viewer's handler, of a packet it has inserted, in two writes: an error of the
\* first changes nothing, one of the second leaves the record torn, and nobody is told.
WritePacket(p) ==
  /\ rec.on /\ rec.off <= MaxPkts
  /\ \E i \in {p, Torn} : content' = [content EXCEPT ![rec.ino] = Put(@, rec.off, <<i>>)]
  /\ rec' = [rec EXCEPT !.off = @ + 1]
  /\ UNCHANGED <<now, stored, dir, made, job, calls, finished>>

-----------------------------------------------------------------------------
(* Exports to CSV and JSON *)

\* QueryRecent, newest first, under the header; Snapshot, one item.
Rows(kind) == IF kind = "json" THEN <<0>>
              ELSE [i \in 1..stored + 1 |-> IF i = 1 THEN 0 ELSE stored + 2 - i]

Query(r, kind) ==
  /\ job[r].step = "idle" /\ Call
  /\ job' = [job EXCEPT ![r] = [Idle EXCEPT !.step = "create", !.since = now, !.kind = kind,
                                            !.whole = Rows(kind)]]
  /\ UNCHANGED <<now, stored, fileVars, rec, finished>>

CreateFile(r) ==
  /\ job[r].step = "create"
  /\ Create(job[r].kind, <<>>)
  /\ job' = [job EXCEPT ![r].step = "write", ![r].name = Name(job[r].kind, now),
                        ![r].ino = InodeFor(Name(job[r].kind, now))]
  /\ UNCHANGED <<now, stored, rec, calls, finished>>

\* The buffer of the encoder is written whenever it is full, and in the end.
WriteOut(r) ==
  /\ job[r].step = "write"
  /\ \E n \in Len(job[r].sent) + 1..Len(job[r].whole) :
       LET s == SubSeq(job[r].whole, Len(job[r].sent) + 1, n) IN
       /\ content' = [content EXCEPT ![job[r].ino] = Put(@, Len(job[r].sent), s)]
       /\ job' = [job EXCEPT ![r].sent = @ \o s]
  /\ UNCHANGED <<now, stored, dir, made, rec, calls, finished>>

\* Variant: the buffer is not flushed before the file is reported.
ReportUnflushed(r) ==
  /\ job[r].step = "write"
  /\ finished' = finished \cup {[name |-> job[r].name, holds |-> job[r].whole]}
  /\ job' = [job EXCEPT ![r] = Idle]
  /\ UNCHANGED <<now, stored, fileVars, rec, calls>>

\* The reply "created", once everything is written.
Report(r) ==
  /\ job[r].step = "write" /\ job[r].sent = job[r].whole
  /\ finished' = finished \cup {[name |-> job[r].name, holds |-> job[r].whole]}
  /\ job' = [job EXCEPT ![r] = Idle]
  /\ UNCHANGED <<now, stored, fileVars, rec, calls>>

\* An error at any point is replied; the file stays as far as it was written.
FailExport(r) ==
  /\ job[r].step \in {"create", "write"}
  /\ job' = [job EXCEPT ![r] = Idle]
  /\ UNCHANGED <<now, stored, fileVars, rec, calls, finished>>

-----------------------------------------------------------------------------
(* Deletion and download *)

\* os.Remove: open files live on.
DeleteFile(n) ==
  /\ n \in DOMAIN dir /\ Call
  /\ dir' = [m \in DOMAIN dir \ {n} |-> dir[m]]
  /\ UNCHANGED <<now, stored, content, made, rec, job, finished>>

\* os.Open ...
Open(r, n) ==
  /\ job[r].step = "idle" /\ n \in DOMAIN dir /\ Call
  /\ job' = [job EXCEPT ![r] = [Idle EXCEPT !.step = "stat", !.since = now,
                                            !.name = n, !.ino = dir[n]]]
  /\ UNCHANGED <<now, stored, fileVars, rec, finished>>

\* ... and Stat: the length of what the file holds by then is declared to the client.
Stat(r) ==
  /\ job[r].step = "stat"
  /\ job' = [job EXCEPT ![r].step = "copy", ![r].whole = content[job[r].ino]]
  /\ UNCHANGED <<now, stored, fileVars, rec, calls, finished>>

\* Its error is dropped: the handler panics, which net/http recovers from.
StatFails(r) ==
  /\ job[r].step = "stat"
  /\ job' = [job EXCEPT ![r] = Idle]
  /\ UNCHANGED <<now, stored, fileVars, rec, calls, finished>>

\* Where the next chunk of a download ends.
Upto(r) == LET len == Len(content[job[r].ino]) IN
  IF Len(job[r].sent) + Chunk < len THEN Len(job[r].sent) + Chunk ELSE len

\* There is a chunk, and it ends within the declared length: net/http refuses one
\* that does not as a whole.
Fits(r) == Len(job[r].sent) < Upto(r) /\ Upto(r) <= Len(job[r].whole)

Copy(r) ==
  /\ job[r].step = "copy" /\ Fits(r)
  /\ job' = [job EXCEPT ![r].sent =
               @ \o SubSeq(content[job[r].ino], Len(@) + 1, Upto(r))]
  /\ UNCHANGED <<now, stored, fileVars, rec, calls, finished>>

\* Variant: a file that ends exactly with a chunk loses it.
EndCopyEarly(r) ==
  /\ job[r].step = "copy" /\ Upto(r) >= Len(job[r].whole)
  /\ job' = [job EXCEPT ![r] = Idle]
  /\ UNCHANGED <<now, stored, fileVars, rec, calls, finished>>

\* The end of the file, or a chunk that is refused: the client has the whole if it has
\* the declared length, and sees a broken download otherwise.
EndCopy(r) ==
  /\ job[r].step = "copy" /\ ~Fits(r)
  /\ job' = [job EXCEPT ![r] = Idle]
  /\ UNCHANGED <<now, stored, fileVars, rec, calls, finished>>

\* The client or the network is gone, or the file cannot be read: io.Copy fails ...
BreakOff(r) ==
  /\ job[r].step = "copy"
  /\ job' = [job EXCEPT ![r] = [Idle EXCEPT !.step = "broken"]]
  /\ UNCHANGED <<now, stored, fileVars, rec, calls, finished>>

\* ... and the handler returns without a look at the error.
GiveUp(r) ==
  /\ job[r].step = "broken"
  /\ job' = [job EXCEPT ![r] = Idle]
  /\ UNCHANGED <<now, stored, fileVars, rec, calls, finished>>

\* The process ends, with whatever it was at; what is in files stays.
ProcessEnds ==
  /\ rec' = NotRecording
  /\ job' = [r \in Requests |-> Idle]
  /\ UNCHANGED <<now, stored, fileVars, calls, finished>>

Work(r) == CreateFile(r) \/ WriteOut(r) \/ Report(r) \/ FailExport(r) \/ Stat(r) \/ StatFails(r)
           \/ EndCopy(r) \/ BreakOff(r) \/ GiveUp(r)

Next ==
  \/ Tick \/ Insert \/ StartPCAP \/ StopPCAP \/ ProcessEnds
  \/ \E p \in 1..stored : WritePacket(p)
  \/ \E n \in DOMAIN dir : DeleteFile(n) \/ \E r \in Requests : Open(r, n)
  \/ \E r \in Requests : Copy(r) \/ Work(r) \/ \E kind \in {"csv", "json"} : Query(r, kind)

Spec == Init /\ [][Next]_vars
-----------------------------------------------------------------------------
(* Properties *)

Data  == Seq(Nat \cup {Hole, Torn})
Inode == 1..Len(content)

Jobs(steps, kinds, names, sents) ==
  [step : steps, since : 0..MaxTime, kind : kinds, name : names,
   ino : Nat, whole : Data, sent : sents]

JobType == Jobs({"idle", "broken"}, {"none"}, {NoName}, {<<>>})
           \cup Jobs({"create"}, {"csv", "json"}, {NoName}, {<<>>})
           \cup Jobs({"write"}, {"csv", "json"}, {"csv", "json"} \X (0..MaxTime), Data)
           \cup Jobs({"stat"}, {"none"}, Names, {<<>>})
           \cup Jobs({"copy"}, {"none"}, Names, Data)

Recording == [on : {TRUE}, name : {"pcap"} \X (0..MaxTime), ino : Inode, off : Nat]

CountersOK == now \in 0..MaxTime /\ stored \in 0..MaxPkts /\ calls \in 0..MaxCalls

FilesOK ==
  /\ content \in Seq(Data) /\ made \in [Names -> Nat]
  /\ DOMAIN dir \subseteq Names /\ \A n \in DOMAIN dir : dir[n] \in Inode

JobsOK ==
  /\ job \in [Requests -> JobType]
  /\ \A r \in Requests : job[r].step \in {"write", "stat", "copy"} => job[r].ino \in Inode

\* The types; an open file is one that was created.
TypeOK == /\ CountersOK /\ FilesOK /\ JobsOK
          /\ rec = NotRecording \/ rec \in Recording
          /\ finished \subseteq [name : Names, holds : Data]

\* The only file of that name, which is the only one of its kind in that second.
Alone(n) == made[n] = 1

\* A stopped recording and a reported export hold what they were stopped or reported
\* with for as long as they are listed, over later exports, recordings, deletions and
\* restarts, unless a second file of the kind was created in the same second.
KeptWhole ==
  \A f \in finished : Alone(f.name) /\ f.name \in DOMAIN dir => content[dir[f.name]] = f.holds

\* Files, offsets and names hidden, the exporter records: neither a deletion nor any
\* other file disturbs the recording that runs, which has its packets in the order they
\* were written, and among them the records that were torn.
Tape == IF rec.on THEN Tail(content[rec.ino]) ELSE <<>>
Abstract == INSTANCE Recorder WITH Items <- 1..MaxPkts \cup {Torn}, recording <- rec.on, tape <- Tape
IsRecorder == Abstract!Spec
=============================================================================
