---------------------------- MODULE ServerProofs ----------------------------
(***************************************************************************)
(* Theorems about the exporter and the process it runs in.                 *)
(***************************************************************************)
EXTENDS Server, SequenceTheorems, TLAPS

Writing(r) == job[r].step = "write"

\* An inode is in use under one name: in the directory, by the recording, by exports.
Distinct ==
  /\ \A m, n \in DOMAIN dir : dir[m] = dir[n] => m = n
  /\ \A r \in Requests : Writing(r) =>
       /\ \A n \in DOMAIN dir : dir[n] = job[r].ino => n = job[r].name
       /\ \A q \in Requests : Writing(q) /\ job[q].ino = job[r].ino => job[q].name = job[r].name
  /\ rec.on =>
       /\ \A n \in DOMAIN dir : dir[n] = rec.ino => n = rec.name
       /\ \A r \in Requests : Writing(r) => job[r].ino # rec.ino

\* The recording is as long as its offset says.
TapeKept == rec.on => Len(content[rec.ino]) = rec.off /\ rec.off > 0

\* Whatever has a name was created.
WasMade ==
  /\ \A n \in DOMAIN dir : made[n] > 0
  /\ rec.on => made[rec.name] > 0
  /\ \A r \in Requests : Writing(r) => made[job[r].name] > 0
  /\ \A f \in finished : made[f.name] > 0

\* A name that was created once has one user.
OneUser ==
  /\ \A f, g \in finished : Alone(f.name) /\ f.name = g.name => f = g
  /\ \A f \in finished : Alone(f.name) =>
       /\ rec.on => rec.name # f.name
       /\ \A r \in Requests : Writing(r) => job[r].name # f.name
  /\ \A r, q \in Requests :
       r # q /\ Writing(r) /\ Writing(q) /\ job[r].name = job[q].name => ~Alone(job[r].name)

\* What such a name stands for is the file that user writes.
Linked ==
  /\ KeptWhole
  /\ rec.on /\ Alone(rec.name) /\ rec.name \in DOMAIN dir => dir[rec.name] = rec.ino
  /\ \A r \in Requests : Writing(r) /\ Alone(job[r].name) =>
       /\ job[r].name \in DOMAIN dir => dir[job[r].name] = job[r].ino
       /\ content[job[r].ino] = job[r].sent

FilesInv == TypeOK /\ Distinct /\ TapeKept /\ WasMade /\ OneUser /\ Linked

-----------------------------------------------------------------------------
(* Sequences *)

LEMMA PutType ==
  ASSUME NEW c \in Data, NEW off \in Nat, NEW s \in Data
  PROVE  /\ Put(c, off, s) \in Data
         /\ Len(Put(c, off, s)) = IF Len(c) > off + Len(s) THEN Len(c) ELSE off + Len(s)
<1>1. Len(c) \in Nat /\ Len(s) \in Nat
  BY DEF Data
<1> DEFINE n == IF Len(c) > off + Len(s) THEN Len(c) ELSE off + Len(s)
<1>2. n \in Nat
  BY <1>1
<1>3. Put(c, off, s) \in [1..n -> Nat \cup {Hole, Torn}]
  BY <1>1 DEF Data, Put
<1> HIDE DEF n
<1>4. Put(c, off, s) \in Seq(Nat \cup {Hole, Torn}) /\ Len(Put(c, off, s)) = n
  BY <1>2, <1>3
<1> QED
  BY <1>4 DEF n, Data

\* Writing at the end of a file appends.
LEMMA PutAtEnd ==
  ASSUME NEW c \in Data, NEW s \in Data
  PROVE  Put(c, Len(c), s) = c \o s
<1>1. Len(c) \in Nat /\ Len(s) \in Nat /\ c \in Seq(Nat \cup {Hole, Torn}) /\ s \in Seq(Nat \cup {Hole, Torn})
  BY DEF Data
<1>2. /\ c \o s \in Seq(Nat \cup {Hole, Torn}) /\ Len(c \o s) = Len(c) + Len(s)
      /\ \A i \in 1 .. Len(c) + Len(s) :
           (c \o s)[i] = IF i <= Len(c) THEN c[i] ELSE s[i - Len(c)]
  BY <1>1, ConcatProperties
<1>3. /\ Put(c, Len(c), s) \in Seq(Nat \cup {Hole, Torn})
      /\ Len(Put(c, Len(c), s)) = Len(c) + Len(s)
  BY <1>1, PutType DEF Data
<1>4. \A i \in 1 .. Len(c) + Len(s) : Put(c, Len(c), s)[i] = (c \o s)[i]
  BY <1>1, <1>2 DEF Put
<1> QED
  BY <1>2, <1>3, <1>4, SeqEqual

\* A recording that gets one more packet.
LEMMA TailOfPut ==
  ASSUME NEW c \in Data, c # <<>>, NEW p \in Nat \cup {Torn}
  PROVE  /\ Put(c, Len(c), <<p>>) = Append(c, p)
         /\ Tail(Put(c, Len(c), <<p>>)) = Append(Tail(c), p)
<1>1. <<p>> \in Data /\ c \in Seq(Nat \cup {Hole, Torn})
  BY DEF Data
<1>2. c \o <<p>> = Append(c, p)
  BY <1>1, AppendIsConcat
<1>3. Tail(Append(c, p)) = Append(Tail(c), p)
  BY <1>1, HeadTailAppend
<1> QED
  BY <1>1, <1>2, <1>3, PutAtEnd

-----------------------------------------------------------------------------
(* Types *)

LEMMA NamesType == now \in 0..MaxTime => \A kind \in Kinds : Name(kind, now) \in Names
BY DEF Name, Names

\* What a creation does, the name and the inode given.
LEMMA CreateFacts ==
  ASSUME TypeOK, NEW kind \in Kinds, NEW s \in Data, Create(kind, s),
         NEW n, n = Name(kind, now), NEW i, i = InodeFor(n)
  PROVE  /\ n \in Names /\ n \in {kind} \X (0..MaxTime)
         /\ DOMAIN dir' = DOMAIN dir \cup {n} /\ dir'[n] = i
         /\ \A m \in DOMAIN dir \ {n} : dir'[m] = dir[m]
         /\ content' \in Seq(Data) /\ i \in 1..Len(content')
         /\ Inode \subseteq 1..Len(content')
         /\ i \in Inode => n \in DOMAIN dir /\ dir[n] = i
         /\ made' \in [Names -> Nat] /\ made'[n] = made[n] + 1
         /\ \A m \in Names \ {n} : made'[m] = made[m]
<1>1. n \in Names /\ n \in {kind} \X (0..MaxTime)
  BY DEF TypeOK, CountersOK, FilesOK, JobsOK, Name, Names
<1>2. /\ DOMAIN dir' = DOMAIN dir \cup {n} /\ dir'[n] = i
      /\ \A m \in DOMAIN dir \ {n} : dir'[m] = dir[m]
  BY DEF Create
<1>3. /\ made' \in [Names -> Nat] /\ made'[n] = made[n] + 1
      /\ \A m \in Names \ {n} : made'[m] = made[m]
  BY <1>1 DEF Create, TypeOK, CountersOK, FilesOK, JobsOK
<1>4. content \in Seq(Data) /\ Len(content) \in Nat
  BY DEF TypeOK, CountersOK, FilesOK, JobsOK
<1>5. CASE n \in DOMAIN dir
  <2>1. i = dir[n] /\ i \in Inode
    BY <1>5 DEF InodeFor, TypeOK, CountersOK, FilesOK, JobsOK
  <2>2. content' = [content EXCEPT ![i] = s]
    BY <1>5, <2>1 DEF Create
  <2>3. content' \in Seq(Data) /\ Len(content') = Len(content)
    BY <1>4, <2>1, <2>2, ExceptSeq DEF Inode
  <2> QED
    BY <1>1, <1>2, <1>3, <1>4, <1>5, <2>1, <2>2, <2>3 DEF Inode
<1>6. CASE n \notin DOMAIN dir
  <2>1. i = Len(content) + 1 /\ content' = Append(content, s)
    BY <1>6 DEF InodeFor, Create
  <2>2. /\ content' \in Seq(Data) /\ Len(content') = Len(content) + 1
        /\ \A j \in 1..Len(content) : content'[j] = content[j]
        /\ content'[Len(content) + 1] = s
    BY <1>4, <2>1, AppendProperties
  <2> QED
    BY <1>1, <1>2, <1>3, <1>4, <2>1, <2>2 DEF Inode
<1> QED
  BY <1>5, <1>6

\* What writing to an open file does.
LEMMA WriteFacts ==
  ASSUME TypeOK, NEW i \in Inode, NEW off \in Nat, NEW s \in Data,
         content' = [content EXCEPT ![i] = Put(@, off, s)]
  PROVE  /\ content' \in Seq(Data) /\ Len(content') = Len(content)
         /\ content'[i] = Put(content[i], off, s)
         /\ \A j \in Inode \ {i} : content'[j] = content[j]
         /\ content[i] \in Data
<1>1. content \in Seq(Data) /\ i \in 1..Len(content)
  BY DEF TypeOK, CountersOK, FilesOK, JobsOK, Inode
<1>2. content[i] \in Data
  BY <1>1
<1>3. Put(content[i], off, s) \in Data
  BY <1>2, PutType
<1> QED
  BY <1>1, <1>2, <1>3, ExceptSeq DEF Inode

\* The rows of an export are data of the files.
LEMMA RowsType == ASSUME TypeOK, NEW kind \in {"csv", "json"} PROVE Rows(kind) \in Data
<1>1. <<0>> \in Data
  BY DEF Data
<1>2. [i \in 1..stored + 1 |-> IF i = 1 THEN 0 ELSE stored + 2 - i]
        \in [1..stored + 1 -> Nat \cup {Hole, Torn}]
  BY ExporterAssumption DEF TypeOK, CountersOK, FilesOK, JobsOK
<1>3. stored + 1 \in Nat
  BY ExporterAssumption DEF TypeOK, CountersOK, FilesOK, JobsOK
<1>4. [i \in 1..stored + 1 |-> IF i = 1 THEN 0 ELSE stored + 2 - i] \in Data
  BY <1>2, <1>3 DEF Data
<1> QED
  BY <1>1, <1>4 DEF Rows

\* An idle request is well typed.
LEMMA IdleType == now \in 0..MaxTime => Idle \in JobType /\ Idle.step = "idle"
<1>1. <<>> \in Data /\ 0 \in 0..MaxTime
  BY ExporterAssumption DEF Data
<1> QED
  BY <1>1 DEF Idle, JobType, Jobs

\* A job that is replaced by one of the right type.
LEMMA JobStep ==
  ASSUME TypeOK, NEW r \in Requests, NEW j \in JobType, job' = [job EXCEPT ![r] = j],
         Inode \subseteq Inode', j.step \in {"write", "stat", "copy"} => j.ino \in Inode'
  PROVE  /\ job' \in [Requests -> JobType]
         /\ \A q \in Requests : job'[q].step \in {"write", "stat", "copy"} => job'[q].ino \in Inode'
BY DEF TypeOK, CountersOK, FilesOK, JobsOK

\* The recording is known by its flag.
LEMMA RecType ==
  ASSUME TypeOK
  PROVE  /\ rec.on \in BOOLEAN
         /\ ~rec.on => rec = NotRecording
         /\ rec.on => /\ rec \in Recording /\ rec.name \in {"pcap"} \X (0..MaxTime)
                      /\ rec.name \in Names /\ rec.ino \in Inode /\ rec.off \in Nat
<1>1. NotRecording.on = FALSE
  BY DEF NotRecording
<1>2. rec \in Recording => /\ rec.on /\ rec.name \in {"pcap"} \X (0..MaxTime)
                           /\ rec.ino \in Inode /\ rec.off \in Nat
  BY DEF Recording
<1>3. {"pcap"} \X (0..MaxTime) \subseteq Names
  BY DEF Names, Kinds
<1> QED
  BY <1>1, <1>2, <1>3 DEF TypeOK

\* A job is known by its step.
LEMMA JobKnown ==
  ASSUME TypeOK, NEW r \in Requests
  PROVE  /\ job[r] \in JobType /\ job[r].sent \in Data /\ job[r].whole \in Data
         /\ job[r].step = "create" => job[r].kind \in {"csv", "json"} /\ job[r].sent = <<>>
         /\ job[r].step = "write" => /\ job[r].kind \in {"csv", "json"}
                                     /\ job[r].name \in {"csv", "json"} \X (0..MaxTime)
                                     /\ job[r].name \in Names
         /\ job[r].step = "stat" => job[r].sent = <<>>
         /\ job[r].step \in {"write", "stat", "copy"} => job[r].ino \in Inode
<1>1. job[r] \in JobType
  BY DEF TypeOK, JobsOK
<1>2. {"csv", "json"} \X (0..MaxTime) \subseteq Names /\ <<>> \in Data
  BY DEF Names, Kinds, Data
<1> QED
  BY <1>1, <1>2 DEF JobType, Jobs, TypeOK, JobsOK

\* The first state is well typed.
LEMMA TypeInit == Init => TypeOK
<1> SUFFICES ASSUME Init PROVE TypeOK
  OBVIOUS
<1>1. content \in Seq(Data) /\ DOMAIN dir = {} /\ made \in [Names -> Nat]
  BY DEF Init
<1>2. now \in 0..MaxTime /\ stored \in 0..MaxPkts /\ calls \in 0..MaxCalls
  BY ExporterAssumption DEF Init
<1>3. job \in [Requests -> JobType] /\ \A r \in Requests : job[r].step = "idle"
  BY <1>2, IdleType DEF Init
<1> QED
  BY <1>1, <1>2, <1>3 DEF Init, TypeOK, CountersOK, FilesOK, JobsOK

\* Every step of the exporter keeps the types.
LEMMA TypeStep == TypeOK /\ [Next]_vars => TypeOK'
<1> SUFFICES ASSUME TypeOK, [Next]_vars PROVE TypeOK'
  OBVIOUS
<1> USE DEF fileVars
<1>0. /\ content \in Seq(Data) /\ Len(content) \in Nat
      /\ Idle \in JobType /\ Idle.step = "idle" /\ <<0>> \in Data /\ <<>> \in Data
      /\ CountersOK /\ FilesOK /\ JobsOK
  BY IdleType DEF TypeOK, CountersOK, FilesOK, Data
<1>1. ASSUME UNCHANGED <<content, dir, made>> PROVE FilesOK' /\ Inode' = Inode
  BY <1>0, <1>1 DEF FilesOK, Inode
<1>2. ASSUME UNCHANGED <<content, rec>> PROVE (rec = NotRecording \/ rec \in Recording)'
  BY <1>2 DEF TypeOK, Recording, Inode
<1>3. ASSUME UNCHANGED <<content, job>> PROVE JobsOK'
  BY <1>0, <1>3 DEF JobsOK, Inode
<1>4. ASSUME UNCHANGED <<now, stored>>, UNCHANGED calls \/ Call PROVE CountersOK'
  BY <1>0, <1>4, ExporterAssumption DEF CountersOK, Call
<1>5. ASSUME UNCHANGED finished PROVE (finished \subseteq [name : Names, holds : Data])'
  BY <1>5 DEF TypeOK
<1>6. ASSUME NEW r \in Requests, NEW j \in JobType, job' = [job EXCEPT ![r] = j], UNCHANGED content,
             j.step \in {"write", "stat", "copy"} => j.ino \in Inode
      PROVE  JobsOK'
  BY <1>0, <1>6 DEF JobsOK, Inode
<1>7. ASSUME NEW kind \in Kinds, NEW s \in Data, Create(kind, s)
      PROVE  /\ FilesOK' /\ Inode \subseteq Inode'
             /\ InodeFor(Name(kind, now)) \in Inode'
             /\ Name(kind, now) \in {kind} \X (0..MaxTime)
  <2>0. PICK n, i : n = Name(kind, now) /\ i = InodeFor(n)
    OBVIOUS
  <2>1. /\ n \in Names /\ n \in {kind} \X (0..MaxTime)
        /\ DOMAIN dir' = DOMAIN dir \cup {n} /\ dir'[n] = i
        /\ \A m \in DOMAIN dir \ {n} : dir'[m] = dir[m]
        /\ content' \in Seq(Data) /\ i \in 1..Len(content')
        /\ Inode \subseteq 1..Len(content')
        /\ made' \in [Names -> Nat]
    BY <1>7, <2>0, CreateFacts DEF Create
  <2>2. FilesOK' /\ Inode \subseteq Inode' /\ i \in Inode'
    BY <1>0, <2>1 DEF FilesOK, Inode
  <2> QED
    BY <2>0, <2>1, <2>2
<1>8. CASE UNCHANGED vars
  BY <1>1, <1>2, <1>3, <1>4, <1>5, <1>8 DEF vars, TypeOK
<1>9. CASE Tick \/ Insert
  <2>1. CountersOK'
    BY <1>0, <1>9, ExporterAssumption DEF Tick, Insert, CountersOK
  <2> QED
    BY <1>1, <1>2, <1>3, <1>5, <1>9, <2>1 DEF Tick, Insert, TypeOK
<1>10. CASE StartPCAP
  <2>1. "pcap" \in Kinds /\ rec = NotRecording
    BY <1>10, RecType DEF StartPCAP, Kinds
  <2>2. /\ FilesOK' /\ Inode \subseteq Inode'
        /\ InodeFor(Name("pcap", now)) \in Inode'
        /\ Name("pcap", now) \in {"pcap"} \X (0..MaxTime)
    BY <1>0, <1>7, <1>10, <2>1 DEF StartPCAP
  <2> DEFINE new == [on |-> TRUE, name |-> Name("pcap", now), ino |-> InodeFor(Name("pcap", now)),
                     off |-> 1]
  <2>3. (rec = NotRecording \/ rec \in Recording)'
    <3>1. new \in Recording'
      BY <2>2 DEF Recording
    <3>2. rec' = new \/ rec' = NotRecording
      BY <1>10, <2>1 DEF StartPCAP
    <3> QED
      BY <3>1, <3>2 DEF NotRecording
  <2>4. JobsOK'
    BY <1>0, <1>10, <2>2 DEF StartPCAP, JobsOK
  <2> QED
    BY <1>4, <1>5, <1>10, <2>2, <2>3, <2>4 DEF StartPCAP, TypeOK
<1>11. CASE StopPCAP
  <2>1. rec.name \in Names /\ rec.ino \in Inode
    BY <1>11, RecType DEF StopPCAP
  <2>2. [name |-> rec.name, holds |-> content[rec.ino]] \in [name : Names, holds : Data]
    BY <1>0, <2>1 DEF Inode
  <2> QED
    BY <1>1, <1>3, <1>4, <1>11, <2>2 DEF StopPCAP, TypeOK
<1>12. ASSUME NEW p \in 1..stored, WritePacket(p) PROVE TypeOK'
  <2>1. rec \in Recording /\ rec.ino \in Inode /\ rec.off \in Nat
    BY <1>12, RecType DEF WritePacket
  <2>2. PICK i \in {p, Torn} : content' = [content EXCEPT ![rec.ino] = Put(@, rec.off, <<i>>)]
    BY <1>12 DEF WritePacket
  <2>7. <<i>> \in Data
    BY <1>0 DEF Data, CountersOK
  <2>3. content' \in Seq(Data) /\ Len(content') = Len(content)
    BY <2>1, <2>2, <2>7, WriteFacts
  <2>4. rec' \in Recording /\ Inode' = Inode
    <3>1. rec' = [rec EXCEPT !.off = @ + 1] /\ rec.off + 1 \in Nat
      BY <1>12, <2>1 DEF WritePacket
    <3>2. rec' \in Recording
      BY <2>1, <3>1 DEF Recording
    <3> QED
      BY <2>3, <3>2 DEF Inode
  <2>5. Recording' = Recording
    BY <2>4 DEF Recording
  <2>6. FilesOK' /\ JobsOK'
    BY <1>0, <1>12, <2>3, <2>4 DEF WritePacket, FilesOK, JobsOK
  <2> QED
    BY <1>4, <1>5, <1>12, <2>4, <2>5, <2>6 DEF WritePacket, TypeOK
<1>13. ASSUME NEW n \in DOMAIN dir, DeleteFile(n) PROVE TypeOK'
  <2>1. FilesOK'
    BY <1>0, <1>13 DEF DeleteFile, FilesOK, Inode
  <2> QED
    BY <1>2, <1>3, <1>4, <1>5, <1>13, <2>1 DEF DeleteFile, TypeOK
<1>14. CASE ProcessEnds
  <2>1. JobsOK'
    BY <1>0, <1>14 DEF ProcessEnds, JobsOK
  <2> QED
    BY <1>1, <1>4, <1>5, <1>14, <2>1 DEF ProcessEnds, TypeOK
<1>15. ASSUME NEW r \in Requests, NEW n \in DOMAIN dir, Open(r, n) PROVE TypeOK'
  <2> DEFINE j == [Idle EXCEPT !.step = "stat", !.since = now, !.name = n, !.ino = dir[n]]
  <2>1. n \in Names /\ dir[n] \in Inode /\ now \in 0..MaxTime
    BY <1>0 DEF FilesOK, CountersOK
  <2>2. dir[n] \in Nat
    BY <1>0, <2>1 DEF Inode
  <2>3. j \in JobType /\ j.ino \in Inode
    BY <1>0, <2>1, <2>2 DEF Idle, JobType, Jobs
  <2>4. JobsOK'
    BY <1>6, <1>15, <2>3 DEF Open
  <2> QED
    BY <1>1, <1>2, <1>4, <1>5, <1>15, <2>4 DEF Open, TypeOK
<1>16. ASSUME NEW r \in Requests, NEW kind \in {"csv", "json"}, Query(r, kind) PROVE TypeOK'
  <2> DEFINE j == [Idle EXCEPT !.step = "create", !.since = now, !.kind = kind, !.whole = Rows(kind)]
  <2>1. now \in 0..MaxTime /\ Rows(kind) \in Data
    BY <1>0, RowsType DEF CountersOK
  <2>2. j \in JobType /\ j.step = "create"
    BY <1>0, <2>1 DEF Idle, JobType, Jobs
  <2>3. JobsOK'
    BY <1>6, <1>16, <2>2 DEF Query
  <2> QED
    BY <1>1, <1>2, <1>4, <1>5, <1>16, <2>3 DEF Query, TypeOK
<1>17. ASSUME NEW r \in Requests, CreateFile(r) PROVE TypeOK'
  <2> DEFINE kind == job[r].kind
             j == [job[r] EXCEPT !.step = "write", !.name = Name(kind, now),
                                 !.ino = InodeFor(Name(kind, now))]
  <2>1. job[r] \in Jobs({"create"}, {"csv", "json"}, {NoName}, {<<>>})
    BY <1>0, <1>17 DEF CreateFile, JobsOK, JobType, Jobs
  <2>2. kind \in {"csv", "json"} /\ kind \in Kinds
    BY <2>1 DEF Jobs, Kinds
  <2>3. /\ FilesOK' /\ Inode \subseteq Inode'
        /\ InodeFor(Name(kind, now)) \in Inode'
        /\ Name(kind, now) \in {kind} \X (0..MaxTime)
    BY <1>0, <1>7, <1>17, <2>2 DEF CreateFile
  <2>4. Name(kind, now) \in {"csv", "json"} \X (0..MaxTime) /\ InodeFor(Name(kind, now)) \in Nat
    BY <2>2, <2>3 DEF Inode
  <2> HIDE DEF kind
  <2>5. j \in JobType /\ j.ino \in Inode'
    BY <1>0, <2>1, <2>3, <2>4 DEF JobType, Jobs
  <2>6. job' = [job EXCEPT ![r] = j]
    BY <1>17 DEF CreateFile, kind
  <2> HIDE DEF j
  <2>7. JobsOK'
    BY <1>0, <2>3, <2>5, <2>6 DEF JobsOK
  <2>8. (rec = NotRecording \/ rec \in Recording)'
    BY <1>17, <2>3 DEF CreateFile, TypeOK, Recording
  <2> QED
    BY <1>4, <1>5, <1>17, <2>3, <2>7, <2>8 DEF CreateFile, TypeOK
<1>18. ASSUME NEW r \in Requests, WriteOut(r) PROVE TypeOK'
  <2>1. job[r] \in JobType /\ job[r].ino \in Inode /\ job[r].sent \in Data /\ job[r].whole \in Data
    BY <1>18, JobKnown DEF WriteOut
  <2>2. PICK n \in Len(job[r].sent) + 1..Len(job[r].whole) :
          /\ content' = [content EXCEPT ![job[r].ino] =
                Put(@, Len(job[r].sent), SubSeq(job[r].whole, Len(job[r].sent) + 1, n))]
          /\ job' = [job EXCEPT ![r].sent = @ \o SubSeq(job[r].whole, Len(job[r].sent) + 1, n)]
    BY <1>18 DEF WriteOut
  <2> DEFINE s == SubSeq(job[r].whole, Len(job[r].sent) + 1, n)
             j == [job[r] EXCEPT !.sent = @ \o s]
  <2>3. s \in Data /\ job[r].sent \o s \in Data /\ Len(job[r].sent) \in Nat
    BY <2>1 DEF Data
  <2>4. content' \in Seq(Data) /\ Len(content') = Len(content)
    BY <2>1, <2>2, <2>3, WriteFacts
  <2>5. Inode' = Inode
    BY <2>4 DEF Inode
  <2> HIDE DEF s
  <2>6. j \in JobType /\ j.ino \in Inode
    BY <1>18, <2>1, <2>3 DEF WriteOut, JobType, Jobs
  <2>7. job' = [job EXCEPT ![r] = j]
    BY <2>2 DEF s
  <2> HIDE DEF j
  <2>8. JobsOK' /\ FilesOK'
    BY <1>0, <1>18, <2>4, <2>5, <2>6, <2>7 DEF WriteOut, JobsOK, FilesOK
  <2>9. (rec = NotRecording \/ rec \in Recording)'
    BY <1>18, <2>5 DEF WriteOut, TypeOK, Recording
  <2> QED
    BY <1>4, <1>5, <1>18, <2>8, <2>9 DEF WriteOut, TypeOK
<1>19. ASSUME NEW r \in Requests, Copy(r) PROVE TypeOK'
  <2>1. job[r] \in JobType /\ job[r].ino \in Inode /\ job[r].sent \in Data
    BY <1>19, JobKnown DEF Copy
  <2>2. content[job[r].ino] \in Data
    BY <1>0, <2>1 DEF Inode
  <2> DEFINE s == SubSeq(content[job[r].ino], Len(job[r].sent) + 1, Upto(r))
             j == [job[r] EXCEPT !.sent = @ \o s]
  <2>3. Upto(r) \in Nat /\ Upto(r) <= Len(content[job[r].ino]) /\ Len(job[r].sent) \in Nat
    BY <2>1, <2>2, ExporterAssumption DEF Data, Upto
  <2>4. s \in Data /\ job[r].sent \o s \in Data
    BY <2>1, <2>2, <2>3 DEF Data
  <2> HIDE DEF s
  <2>5. j \in JobType /\ j.ino \in Inode
    BY <1>19, <2>1, <2>4 DEF Copy, JobType, Jobs
  <2>6. job' = [job EXCEPT ![r] = j]
    BY <1>19 DEF Copy, s
  <2> HIDE DEF j
  <2>7. JobsOK'
    BY <1>6, <1>19, <2>5, <2>6 DEF Copy
  <2> QED
    BY <1>1, <1>2, <1>4, <1>5, <1>19, <2>7 DEF Copy, TypeOK
<1>20. ASSUME NEW r \in Requests, Report(r) PROVE TypeOK'
  <2>1. job[r].name \in Names /\ job[r].whole \in Data
    BY <1>20, JobKnown DEF Report
  <2>2. JobsOK'
    BY <1>0, <1>6, <1>20 DEF Report
  <2>3. [name |-> job[r].name, holds |-> job[r].whole] \in [name : Names, holds : Data]
    BY <2>1
  <2>4. (finished \subseteq [name : Names, holds : Data])'
    BY <1>20, <2>3 DEF Report, TypeOK
  <2> QED
    BY <1>1, <1>2, <1>4, <1>20, <2>2, <2>4 DEF Report, TypeOK
<1>21. ASSUME NEW r \in Requests, FailExport(r) \/ StatFails(r) \/ EndCopy(r) \/ GiveUp(r) PROVE TypeOK'
  <2>1. job' = [job EXCEPT ![r] = Idle] /\ UNCHANGED <<now, stored, fileVars, rec, calls, finished>>
    BY <1>21 DEF FailExport, StatFails, EndCopy, GiveUp
  <2>2. JobsOK'
    BY <1>0, <1>6, <2>1
  <2> QED
    BY <1>1, <1>2, <1>4, <1>5, <2>1, <2>2 DEF TypeOK
<1>22. ASSUME NEW r \in Requests, Stat(r) PROVE TypeOK'
  <2> DEFINE j == [job[r] EXCEPT !.step = "copy", !.whole = content[job[r].ino]]
  <2>1. job[r] \in Jobs({"stat"}, {"none"}, Names, {<<>>}) /\ job[r].ino \in Inode
    BY <1>0, <1>22 DEF Stat, JobsOK, JobType, Jobs
  <2>2. content[job[r].ino] \in Data
    BY <1>0, <2>1 DEF Inode
  <2>3. j \in JobType /\ j.ino \in Inode
    BY <1>0, <2>1, <2>2 DEF JobType, Jobs
  <2>4. job' = [job EXCEPT ![r] = j]
    BY <1>22 DEF Stat
  <2> HIDE DEF j
  <2>5. JobsOK'
    BY <1>6, <1>22, <2>3, <2>4 DEF Stat
  <2> QED
    BY <1>1, <1>2, <1>4, <1>5, <1>22, <2>5 DEF Stat, TypeOK
<1>23. ASSUME NEW r \in Requests, BreakOff(r) PROVE TypeOK'
  <2> DEFINE j == [Idle EXCEPT !.step = "broken"]
  <2>1. j \in JobType /\ j.step = "broken"
    BY <1>0, ExporterAssumption DEF Idle, JobType, Jobs
  <2>2. job' = [job EXCEPT ![r] = j]
    BY <1>23 DEF BreakOff
  <2> HIDE DEF j
  <2>3. JobsOK'
    BY <1>6, <1>23, <2>1, <2>2 DEF BreakOff
  <2> QED
    BY <1>1, <1>2, <1>4, <1>5, <1>23, <2>3 DEF BreakOff, TypeOK
<1> QED
  BY <1>8, <1>9, <1>10, <1>11, <1>12, <1>13, <1>14, <1>15, <1>16, <1>17, <1>18, <1>19, <1>20, <1>21,
     <1>22, <1>23 DEF Next, Work

\* The specification keeps to its types.
THEOREM TypesHold == Spec => []TypeOK
BY TypeInit, TypeStep, PTL DEF Spec

-----------------------------------------------------------------------------
(* Files are kept whole *)

\* A step that writes nothing, creates nothing and finishes nothing.
LEMMA Release ==
  ASSUME FilesInv, TypeOK', UNCHANGED <<content, made, finished>>,
         DOMAIN dir' \subseteq DOMAIN dir, \A m \in DOMAIN dir' : dir'[m] = dir[m],
         rec' = rec \/ ~rec'.on,
         \A r \in Requests : job'[r].step = "write" => job'[r] = job[r]
  PROVE  FilesInv'
<1>1. \A r \in Requests : Writing(r)' => Writing(r) /\ job'[r] = job[r]
  BY DEF Writing
<1>2. \A n : Alone(n)' = Alone(n)
  BY DEF Alone
<1>3. Distinct'
  BY <1>1 DEF FilesInv, Distinct
<1>4. TapeKept'
  BY DEF FilesInv, TapeKept
<1>5. WasMade'
  BY <1>1 DEF FilesInv, WasMade
<1>6. OneUser'
  BY <1>1, <1>2 DEF FilesInv, OneUser
<1>7. Linked'
  BY <1>1, <1>2 DEF FilesInv, Linked, KeptWhole
<1> QED
  BY <1>3, <1>4, <1>5, <1>6, <1>7 DEF FilesInv

\* A creation disturbs nobody who has a name of his own.
LEMMA CreateKeeps ==
  ASSUME FilesInv, NEW kind \in Kinds, NEW s \in Data, Create(kind, s),
         NEW n, n = Name(kind, now), NEW i, i = InodeFor(n)
  PROVE  /\ \A m, k \in DOMAIN dir' : dir'[m] = dir'[k] => m = k
         /\ n \in DOMAIN dir' /\ dir'[n] = i
         /\ \A r \in Requests : Writing(r) =>
              /\ \A m \in DOMAIN dir' : dir'[m] = job[r].ino => m = job[r].name
              /\ job[r].ino = i => job[r].name = n
              /\ made'[job[r].name] > 0
              /\ made'[job[r].name] = 1 =>
                   /\ job[r].name # n /\ Alone(job[r].name)
                   /\ content'[job[r].ino] = content[job[r].ino]
                   /\ job[r].name \in DOMAIN dir' => dir'[job[r].name] = job[r].ino
         /\ rec.on /\ kind # "pcap" =>
              /\ rec.ino # i /\ content'[rec.ino] = content[rec.ino]
              /\ \A m \in DOMAIN dir' : dir'[m] = rec.ino => m = rec.name
              /\ made'[rec.name] > 0
              /\ made'[rec.name] = 1 => rec.name # n /\ Alone(rec.name)
              /\ rec.name \in DOMAIN dir' /\ made'[rec.name] = 1 => dir'[rec.name] = rec.ino
         /\ \A m \in DOMAIN dir' : made'[m] > 0
         /\ \A f \in finished : made'[f.name] > 0 /\ (made'[f.name] = 1 => f.name # n /\ Alone(f.name))
         /\ \A f \in finished : made'[f.name] = 1 /\ f.name \in DOMAIN dir'
                                  => content'[dir'[f.name]] = f.holds
         /\ content'[i] = s /\ n \in {kind} \X (0..MaxTime) /\ made'[n] > 0
<1>0. TypeOK /\ \A f \in finished : f.name \in Names
  BY DEF FilesInv, TypeOK
<1>1. /\ n \in Names /\ n \in {kind} \X (0..MaxTime)
      /\ DOMAIN dir' = DOMAIN dir \cup {n} /\ dir'[n] = i
      /\ \A m \in DOMAIN dir \ {n} : dir'[m] = dir[m]
      /\ content'[i] = s
      /\ \A j \in Inode \ {i} : content'[j] = content[j]
      /\ i \in Inode => n \in DOMAIN dir /\ dir[n] = i
      /\ made'[n] = made[n] + 1
      /\ \A m \in Names \ {n} : made'[m] = made[m]
  <2>1. /\ DOMAIN dir' = DOMAIN dir \cup {n} /\ dir'[n] = i
        /\ \A m \in DOMAIN dir \ {n} : dir'[m] = dir[m]
        /\ made'[n] = made[n] + 1
        /\ \A m \in Names \ {n} : made'[m] = made[m]
    BY <1>0, CreateFacts DEF Create
  <2>2. /\ n \in Names /\ n \in {kind} \X (0..MaxTime)
        /\ i \in Inode => n \in DOMAIN dir /\ dir[n] = i
    BY <1>0, CreateFacts DEF Create
  <2>3. content \in Seq(Data) /\ Len(content) \in Nat /\ \A m \in DOMAIN dir : dir[m] \in Inode
    BY <1>0 DEF TypeOK, FilesOK
  <2>4. CASE n \in DOMAIN dir
    <3>1. i \in Inode /\ content' = [content EXCEPT ![i] = s]
      BY <2>3, <2>4 DEF Create, InodeFor
    <3> QED
      BY <2>1, <2>2, <2>3, <3>1 DEF Inode
  <2>5. CASE n \notin DOMAIN dir
    <3>1. i = Len(content) + 1 /\ content' = Append(content, s)
      BY <2>5 DEF Create, InodeFor
    <3> QED
      BY <2>1, <2>2, <2>3, <3>1, AppendProperties DEF Inode
  <2> QED
    BY <2>4, <2>5
<1>2. DOMAIN dir \subseteq Names /\ (\A m \in DOMAIN dir : dir[m] \in Inode) /\ made \in [Names -> Nat]
  BY <1>0 DEF TypeOK, FilesOK
<1>3. \A m \in Names : /\ made[m] > 0 => made'[m] > 0
                       /\ made'[m] = 1 /\ made[m] > 0 => m # n /\ Alone(m)
                       /\ m = n => made'[m] > 0
  BY <1>1, <1>2 DEF Alone
<1>4. \A m \in DOMAIN dir : dir[m] = i => m = n
  BY <1>1, <1>2 DEF FilesInv, Distinct
<1>5. \A r \in Requests : Writing(r) => job[r].ino \in Inode /\ job[r].name \in Names
                                        /\ job[r].name \in {"csv", "json"} \X (0..MaxTime)
                                        /\ made[job[r].name] > 0
  BY <1>0, JobKnown DEF Writing, FilesInv, WasMade
<1>6. rec.on => rec.ino \in Inode /\ rec.name \in Names /\ rec.name \in {"pcap"} \X (0..MaxTime)
                /\ made[rec.name] > 0
  BY <1>0, RecType DEF FilesInv, WasMade
<1>7. \A m, k \in DOMAIN dir' : dir'[m] = dir'[k] => m = k
  BY <1>1, <1>4 DEF FilesInv, Distinct
<1>8. ASSUME NEW r \in Requests, Writing(r)
      PROVE  /\ \A m \in DOMAIN dir' : dir'[m] = job[r].ino => m = job[r].name
             /\ job[r].ino = i => job[r].name = n
             /\ made'[job[r].name] > 0
             /\ made'[job[r].name] = 1 =>
                  /\ job[r].name # n /\ Alone(job[r].name)
                  /\ content'[job[r].ino] = content[job[r].ino]
                  /\ job[r].name \in DOMAIN dir' => dir'[job[r].name] = job[r].ino
  <2>1. \A m \in DOMAIN dir : dir[m] = job[r].ino => m = job[r].name
    BY <1>8 DEF FilesInv, Distinct
  <2>2. job[r].ino = i => job[r].name = n
    BY <1>1, <1>5, <1>8, <2>1
  <2>3. \A m \in DOMAIN dir' : dir'[m] = job[r].ino => m = job[r].name
    BY <1>1, <2>1, <2>2
  <2>4. Alone(job[r].name) /\ job[r].name \in DOMAIN dir => dir[job[r].name] = job[r].ino
    BY <1>8 DEF FilesInv, Linked
  <2> QED
    BY <1>1, <1>3, <1>5, <1>8, <2>2, <2>3, <2>4
<1>9. ASSUME rec.on, kind # "pcap"
      PROVE  /\ rec.ino # i /\ content'[rec.ino] = content[rec.ino]
             /\ \A m \in DOMAIN dir' : dir'[m] = rec.ino => m = rec.name
             /\ made'[rec.name] > 0
             /\ made'[rec.name] = 1 => rec.name # n /\ Alone(rec.name)
             /\ rec.name \in DOMAIN dir' /\ made'[rec.name] = 1 => dir'[rec.name] = rec.ino
  <2>1. rec.name # n
    BY <1>1, <1>6, <1>9
  <2>2. \A m \in DOMAIN dir : dir[m] = rec.ino => m = rec.name
    BY <1>9 DEF FilesInv, Distinct
  <2>3. rec.ino # i
    BY <1>1, <1>6, <1>9, <2>1, <2>2
  <2>4. Alone(rec.name) /\ rec.name \in DOMAIN dir => dir[rec.name] = rec.ino
    BY <1>9 DEF FilesInv, Linked
  <2> QED
    BY <1>1, <1>3, <1>6, <1>9, <2>1, <2>2, <2>3, <2>4
<1>10. ASSUME NEW f \in finished
       PROVE  /\ made'[f.name] > 0 /\ (made'[f.name] = 1 => f.name # n /\ Alone(f.name))
              /\ made'[f.name] = 1 /\ f.name \in DOMAIN dir' => content'[dir'[f.name]] = f.holds
  <2>1. f.name \in Names /\ made[f.name] > 0
    BY <1>0 DEF FilesInv, WasMade
  <2>2. made'[f.name] > 0 /\ (made'[f.name] = 1 => f.name # n /\ Alone(f.name))
    BY <1>3, <2>1
  <2>3. Alone(f.name) /\ f.name \in DOMAIN dir => content[dir[f.name]] = f.holds
    BY DEF FilesInv, Linked, KeptWhole
  <2> QED
    BY <1>1, <1>2, <1>4, <2>2, <2>3
<1>11. \A m \in DOMAIN dir' : made'[m] > 0
  BY <1>1, <1>2, <1>3 DEF FilesInv, WasMade
<1> QED
  BY <1>1, <1>7, <1>8, <1>9, <1>10, <1>11

\* StartPCAP, which may empty a file there is, keeps the file invariant.
LEMMA StartKeeps == FilesInv /\ TypeOK' /\ StartPCAP => FilesInv'
<1> SUFFICES ASSUME FilesInv, TypeOK', StartPCAP PROVE FilesInv'
  OBVIOUS
<1> DEFINE n == Name("pcap", now)
           i == InodeFor(n)
           new == [on |-> TRUE, name |-> n, ino |-> i, off |-> 1]
<1>0. /\ TypeOK /\ ~rec.on /\ UNCHANGED <<job, finished>>
      /\ "pcap" \in Kinds /\ <<0>> \in Data /\ <<>> \in Data
  BY DEF FilesInv, StartPCAP, Kinds, Data
<1>1. PICK s \in {<<0>>, <<>>} : Create("pcap", s) /\ ((s = <<0>> /\ rec' = new) \/ UNCHANGED rec)
  BY DEF StartPCAP
<1>2. n = Name("pcap", now) /\ i = InodeFor(n) /\ s \in Data
  BY <1>0
<1> HIDE DEF n, i, new
<1>3. /\ \A m, k \in DOMAIN dir' : dir'[m] = dir'[k] => m = k
      /\ n \in DOMAIN dir' /\ dir'[n] = i
      /\ \A r \in Requests : Writing(r) =>
           /\ \A m \in DOMAIN dir' : dir'[m] = job[r].ino => m = job[r].name
           /\ job[r].ino = i => job[r].name = n
           /\ made'[job[r].name] > 0
           /\ made'[job[r].name] = 1 =>
                /\ job[r].name # n /\ Alone(job[r].name)
                /\ content'[job[r].ino] = content[job[r].ino]
                /\ job[r].name \in DOMAIN dir' => dir'[job[r].name] = job[r].ino
      /\ \A m \in DOMAIN dir' : made'[m] > 0
      /\ \A f \in finished : made'[f.name] > 0 /\ (made'[f.name] = 1 => f.name # n /\ Alone(f.name))
      /\ \A f \in finished : made'[f.name] = 1 /\ f.name \in DOMAIN dir'
                               => content'[dir'[f.name]] = f.holds
      /\ content'[i] = s /\ n \in {"pcap"} \X (0..MaxTime) /\ made'[n] > 0
  BY <1>0, <1>1, <1>2, CreateKeeps
<1>4. rec'.on => rec'.name = n /\ rec'.ino = i /\ rec'.off = 1 /\ content'[i] = <<0>>
  BY <1>0, <1>1, <1>3 DEF new
<1>5. \A r \in Requests : Writing(r) => job[r].ino # i
  <2> SUFFICES ASSUME NEW r \in Requests, Writing(r) PROVE job[r].name # n
    BY <1>3
  <2> QED
    BY <1>0, <1>3, JobKnown DEF Writing
<1>6. \A r \in Requests : Writing(r)' = Writing(r)
  BY <1>0 DEF Writing
<1>7. Distinct'
  <2>1. \A r, q \in Requests : Writing(r) /\ Writing(q) /\ job[q].ino = job[r].ino
                                 => job[q].name = job[r].name
    BY DEF FilesInv, Distinct
  <2> QED
    BY <1>0, <1>3, <1>4, <1>5, <1>6, <2>1 DEF Distinct
<1>8. TapeKept'
  <2>1. Len(<<0>>) = 1 /\ 1 > 0
    OBVIOUS
  <2>2. rec'.on => content'[rec'.ino] = <<0>> /\ rec'.off = 1
    BY <1>4
  <2>3. rec'.on => Len(content'[rec'.ino]) = rec'.off /\ rec'.off > 0
    BY ONLY <2>1, <2>2, Zenon
  <2> QED
    BY ONLY <2>3 DEF TapeKept
<1>9. WasMade'
  BY <1>0, <1>3, <1>4, <1>6 DEF WasMade
<1>10. OneUser'
  <2>1. /\ \A f, g \in finished : Alone(f.name) /\ f.name = g.name => f = g
        /\ \A f \in finished : Alone(f.name) =>
             \A r \in Requests : Writing(r) => job[r].name # f.name
        /\ \A r, q \in Requests :
             r # q /\ Writing(r) /\ Writing(q) /\ job[r].name = job[q].name => ~Alone(job[r].name)
    BY DEF FilesInv, OneUser
  <2>2. \A m : Alone(m)' <=> made'[m] = 1
    BY DEF Alone
  <2> QED
    BY <1>0, <1>3, <1>4, <1>6, <2>1, <2>2 DEF OneUser
<1>11. Linked'
  <2>1. \A r \in Requests : Writing(r) /\ Alone(job[r].name) => content[job[r].ino] = job[r].sent
    BY DEF FilesInv, Linked
  <2> QED
    BY <1>0, <1>3, <1>4, <1>6, <2>1 DEF Linked, KeptWhole, Alone
<1> QED
  BY <1>7, <1>8, <1>9, <1>10, <1>11 DEF FilesInv

\* Creating the file of an export, perhaps over an earlier one, keeps it.
LEMMA CreateFileKeeps ==
  ASSUME FilesInv, TypeOK', NEW r \in Requests, CreateFile(r)
  PROVE  FilesInv'
<1> DEFINE kind == job[r].kind
           n == Name(kind, now)
           i == InodeFor(n)
<1>0. /\ TypeOK /\ UNCHANGED <<rec, finished>> /\ job[r].step = "create"
      /\ <<>> \in Data /\ Create(kind, <<>>)
      /\ job' = [job EXCEPT ![r].step = "write", ![r].name = n, ![r].ino = i]
  BY DEF FilesInv, CreateFile, Data
<1>1. kind \in {"csv", "json"} /\ kind \in Kinds /\ job[r].sent = <<>> /\ job \in [Requests -> JobType]
  BY <1>0, JobKnown DEF Kinds, TypeOK, JobsOK
<1>2. PICK k, s : k = kind /\ s = <<>> /\ Create(k, s)
  BY <1>0
<1>3. n = Name(k, now) /\ i = InodeFor(n) /\ k \in Kinds /\ k # "pcap" /\ s \in Data
  BY <1>0, <1>1, <1>2
<1>4. /\ \A q \in Requests \ {r} : job'[q] = job[q]
      /\ job'[r].step = "write" /\ job'[r].name = n /\ job'[r].ino = i /\ job'[r].sent = <<>>
  BY <1>0, <1>1 DEF JobType, Jobs
<1> HIDE DEF n, i, kind
<1>5. /\ \A m, l \in DOMAIN dir' : dir'[m] = dir'[l] => m = l
      /\ n \in DOMAIN dir' /\ dir'[n] = i
      /\ \A q \in Requests : Writing(q) =>
           /\ \A m \in DOMAIN dir' : dir'[m] = job[q].ino => m = job[q].name
           /\ job[q].ino = i => job[q].name = n
           /\ made'[job[q].name] > 0
           /\ made'[job[q].name] = 1 =>
                /\ job[q].name # n /\ Alone(job[q].name)
                /\ content'[job[q].ino] = content[job[q].ino]
                /\ job[q].name \in DOMAIN dir' => dir'[job[q].name] = job[q].ino
      /\ rec.on =>
           /\ rec.ino # i /\ content'[rec.ino] = content[rec.ino]
           /\ \A m \in DOMAIN dir' : dir'[m] = rec.ino => m = rec.name
           /\ made'[rec.name] > 0
           /\ made'[rec.name] = 1 => rec.name # n /\ Alone(rec.name)
           /\ rec.name \in DOMAIN dir' /\ made'[rec.name] = 1 => dir'[rec.name] = rec.ino
      /\ \A m \in DOMAIN dir' : made'[m] > 0
      /\ \A f \in finished : made'[f.name] > 0 /\ (made'[f.name] = 1 => f.name # n /\ Alone(f.name))
      /\ \A f \in finished : made'[f.name] = 1 /\ f.name \in DOMAIN dir'
                               => content'[dir'[f.name]] = f.holds
      /\ content'[i] = <<>>
  BY <1>0, <1>2, <1>3, CreateKeeps
<1>6. \A q \in Requests : Writing(q)' <=> q = r \/ Writing(q)
  BY <1>0, <1>4 DEF Writing
<1>7. ~Writing(r) /\ \A m : Alone(m)' <=> made'[m] = 1
  BY <1>0 DEF Writing, Alone
<1>8. Distinct'
  <2>1. \A p, q \in Requests : Writing(p) /\ Writing(q) /\ job[q].ino = job[p].ino
                                 => job[q].name = job[p].name
    BY DEF FilesInv, Distinct
  <2>2. rec.on => \A q \in Requests : Writing(q) => job[q].ino # rec.ino
    BY DEF FilesInv, Distinct
  <2>3. \A q \in Requests : Writing(q)' =>
          /\ \A m \in DOMAIN dir' : dir'[m] = job'[q].ino => m = job'[q].name
          /\ rec.on => job'[q].ino # rec.ino
    BY <1>4, <1>5, <1>6, <1>7, <2>2
  <2>4. \A p, q \in Requests : Writing(p)' /\ Writing(q)' /\ job'[q].ino = job'[p].ino
                                 => job'[q].name = job'[p].name
    BY <1>4, <1>5, <1>6, <1>7, <2>1
  <2> QED
    BY <1>0, <1>5, <2>3, <2>4 DEF Distinct
<1>9. TapeKept'
  BY <1>0, <1>5 DEF TapeKept, FilesInv
<1>10. WasMade'
  BY <1>0, <1>4, <1>5, <1>6, <1>7 DEF WasMade
<1>11. OneUser'
  <2>1. /\ \A f, g \in finished : Alone(f.name) /\ f.name = g.name => f = g
        /\ \A f \in finished : Alone(f.name) =>
             /\ rec.on => rec.name # f.name
             /\ \A q \in Requests : Writing(q) => job[q].name # f.name
        /\ \A p, q \in Requests :
             p # q /\ Writing(p) /\ Writing(q) /\ job[p].name = job[q].name => ~Alone(job[p].name)
    BY DEF FilesInv, OneUser
  <2>2. \A f \in finished : made'[f.name] = 1 =>
             /\ rec.on => rec.name # f.name
             /\ \A q \in Requests : Writing(q)' => job'[q].name # f.name
    BY <1>4, <1>5, <1>6, <1>7, <2>1
  <2>3. \A p, q \in Requests :
             p # q /\ Writing(p)' /\ Writing(q)' /\ job'[p].name = job'[q].name => made'[job'[p].name] # 1
    BY <1>4, <1>5, <1>6, <1>7, <2>1
  <2> QED
    BY <1>0, <1>5, <2>1, <2>2, <2>3 DEF OneUser, Alone
<1>12. Linked'
  <2>1. \A q \in Requests : Writing(q) /\ Alone(job[q].name) => content[job[q].ino] = job[q].sent
    BY DEF FilesInv, Linked
  <2>2. \A q \in Requests : Writing(q)' /\ made'[job'[q].name] = 1 =>
          /\ job'[q].name \in DOMAIN dir' => dir'[job'[q].name] = job'[q].ino
          /\ content'[job'[q].ino] = job'[q].sent
    BY <1>4, <1>5, <1>6, <1>7, <2>1
  <2>3. KeptWhole'
    BY <1>0, <1>5, <1>7 DEF KeptWhole
  <2> QED
    BY <1>0, <1>5, <2>2, <2>3 DEF Linked, Alone
<1> QED
  BY <1>8, <1>9, <1>10, <1>11, <1>12 DEF FilesInv

\* Recording one packet more keeps it.
LEMMA WritePacketKeeps ==
  ASSUME FilesInv, TypeOK', NEW p \in 1..stored, WritePacket(p)
  PROVE  FilesInv'
<1>0. PICK i \in {p, Torn} : content' = [content EXCEPT ![rec.ino] = Put(@, rec.off, <<i>>)]
  BY DEF WritePacket
<1>1. /\ rec.on /\ UNCHANGED <<dir, made, job, finished>>
      /\ rec' = [rec EXCEPT !.off = @ + 1]
      /\ content' = [content EXCEPT ![rec.ino] = Put(@, rec.off, <<i>>)]
  BY <1>0 DEF WritePacket
<1>2. /\ TypeOK /\ rec \in Recording /\ rec.ino \in Inode /\ rec.off \in Nat /\ stored \in Nat
  BY <1>1, RecType, ExporterAssumption DEF FilesInv, TypeOK, CountersOK
<1>3. <<i>> \in Data /\ Len(<<i>>) = 1
  BY <1>2 DEF Data
<1>4. /\ content'[rec.ino] = Put(content[rec.ino], rec.off, <<i>>)
      /\ \A j \in Inode \ {rec.ino} : content'[j] = content[j]
      /\ content[rec.ino] \in Data
  BY <1>1, <1>2, <1>3, WriteFacts
<1>5. rec'.on /\ rec'.ino = rec.ino /\ rec'.name = rec.name /\ rec'.off = rec.off + 1
  BY <1>1, <1>2 DEF Recording
<1>6. \A r : Writing(r)' = Writing(r) /\ Alone(r)' = Alone(r)
  BY <1>1 DEF Writing, Alone
<1>7. Distinct'
  BY <1>1, <1>5, <1>6 DEF FilesInv, Distinct
<1>8. TapeKept'
  <2>1. Len(content[rec.ino]) = rec.off
    BY <1>1 DEF FilesInv, TapeKept
  <2>2. Len(Put(content[rec.ino], rec.off, <<i>>)) = rec.off + 1
    <3>1. ASSUME NEW c \in Data, NEW q \in Data, NEW off \in Nat, Len(c) = off, Len(q) = 1
          PROVE  Len(Put(c, off, q)) = off + 1
      <4>1. Len(Put(c, off, q)) = IF Len(c) > off + Len(q) THEN Len(c) ELSE off + Len(q)
        BY PutType
      <4> QED
        BY <3>1, <4>1
    <3> QED
      BY <1>2, <1>3, <1>4, <2>1, <3>1
  <2>3. Len(content'[rec'.ino]) = rec'.off /\ rec'.off > 0
    BY <1>2, <1>4, <1>5, <2>2
  <2> QED
    BY ONLY <2>3 DEF TapeKept
<1>9. WasMade' /\ OneUser'
  BY <1>1, <1>5, <1>6 DEF FilesInv, WasMade, OneUser
<1>10. Linked'
  <2>1. \A f \in finished : Alone(f.name) /\ f.name \in DOMAIN dir =>
          dir[f.name] \in Inode /\ dir[f.name] # rec.ino /\ content[dir[f.name]] = f.holds
    BY <1>1, <1>2 DEF FilesInv, TypeOK, FilesOK, OneUser, Distinct, Linked, KeptWhole
  <2>2. KeptWhole'
    BY <1>1, <1>4, <1>6, <2>1 DEF KeptWhole
  <2>3. \A r \in Requests : Writing(r) => job[r].ino \in Inode /\ job[r].ino # rec.ino
    BY <1>1, <1>2, JobKnown DEF FilesInv, Distinct, Writing
  <2> QED
    BY <1>1, <1>4, <1>5, <1>6, <2>2, <2>3 DEF FilesInv, Linked
<1> QED
  BY <1>7, <1>8, <1>9, <1>10 DEF FilesInv

\* Writing the rows of an export keeps it.
LEMMA WriteOutKeeps ==
  ASSUME FilesInv, TypeOK', NEW r \in Requests, WriteOut(r)
  PROVE  FilesInv'
<1> DEFINE ino == job[r].ino
           sent == job[r].sent
<1>1. PICK n \in Len(sent) + 1..Len(job[r].whole) :
        /\ content' = [content EXCEPT ![ino] = Put(@, Len(sent), SubSeq(job[r].whole, Len(sent) + 1, n))]
        /\ job' = [job EXCEPT ![r].sent = @ \o SubSeq(job[r].whole, Len(sent) + 1, n)]
  BY DEF WriteOut
<1> DEFINE s == SubSeq(job[r].whole, Len(sent) + 1, n)
<1>2. TypeOK /\ job[r].step = "write" /\ UNCHANGED <<dir, made, rec, finished>>
  BY DEF FilesInv, WriteOut
<1>3. /\ job[r] \in JobType /\ ino \in Inode /\ sent \in Data /\ job[r].whole \in Data
      /\ job \in [Requests -> JobType]
  BY <1>2, JobKnown DEF TypeOK, JobsOK
<1>4. s \in Data /\ Len(sent) \in Nat
  BY <1>3 DEF Data
<1> HIDE DEF s
<1>5. content' = [content EXCEPT ![ino] = Put(@, Len(sent), s)]
  BY <1>1 DEF s
<1>6. /\ content'[ino] = Put(content[ino], Len(sent), s)
      /\ \A j \in Inode \ {ino} : content'[j] = content[j]
  BY <1>2, <1>3, <1>4, <1>5, WriteFacts
<1>7. /\ \A q \in Requests \ {r} : job'[q] = job[q]
      /\ job'[r].step = "write" /\ job'[r].ino = ino /\ job'[r].name = job[r].name
      /\ job'[r].sent = sent \o s
  BY <1>1, <1>2, <1>3 DEF s, JobType, Jobs
<1>8. \A q \in Requests : /\ Writing(q)' = Writing(q) /\ job'[q].name = job[q].name
                          /\ job'[q].ino = job[q].ino
  BY <1>2, <1>7 DEF Writing
<1>9. \A m : Alone(m)' = Alone(m)
  BY <1>2 DEF Alone
<1> HIDE DEF ino, sent
<1>10. Writing(r) /\ ino = job[r].ino /\ sent = job[r].sent
  BY <1>2 DEF Writing, ino, sent
<1>11. Distinct'
  BY <1>2, <1>8 DEF FilesInv, Distinct
<1>12. rec.on => rec.ino \in Inode /\ rec.ino # ino
  BY <1>2, <1>10, RecType DEF FilesInv, Distinct
<1>13. TapeKept'
  BY <1>2, <1>6, <1>12 DEF FilesInv, TapeKept
<1>14. WasMade' /\ OneUser'
  BY <1>2, <1>8, <1>9 DEF FilesInv, WasMade, OneUser
<1>15. Linked'
  <2>1. \A f \in finished : Alone(f.name) /\ f.name \in DOMAIN dir =>
          dir[f.name] \in Inode /\ dir[f.name] # ino /\ content[dir[f.name]] = f.holds
    BY <1>2, <1>10 DEF FilesInv, TypeOK, FilesOK, OneUser, Distinct, Linked, KeptWhole
  <2>2. KeptWhole'
    BY <1>2, <1>6, <1>9, <2>1 DEF KeptWhole
  <2>3. \A q \in Requests : q # r /\ Writing(q) /\ Alone(job[q].name) =>
          job[q].ino \in Inode /\ job[q].ino # ino
    BY <1>2, <1>10, JobKnown DEF FilesInv, Distinct, OneUser, Writing
  <2>4. Alone(job[r].name) => content'[ino] = sent \o s
    BY <1>3, <1>4, <1>6, <1>10, PutAtEnd DEF FilesInv, Linked, ino, sent
  <2>5. \A q \in Requests : Writing(q) /\ Alone(job[q].name) => content'[job[q].ino] = job'[q].sent
    <3> SUFFICES ASSUME NEW q \in Requests, Writing(q), Alone(job[q].name)
                 PROVE  content'[job[q].ino] = job'[q].sent
      OBVIOUS
    <3>1. CASE q = r
      BY <1>7, <1>10, <2>4, <3>1
    <3>2. CASE q # r
      BY <1>6, <1>7, <2>3, <3>2 DEF FilesInv, Linked
    <3> QED
      BY <3>1, <3>2
  <2>6. \A q \in Requests : Writing(q) /\ Alone(job[q].name) /\ job[q].name \in DOMAIN dir
          => dir[job[q].name] = job[q].ino
    BY DEF FilesInv, Linked
  <2>7. rec.on /\ Alone(rec.name) /\ rec.name \in DOMAIN dir => dir[rec.name] = rec.ino
    BY DEF FilesInv, Linked
  <2> QED
    BY <1>2, <1>8, <1>9, <2>2, <2>5, <2>6, <2>7 DEF Linked
<1> QED
  BY <1>11, <1>13, <1>14, <1>15 DEF FilesInv

\* Answering the request with the name of its file keeps it.
LEMMA ReportKeeps ==
  ASSUME FilesInv, TypeOK', NEW r \in Requests, Report(r)
  PROVE  FilesInv'
<1> DEFINE new == [name |-> job[r].name, holds |-> job[r].whole]
<1>1. /\ TypeOK /\ Writing(r) /\ job[r].sent = job[r].whole /\ finished' = finished \cup {new}
      /\ UNCHANGED <<dir, content, made, rec>>
      /\ job' = [job EXCEPT ![r] = Idle] /\ job \in [Requests -> JobType]
  BY DEF Report, FilesInv, Writing, TypeOK, JobsOK, fileVars
<1>2. new.name = job[r].name /\ new.holds = job[r].whole
  OBVIOUS
<1>3. job[r].name \in {"csv", "json"} \X (0..MaxTime)
  BY <1>1, JobKnown DEF Writing
<1>4. rec.on => rec.name # job[r].name
  BY <1>1, <1>3, RecType
<1> HIDE DEF new
<1>5. \A q \in Requests : job'[q].step = "write" => q # r /\ job'[q] = job[q]
  BY <1>1 DEF Idle
<1>6. \A q \in Requests : Writing(q)' => q # r /\ Writing(q) /\ job'[q] = job[q]
  BY <1>5 DEF Writing
<1>7. \A m : Alone(m)' = Alone(m)
  BY <1>1 DEF Alone
<1>8. Distinct'
  BY <1>1, <1>6 DEF FilesInv, Distinct
<1>9. TapeKept'
  BY <1>1 DEF FilesInv, TapeKept
<1>10. WasMade'
  BY <1>1, <1>2, <1>6 DEF FilesInv, WasMade
<1>11. OneUser'
  BY <1>1, <1>2, <1>4, <1>6, <1>7 DEF FilesInv, OneUser
<1>12. KeptWhole'
  BY <1>1, <1>2, <1>7 DEF FilesInv, Linked, KeptWhole
<1>13. Linked'
  BY <1>1, <1>6, <1>7, <1>12 DEF FilesInv, Linked
<1> QED
  BY <1>8, <1>9, <1>10, <1>11, <1>13 DEF FilesInv

\* StopPCAP keeps it.
LEMMA StopKeeps == FilesInv /\ TypeOK' /\ StopPCAP => FilesInv'
<1> SUFFICES ASSUME FilesInv, TypeOK', StopPCAP PROVE FilesInv'
  OBVIOUS
<1> DEFINE new == [name |-> rec.name, holds |-> content[rec.ino]]
<1>1. /\ TypeOK /\ rec.on /\ ~rec'.on /\ finished' = finished \cup {new}
      /\ UNCHANGED <<dir, content, made, job>>
  BY DEF StopPCAP, FilesInv, NotRecording, fileVars
<1>2. new.name = rec.name /\ new.holds = content[rec.ino]
  OBVIOUS
<1>3. rec.name \in {"pcap"} \X (0..MaxTime)
  BY <1>1, RecType
<1>4. \A q \in Requests : Writing(q) => job[q].name # rec.name
  BY <1>1, <1>3, JobKnown DEF Writing
<1> HIDE DEF new
<1>5. \A q : Writing(q)' = Writing(q) /\ Alone(q)' = Alone(q)
  BY <1>1 DEF Writing, Alone
<1>6. Distinct' /\ TapeKept'
  BY <1>1, <1>5 DEF FilesInv, Distinct, TapeKept
<1>7. WasMade'
  BY <1>1, <1>2, <1>5 DEF FilesInv, WasMade
<1>8. OneUser'
  BY <1>1, <1>2, <1>4, <1>5 DEF FilesInv, OneUser
<1>9. KeptWhole'
  BY <1>1, <1>2, <1>5 DEF FilesInv, Linked, KeptWhole
<1>10. Linked'
  BY <1>1, <1>5, <1>9 DEF FilesInv, Linked
<1> QED
  BY <1>6, <1>7, <1>8, <1>10 DEF FilesInv

\* No file is written at the start.
LEMMA FilesInit == Init => FilesInv
<1> SUFFICES ASSUME Init PROVE FilesInv
  OBVIOUS
<1>1. /\ TypeOK /\ DOMAIN dir = {} /\ ~rec.on /\ finished = {}
      /\ \A r \in Requests : ~Writing(r)
  BY TypeInit DEF Init, NotRecording, Idle, Writing
<1> QED
  BY <1>1 DEF FilesInv, Distinct, TapeKept, WasMade, OneUser, Linked, KeptWhole

\* Every step of the exporter keeps the file invariant.
LEMMA FilesStep == FilesInv /\ [Next]_vars => FilesInv'
<1> SUFFICES ASSUME FilesInv, [Next]_vars PROVE FilesInv'
  OBVIOUS
<1> USE DEF fileVars
<1>0. TypeOK /\ TypeOK' /\ Idle.step = "idle" /\ ~NotRecording.on /\ job \in [Requests -> JobType]
  BY TypeStep DEF FilesInv, Idle, NotRecording, TypeOK, JobsOK
<1>1. ASSUME UNCHANGED <<dir, content, made, finished, rec>>,
             \A r \in Requests : job'[r].step = "write" => job'[r] = job[r]
      PROVE  FilesInv'
  BY <1>0, <1>1, Release
<1>2. CASE UNCHANGED vars \/ Tick \/ Insert
  BY <1>1, <1>2 DEF vars, Tick, Insert
<1>3. CASE StartPCAP \/ StopPCAP
  BY <1>0, <1>3, StartKeeps, StopKeeps
<1>4. CASE ProcessEnds
  BY <1>0, <1>4, Release DEF ProcessEnds
<1>5. ASSUME NEW p \in 1..stored, WritePacket(p) PROVE FilesInv'
  BY <1>0, <1>5, WritePacketKeeps
<1>6. ASSUME NEW n \in DOMAIN dir, DeleteFile(n) PROVE FilesInv'
  BY <1>0, <1>6, Release DEF DeleteFile
<1>7. ASSUME NEW r \in Requests, NEW n \in DOMAIN dir, Open(r, n) PROVE FilesInv'
  BY <1>0, <1>1, <1>7 DEF Open
<1>8. ASSUME NEW r \in Requests, NEW kind \in {"csv", "json"}, Query(r, kind) PROVE FilesInv'
  BY <1>0, <1>1, <1>8 DEF Query
<1>9. ASSUME NEW r \in Requests, CreateFile(r) \/ WriteOut(r) \/ Report(r) PROVE FilesInv'
  BY <1>0, <1>9, CreateFileKeeps, WriteOutKeeps, ReportKeeps
<1>10. ASSUME NEW r \in Requests,
              FailExport(r) \/ StatFails(r) \/ EndCopy(r) \/ BreakOff(r) \/ GiveUp(r)
       PROVE  FilesInv'
  <2>1. [Idle EXCEPT !.step = "broken"].step = "broken"
    BY DEF Idle
  <2> QED
    BY <1>0, <1>1, <1>10, <2>1 DEF FailExport, StatFails, EndCopy, BreakOff, GiveUp
<1>11. ASSUME NEW r \in Requests, Copy(r) PROVE FilesInv'
  <2>1. job'[r].step = "copy" /\ \A q \in Requests \ {r} : job'[q] = job[q]
    BY <1>0, <1>11 DEF Copy, JobType, Jobs
  <2> QED
    BY <1>1, <1>11, <2>1 DEF Copy
<1>12. ASSUME NEW r \in Requests, Stat(r) PROVE FilesInv'
  <2>1. job'[r].step = "copy" /\ \A q \in Requests \ {r} : job'[q] = job[q]
    BY <1>0, <1>12 DEF Stat, JobType, Jobs
  <2> QED
    BY <1>1, <1>12, <2>1 DEF Stat
<1> QED
  BY <1>2, <1>3, <1>4, <1>5, <1>6, <1>7, <1>8, <1>9, <1>10, <1>11, <1>12 DEF Next, Work

-----------------------------------------------------------------------------
(* The exporter records *)

LEMMA RecorderInit == Init => Abstract!Init
BY DEF Init, Abstract!Init, NotRecording, Tape

\* Every step of the exporter is one of the abstract recorder, or a stutter.
LEMMA RecorderStep == FilesInv /\ [Next]_vars => [Abstract!Next]_<<rec.on, Tape>>
<1> SUFFICES ASSUME FilesInv, [Next]_vars PROVE [Abstract!Next]_<<rec.on, Tape>>
  OBVIOUS
<1> USE DEF fileVars
<1>0. TypeOK /\ ~NotRecording.on /\ rec.on \in BOOLEAN /\ NotRecording.on \in BOOLEAN
  BY RecType DEF FilesInv, NotRecording
<1>1. ASSUME UNCHANGED rec, rec.on => content'[rec.ino] = content[rec.ino]
      PROVE  UNCHANGED <<rec.on, Tape>>
  BY <1>1 DEF Tape
<1>2. ASSUME rec' = NotRecording PROVE [Abstract!Next]_<<rec.on, Tape>>
  <2>1. rec'.on = FALSE /\ Tape' = <<>>
    BY <1>0, <1>2 DEF Tape, NotRecording
  <2> QED
    BY <1>0, <2>1 DEF Tape, Abstract!Next, Abstract!Stop
<1>3. CASE StartPCAP
  <2> DEFINE n == Name("pcap", now)
             i == InodeFor(n)
             new == [on |-> TRUE, name |-> n, ino |-> i, off |-> 1]
  <2>1. ~rec.on /\ "pcap" \in Kinds /\ <<0>> \in Data /\ <<>> \in Data /\ rec.on = FALSE
    BY <1>0, <1>3 DEF StartPCAP, Kinds, Data
  <2>2. PICK s \in {<<0>>, <<>>} : Create("pcap", s) /\ ((s = <<0>> /\ rec' = new) \/ UNCHANGED rec)
    BY <1>3 DEF StartPCAP
  <2>3. n = Name("pcap", now) /\ i = InodeFor(n) /\ s \in Data
    BY <2>1
  <2>4. new.on = TRUE /\ new.ino = i
    OBVIOUS
  <2> HIDE DEF n, i, new
  <2>5. content'[i] = s
    BY <2>1, <2>2, <2>3, CreateKeeps
  <2>6. CASE s = <<0>> /\ rec' = new
    <3>1. rec'.on = TRUE /\ content'[rec'.ino] = <<0>> /\ Tail(<<0>>) = <<>>
      BY <2>4, <2>5, <2>6
    <3>2. rec'.on = TRUE /\ Tape' = <<>>
      BY <3>1 DEF Tape
    <3> QED
      BY <2>1, <3>2 DEF Abstract!Next, Abstract!Start
  <2> QED
    BY <1>1, <2>1, <2>2, <2>6
<1>4. CASE StopPCAP \/ ProcessEnds
  BY <1>2, <1>4 DEF StopPCAP, ProcessEnds
<1>5. ASSUME NEW p \in 1..stored, WritePacket(p) PROVE Abstract!Next
  <2>0. PICK i \in {p, Torn} : content' = [content EXCEPT ![rec.ino] = Put(@, rec.off, <<i>>)]
    BY <1>5 DEF WritePacket
  <2>1. /\ rec.on = TRUE /\ rec \in Recording /\ rec.ino \in Inode /\ rec.off \in Nat
        /\ rec' = [rec EXCEPT !.off = @ + 1]
        /\ content' = [content EXCEPT ![rec.ino] = Put(@, rec.off, <<i>>)]
    BY <1>0, <1>5, <2>0, RecType DEF WritePacket
  <2>2. i \in Nat \cup {Torn} /\ i \in 1..MaxPkts \cup {Torn} /\ <<i>> \in Data
    BY <1>0, ExporterAssumption DEF TypeOK, CountersOK, Data
  <2>3. content'[rec.ino] = Put(content[rec.ino], rec.off, <<i>>) /\ content[rec.ino] \in Data
    BY <1>0, <2>1, <2>2, WriteFacts
  <2>4. Len(content[rec.ino]) = rec.off /\ content[rec.ino] # <<>>
    BY <2>1 DEF FilesInv, TapeKept
  <2>5. rec'.on = TRUE /\ rec'.ino = rec.ino
    BY <2>1 DEF Recording
  <2>6. Tape' = Append(Tape, i)
    <3>1. Tape' = Tail(content'[rec.ino]) /\ Tape = Tail(content[rec.ino])
      BY <2>1, <2>5 DEF Tape
    <3>2. \A c \in Data : c # <<>> => Tail(Put(c, Len(c), <<i>>)) = Append(Tail(c), i)
      BY <2>2, TailOfPut
    <3>3. Tail(Put(content[rec.ino], rec.off, <<i>>)) = Append(Tail(content[rec.ino]), i)
      BY <2>3, <2>4, <3>2
    <3> QED
      BY <2>3, <3>1, <3>3
  <2> QED
    BY <2>1, <2>2, <2>5, <2>6 DEF Abstract!Next, Abstract!Write
<1>6. ASSUME NEW r \in Requests, CreateFile(r) PROVE UNCHANGED <<rec.on, Tape>>
  <2>1. UNCHANGED rec /\ Create(job[r].kind, <<>>) /\ job[r].kind \in {"csv", "json"} /\ <<>> \in Data
    BY <1>0, <1>6, JobKnown DEF CreateFile, Data
  <2>2. PICK k \in Kinds, s \in Data : Create(k, s) /\ k # "pcap"
    BY <2>1 DEF Kinds
  <2>3. rec.on => content'[rec.ino] = content[rec.ino]
    BY <2>2, CreateKeeps
  <2> QED
    BY <1>1, <2>1, <2>3
<1>7. ASSUME NEW r \in Requests, WriteOut(r) PROVE UNCHANGED <<rec.on, Tape>>
  <2>1. Writing(r) /\ UNCHANGED rec /\ job[r].ino \in Inode /\ content \in Seq(Data)
    BY <1>0, <1>7, JobKnown DEF WriteOut, Writing, TypeOK, FilesOK
  <2>2. PICK s : content' = [content EXCEPT ![job[r].ino] = s]
    BY <1>7 DEF WriteOut
  <2>3. rec.on => rec.ino \in Inode /\ job[r].ino # rec.ino
    BY <1>0, <2>1, RecType DEF FilesInv, Distinct
  <2>4. rec.on => content'[rec.ino] = content[rec.ino]
    BY <2>1, <2>2, <2>3 DEF Inode
  <2> QED
    BY <1>1, <2>1, <2>4
<1>8. CASE UNCHANGED <<content, rec>>
  BY <1>1, <1>8
<1>9. Tick \/ Insert \/ UNCHANGED vars => UNCHANGED <<content, rec>>
  BY DEF Tick, Insert, vars
<1>10. /\ \A n \in DOMAIN dir : DeleteFile(n) => UNCHANGED <<content, rec>>
       /\ \A n \in DOMAIN dir, r \in Requests : Open(r, n) => UNCHANGED <<content, rec>>
       /\ \A r \in Requests, kind \in {"csv", "json"} : Query(r, kind) => UNCHANGED <<content, rec>>
       /\ \A r \in Requests : \/ Report(r) \/ FailExport(r) \/ Stat(r) \/ StatFails(r)
                               \/ Copy(r) \/ EndCopy(r) \/ BreakOff(r) \/ GiveUp(r)
                                => UNCHANGED <<content, rec>>
  BY DEF DeleteFile, Open, Query, Report, FailExport, Stat, StatFails, Copy, EndCopy, BreakOff, GiveUp
<1> QED
  BY <1>3, <1>4, <1>5, <1>6, <1>7, <1>8, <1>9, <1>10 DEF Next, Work

-----------------------------------------------------------------------------
(* The process *)

LEMMA ServerSteps == [ServerNext]_serverVars => [Next]_vars
<1> SUFFICES ASSUME [ServerNext]_serverVars PROVE [Next]_vars
  OBVIOUS
<1>1. CASE Boot \/ Listen \/ Crash \/ Signal \/ Drained \/ Forced \/ Close \/ Restart
  BY <1>1 DEF Boot, Listen, Crash, Signal, Drained, Forced, Close, Restart, Die, Next
<1>2. CASE Manage \/ Second
  BY <1>2 DEF Manage, Second, Next
<1>3. ASSUME NEW f \in Feeds,
             Connect(f) \/ Push(f) \/ Record(f) \/ Beat(f) \/ Leave(f) \/ Return(f)
      PROVE  [Next]_vars
  BY <1>3 DEF Connect, Push, Record, Beat, Leave, Return, Next
<1>4. ASSUME NEW r \in Requests, Accept(r) \/ Proceed(r) PROVE [Next]_vars
  BY <1>4 DEF Accept, Proceed, Next
<1> QED
  BY <1>1, <1>2, <1>3, <1>4 DEF ServerNext, serverVars

\* In the process the exporter behaves as specified for itself.
THEOREM ServerExports == ServerSpec => Spec
<1>1. ServerInit => Init
  BY DEF ServerInit
<1> QED
  BY <1>1, ServerSteps, PTL DEF ServerSpec, Spec

\* A stopped recording and a reported export stay what they were, whatever other
\* requests, restarts and crashes do meanwhile.
THEOREM FilesAreKept == ServerSpec => []KeptWhole
<1>1. FilesInv => KeptWhole
  BY DEF FilesInv, Linked
<1> QED
  BY <1>1, FilesInit, FilesStep, ServerExports, PTL DEF Spec

\* To its users the exporter is a recorder: what it writes is the recording's alone.
THEOREM ExporterRecords == ServerSpec => IsRecorder
<1>1. Spec => []FilesInv
  BY FilesInit, FilesStep, PTL DEF Spec
<1>2. Spec => Abstract!Init /\ [][Abstract!Next]_<<rec.on, Tape>>
  BY <1>1, RecorderInit, RecorderStep, PTL DEF Spec
<1>3. Spec => IsRecorder
  BY <1>2 DEF IsRecorder, Abstract!Spec
<1> QED
  BY <1>3, ServerExports

Stores == {"session", "users", "audit", "alerts"}

\* How far main is, and what it has opened by then.
BootAt ==
  /\ boot \in 0..5 /\ (boot > 0 => hasDir)
  /\ opened \in Seq(Stores) /\ Len(opened) = IF boot <= 1 THEN boot ELSE boot - 1
  /\ \A i \in 1..Len(opened) : opened[i] = Databases[i]

\* Requests are at work while the server runs or drains, when everything is open.
LifeInv ==
  /\ phase \in {"boot", "up", "draining", "closing", "down"}
  /\ phase = "boot" => BootAt
  /\ phase \in {"up", "draining"} => opened = Databases /\ hasDir
  /\ phase \notin {"up", "draining"} => ~AtWork

\* The server starts in its life-cycle invariant.
LEMMA LifeInit == ServerInit => LifeInv
BY DEF ServerInit, Init, LifeInv, BootAt, AtWork, Idle, NoFeed

\* A step of main before it serves keeps the life-cycle invariant.
LEMMA BootKeeps == LifeInv /\ Boot => LifeInv'
<1> SUFFICES ASSUME LifeInv, Boot PROVE LifeInv'
  OBVIOUS
<1>1. /\ phase = "boot" /\ BootAt /\ ~AtWork /\ boot < 5 /\ boot' = boot + 1
      /\ UNCHANGED <<phase, job, feed>>
      /\ \/ Steps[boot + 1] = "exports" /\ hasDir' = TRUE /\ opened' = opened
         \/ /\ Steps[boot + 1] # "exports" /\ hasDir /\ hasDir' = hasDir
            /\ opened' = Append(opened, Steps[boot + 1])
  BY DEF LifeInv, Boot, Steps, vars
<1>2. ~AtWork'
  BY <1>1 DEF AtWork
<1>3. BootAt'
  <2>1. /\ Steps[1] = "session" /\ Steps[2] = "exports" /\ Steps[3] = "users"
        /\ Steps[4] = "audit" /\ Steps[5] = "alerts"
        /\ Databases[1] = "session" /\ Databases[2] = "users" /\ Databases[3] = "audit"
        /\ Databases[4] = "alerts"
    BY DEF Steps, Databases
  <2>2. boot \in 0..4 /\ opened \in Seq(Stores) /\ Len(opened) = IF boot <= 1 THEN boot ELSE boot - 1
    BY <1>1 DEF BootAt
  <2>3. boot # 1 => Steps[boot + 1] = Databases[Len(opened) + 1] /\ Steps[boot + 1] # "exports"
    BY <2>1, <2>2
  <2>4. boot # 1 => Steps[boot + 1] \in Stores
    BY <2>1, <2>2 DEF Stores
  <2>5. CASE boot = 1
    <3>1. Steps[boot + 1] = "exports"
      BY <2>1, <2>5
    <3>2. hasDir' /\ opened' = opened
      BY <1>1, <3>1
    <3>3. boot' = 2 /\ boot' \in 0..5 /\ Len(opened') = 1 /\ opened' \in Seq(Stores)
      BY <1>1, <2>2, <2>5, <3>2
    <3>4. \A i \in 1..Len(opened') : opened'[i] = Databases[i]
      BY <1>1, <3>2 DEF BootAt
    <3> QED
      BY <3>2, <3>3, <3>4 DEF BootAt
  <2>6. CASE boot # 1
    <3>1. opened' = Append(opened, Databases[Len(opened) + 1]) /\ hasDir'
      BY <1>1, <2>3, <2>6
    <3>2. /\ opened' \in Seq(Stores) /\ Len(opened') = Len(opened) + 1
          /\ \A i \in 1..Len(opened) : opened'[i] = opened[i]
          /\ opened'[Len(opened) + 1] = Databases[Len(opened) + 1]
      BY <2>2, <2>3, <2>4, <2>6, <3>1, AppendProperties
    <3>3. \A i \in 1..Len(opened') : opened'[i] = Databases[i]
      BY <1>1, <2>2, <3>2 DEF BootAt
    <3> QED
      BY <1>1, <2>2, <2>6, <3>1, <3>2, <3>3 DEF BootAt
  <2> QED
    BY <2>5, <2>6
<1> QED
  BY <1>1, <1>2, <1>3 DEF LifeInv

\* Every step of the server, its requests and its shutdown keeps it.
LEMMA LifeStep == LifeInv /\ [ServerNext]_serverVars => LifeInv'
<1> SUFFICES ASSUME LifeInv, [ServerNext]_serverVars PROVE LifeInv'
  OBVIOUS
<1> USE DEF vars, fileVars, lifeVars
<1>1. ASSUME ProcessEnds, phase' = "down", \A f \in Feeds : feed'[f].step = "off" PROVE LifeInv'
  <2>1. ~AtWork'
    BY <1>1 DEF ProcessEnds, AtWork, Idle
  <2> QED
    BY <1>1, <2>1 DEF LifeInv
<1>2. ASSUME phase \in {"up", "draining"}, UNCHANGED lifeVars PROVE LifeInv'
  BY <1>2 DEF LifeInv
<1>3. ASSUME UNCHANGED <<job, feed>>, UNCHANGED lifeVars PROVE LifeInv'
  BY <1>3 DEF LifeInv, BootAt, AtWork
<1>4. CASE UNCHANGED serverVars \/ Second
  BY <1>3, <1>4 DEF serverVars, Second, Tick
<1>5. CASE Boot
  BY <1>5, BootKeeps
<1>6. CASE Listen
  <2>1. BootAt /\ boot = 5 /\ UNCHANGED <<opened, hasDir>> /\ phase' = "up"
    BY <1>6 DEF Listen, LifeInv, Steps
  <2>2. Databases \in Seq(Stores) /\ Len(Databases) = 4
    <3>1. <<"session", "users", "audit", "alerts">> \in Seq(Stores)
      BY DEF Stores
    <3>2. Len(<<"session", "users", "audit", "alerts">>) = 4
      OBVIOUS
    <3> QED
      BY <3>1, <3>2, Zenon DEF Databases
  <2>3. opened = Databases
    BY <2>1, <2>2, SeqEqual DEF BootAt
  <2> QED
    BY <2>1, <2>3 DEF LifeInv, BootAt
<1>7. CASE Crash \/ Forced
  BY <1>1, <1>7 DEF Crash, Forced, Die, NoFeed
<1>8. CASE Signal
  BY <1>8 DEF Signal, LifeInv
<1>9. CASE Drained
  BY <1>9 DEF Drained, LifeInv, AtWork
<1>10. CASE Close
  <2>1. phase = "closing" /\ ~AtWork
    BY <1>10 DEF Close, LifeInv
  <2>2. CASE UNCHANGED <<vars, phase, feed>>
    BY <2>1, <2>2 DEF LifeInv, AtWork
  <2>3. CASE phase' = "down" /\ ProcessEnds /\ UNCHANGED feed
    BY <1>1, <2>1, <2>3 DEF AtWork
  <2> QED
    BY <1>10, <2>2, <2>3 DEF Close
<1>11. CASE Restart
  BY <1>11 DEF Restart, LifeInv, BootAt, AtWork
<1>12. CASE Manage
  BY <1>2, <1>12 DEF Manage
<1>13. ASSUME NEW f \in Feeds,
              Connect(f) \/ Push(f) \/ Record(f) \/ Beat(f) \/ Leave(f) \/ Return(f)
       PROVE  LifeInv'
  <2>1. phase \in {"up", "draining"}
    BY <1>13 DEF Connect, Push, Record, Beat, Leave, Return, Due, On, LifeInv, AtWork
  <2>2. UNCHANGED lifeVars
    BY <1>13 DEF Connect, Push, Record, Beat, Leave, Return
  <2> QED
    BY <1>2, <2>1, <2>2
<1>14. ASSUME NEW r \in Requests, Accept(r) \/ Proceed(r) PROVE LifeInv'
  <2>1. phase = "up" \/ job[r].step # "idle"
    BY <1>14 DEF Accept, Proceed, Work, CreateFile, WriteOut, Report, FailExport, Stat, StatFails,
                 Copy, EndCopy, BreakOff, GiveUp
  <2>2. phase \in {"up", "draining"}
    BY <2>1 DEF LifeInv, AtWork
  <2>3. UNCHANGED lifeVars
    BY <1>14 DEF Accept, Proceed
  <2> QED
    BY <1>2, <2>2, <2>3
<1> QED
  BY <1>4, <1>5, <1>6, <1>7, <1>8, <1>9, <1>10, <1>11, <1>12, <1>13, <1>14 DEF ServerNext

\* No handler works on what is not open, whatever starts, signals and crashes there were.
THEOREM ServedFromOpen == ServerSpec => []ServedOpen
<1>1. LifeInv => ServedOpen
  BY DEF LifeInv, ServedOpen
<1> QED
  BY <1>1, LifeInit, LifeStep, PTL DEF ServerSpec

-----------------------------------------------------------------------------
(* Downloads *)

Copying(r)   == job[r].step = "copy"
Reading(r)   == job[r].step \in {"stat", "copy"}
Begins(s, t) == Len(s) <= Len(t) /\ \A i \in 1..Len(s) : s[i] = t[i]

\* The file a download reads is in use under its name only.
ReadUnderName ==
  \A r \in Requests : Reading(r) =>
    /\ made[job[r].name] > 0 /\ job[r].name \in Names
    /\ \A n \in DOMAIN dir : dir[n] = job[r].ino => n = job[r].name
    /\ \A q \in Requests : Writing(q) /\ job[q].ino = job[r].ino => job[q].name = job[r].name

\* What a download has sent begins what was declared, which, in a name with one file,
\* begins what the file holds: nobody but its writer has touched it, at its end.
ReadFromStart ==
  \A r \in Requests : Copying(r) =>
    /\ Len(job[r].sent) <= Len(job[r].whole)
    /\ Alone(job[r].name) => /\ Begins(job[r].sent, job[r].whole)
                             /\ Begins(job[r].whole, content[job[r].ino])

DownloadInv == ReadUnderName /\ ReadFromStart

\* A download is known by its step.
LEMMA CopyKnown ==
  ASSUME TypeOK, NEW r \in Requests, Copying(r)
  PROVE  /\ job[r].name \in Names /\ job[r].ino \in Inode
         /\ content[job[r].ino] \in Data /\ Len(content[job[r].ino]) \in Nat
         /\ job[r].sent \in Data /\ job[r].whole \in Data
         /\ Len(job[r].sent) \in Nat /\ Len(job[r].whole) \in Nat
<1>1. job[r] \in Jobs({"copy"}, {"none"}, Names, Data)
  BY DEF TypeOK, JobsOK, JobType, Jobs, Copying
<1>2. job[r].name \in Names /\ job[r].ino \in Inode /\ job[r].sent \in Data /\ job[r].whole \in Data
  BY <1>1 DEF TypeOK, JobsOK, Jobs, Copying
<1>3. content[job[r].ino] \in Data
  BY <1>2 DEF TypeOK, FilesOK, Inode
<1> QED
  BY <1>2, <1>3 DEF Data

\* A step that creates nothing, opens nothing and empties nothing.
LEMMA DownloadRelease ==
  ASSUME DownloadInv, UNCHANGED <<content, made>>,
         DOMAIN dir' \subseteq DOMAIN dir, \A m \in DOMAIN dir' : dir'[m] = dir[m],
         \A r \in Requests : job'[r].step \in {"write", "stat", "copy"} => job'[r] = job[r]
  PROVE  DownloadInv'
<1>1. \A r \in Requests : /\ Writing(r)' => Writing(r) /\ job'[r] = job[r]
                          /\ Reading(r)' => Reading(r) /\ job'[r] = job[r]
                          /\ Copying(r)' => Copying(r) /\ job'[r] = job[r]
  BY DEF Writing, Reading, Copying
<1>2. ReadUnderName'
  BY <1>1 DEF DownloadInv, ReadUnderName
<1>3. ReadFromStart'
  <2>1. \A n : Alone(n)' = Alone(n)
    BY DEF Alone
  <2> QED
    BY <1>1, <2>1 DEF DownloadInv, ReadFromStart
<1> QED
  BY <1>2, <1>3 DEF DownloadInv

\* What is written at the end of a file leaves what begins it.
LEMMA BeginsAppended ==
  ASSUME NEW w \in Data, NEW c \in Data, NEW s \in Data, Begins(w, c)
  PROVE  Begins(w, Put(c, Len(c), s))
<1>1. Len(w) \in Nat /\ Len(c) \in Nat /\ Len(s) \in Nat /\ Len(w) <= Len(c)
  BY DEF Data, Begins
<1>2. Len(Put(c, Len(c), s)) = IF Len(c) > Len(c) + Len(s) THEN Len(c) ELSE Len(c) + Len(s)
  BY <1>1, PutType
<1>3. \A i \in 1..Len(c) : Put(c, Len(c), s)[i] = c[i]
  BY <1>1 DEF Put
<1> QED
  BY <1>1, <1>2, <1>3 DEF Begins

\* A step that writes to the end of one file, or to one that is not alone in its name.
LEMMA DownloadAppend ==
  ASSUME DownloadInv, TypeOK, UNCHANGED <<dir, made>>, NEW i \in Inode, NEW off \in Nat, NEW s \in Data,
         content' = [content EXCEPT ![i] = Put(@, off, s)],
         \A r \in Requests : Copying(r) /\ job[r].ino = i /\ Alone(job[r].name) => off = Len(content[i]),
         \A r \in Requests : /\ Copying(r)' = Copying(r) /\ Writing(r)' = Writing(r)
                             /\ Reading(r)' = Reading(r) /\ job'[r].name = job[r].name /\ job'[r].ino = job[r].ino,
         \A r \in Requests : Copying(r) => job'[r] = job[r]
  PROVE  DownloadInv'
<1>1. ReadUnderName'
  BY DEF DownloadInv, ReadUnderName
<1>2. /\ content'[i] = Put(content[i], off, s)
      /\ \A j \in Inode \ {i} : content'[j] = content[j]
      /\ content[i] \in Data
  BY WriteFacts
<1>3. ASSUME NEW r \in Requests, Copying(r)
      PROVE  /\ Len(job[r].sent) <= Len(job[r].whole)
             /\ Alone(job[r].name) => /\ Begins(job[r].sent, job[r].whole)
                                      /\ Begins(job[r].whole, content'[job[r].ino])
  <2>1. /\ Len(job[r].sent) <= Len(job[r].whole)
        /\ Alone(job[r].name) => /\ Begins(job[r].sent, job[r].whole)
                                 /\ Begins(job[r].whole, content[job[r].ino])
    BY <1>3 DEF DownloadInv, ReadFromStart
  <2>2. job[r].whole \in Data /\ job[r].ino \in Inode
    BY <1>3, CopyKnown
  <2>3. CASE job[r].ino = i /\ Alone(job[r].name)
    <3>1. off = Len(content[i]) /\ Begins(job[r].whole, content[i])
      BY <1>3, <2>1, <2>3
    <3>2. Begins(job[r].whole, Put(content[i], Len(content[i]), s))
      BY <1>2, <2>2, <3>1, BeginsAppended
    <3> QED
      BY <1>2, <2>1, <2>3, <3>1, <3>2
  <2>4. CASE job[r].ino # i
    BY <1>2, <2>1, <2>2, <2>4
  <2> QED
    BY <2>1, <2>3, <2>4
<1>4. \A n : Alone(n)' = Alone(n)
  BY DEF Alone
<1>5. ReadFromStart'
  BY <1>3, <1>4 DEF ReadFromStart
<1> QED
  BY <1>1, <1>5 DEF DownloadInv

\* A creation empties no file that is alone in its name.
LEMMA DownloadCreate ==
  ASSUME DownloadInv, TypeOK, NEW kind \in Kinds, NEW s \in Data, Create(kind, s),
         NEW n, n = Name(kind, now), NEW i, i = InodeFor(n),
         \A r \in Requests : /\ Reading(r)' = Reading(r) /\ (Reading(r) => job'[r] = job[r])
                             /\ Writing(r)' => \/ Writing(r) /\ job'[r] = job[r]
                                               \/ job'[r].name = n /\ job'[r].ino = i
  PROVE  DownloadInv'
<1>1. /\ n \in Names
      /\ DOMAIN dir' = DOMAIN dir \cup {n} /\ dir'[n] = i
      /\ \A m \in DOMAIN dir \ {n} : dir'[m] = dir[m]
      /\ i \in Inode => n \in DOMAIN dir /\ dir[n] = i
      /\ made'[n] = made[n] + 1
      /\ \A m \in Names \ {n} : made'[m] = made[m]
  BY CreateFacts DEF Create
<1>2. made \in [Names -> Nat] /\ content \in Seq(Data) /\ \A m \in DOMAIN dir : dir[m] \in Inode
  BY DEF TypeOK, FilesOK
<1>3. \A j \in Inode \ {i} : content'[j] = content[j]
  <2>1. CASE n \in DOMAIN dir
    <3>1. i \in Inode /\ content' = [content EXCEPT ![i] = s]
      BY <1>2, <2>1 DEF Create, InodeFor
    <3> QED
      BY <1>2, <3>1 DEF Inode
  <2>2. CASE n \notin DOMAIN dir
    <3>1. content' = Append(content, s)
      BY <2>2 DEF Create
    <3> QED
      BY <1>2, <3>1, AppendProperties DEF Inode
  <2> QED
    BY <2>1, <2>2
<1>4. ASSUME NEW r \in Requests, Reading(r)
      PROVE  /\ made'[job[r].name] > 0
             /\ job[r].ino = i => job[r].name = n
             /\ made'[job[r].name] = 1 => Alone(job[r].name) /\ content'[job[r].ino] = content[job[r].ino]
  <2>1. /\ made[job[r].name] > 0 /\ job[r].name \in Names
        /\ \A m \in DOMAIN dir : dir[m] = job[r].ino => m = job[r].name
    BY <1>4 DEF DownloadInv, ReadUnderName
  <2>2. job[r].ino \in Inode
    BY <1>4, JobKnown DEF Reading
  <2>3. job[r].ino = i => job[r].name = n
    BY <1>1, <2>1, <2>2
  <2>4. made'[job[r].name] > 0 /\ (made'[job[r].name] = 1 => Alone(job[r].name) /\ job[r].name # n)
    BY <1>1, <1>2, <2>1 DEF Alone
  <2> QED
    BY <1>3, <2>2, <2>3, <2>4
<1>5. ReadUnderName'
  <2> SUFFICES ASSUME NEW r \in Requests, Reading(r)'
               PROVE  /\ made'[job'[r].name] > 0 /\ job'[r].name \in Names
                      /\ \A m \in DOMAIN dir' : dir'[m] = job'[r].ino => m = job'[r].name
                      /\ \A q \in Requests : Writing(q)' /\ job'[q].ino = job'[r].ino
                                               => job'[q].name = job'[r].name
    BY DEF ReadUnderName
  <2>1. Reading(r) /\ job'[r] = job[r]
    OBVIOUS
  <2>2. /\ job[r].name \in Names
        /\ \A m \in DOMAIN dir : dir[m] = job[r].ino => m = job[r].name
        /\ \A q \in Requests : Writing(q) /\ job[q].ino = job[r].ino => job[q].name = job[r].name
    BY <2>1 DEF DownloadInv, ReadUnderName
  <2>3. \A m \in DOMAIN dir' : dir'[m] = job[r].ino => m = job[r].name
    BY <1>1, <1>4, <2>1, <2>2
  <2>4. \A q \in Requests : Writing(q)' /\ job'[q].ino = job[r].ino => job'[q].name = job[r].name
    BY <1>4, <2>1, <2>2
  <2> QED
    BY <1>4, <2>1, <2>2, <2>3, <2>4
<1>6. ReadFromStart'
  <2>1. \A r \in Requests : Copying(r) =>
          /\ Len(job[r].sent) <= Len(job[r].whole)
          /\ Alone(job[r].name) => /\ Begins(job[r].sent, job[r].whole)
                                   /\ Begins(job[r].whole, content[job[r].ino])
    BY DEF DownloadInv, ReadFromStart
  <2>2. \A m : Alone(m)' <=> made'[m] = 1
    BY DEF Alone
  <2>3. \A r \in Requests : Copying(r)' => Reading(r) /\ Copying(r) /\ job'[r] = job[r]
    BY DEF Reading, Copying
  <2> QED
    BY <1>4, <2>1, <2>2, <2>3 DEF ReadFromStart
<1> QED
  BY <1>5, <1>6 DEF DownloadInv

\* A download is opened, under its name.
LEMMA OpenKeeps ==
  ASSUME FilesInv, DownloadInv, NEW r \in Requests, NEW n \in DOMAIN dir, Open(r, n)
  PROVE  DownloadInv'
<1> DEFINE j == [Idle EXCEPT !.step = "stat", !.since = now, !.name = n, !.ino = dir[n]]
<1>1. /\ j.step = "stat" /\ j.name = n /\ j.ino = dir[n]
      /\ job' = [job EXCEPT ![r] = j]
      /\ UNCHANGED <<dir, content, made>>
  BY DEF Open, Idle, fileVars
<1> HIDE DEF j
<1>2. job \in [Requests -> JobType] /\ n \in Names
  BY DEF FilesInv, TypeOK, JobsOK, FilesOK
<1>3. job'[r] = j /\ \A q \in Requests \ {r} : job'[q] = job[q]
  BY <1>1, <1>2
<1>4. \A q \in Requests : /\ Writing(q)' => q # r /\ Writing(q) /\ job'[q] = job[q]
                          /\ Reading(q)' <=> q = r \/ Reading(q)
                          /\ Copying(q)' => q # r /\ Copying(q) /\ job'[q] = job[q]
  BY <1>1, <1>3 DEF Writing, Reading, Copying
<1>5. ReadUnderName'
  <2>1. /\ made[n] > 0
        /\ \A m \in DOMAIN dir : dir[m] = dir[n] => m = n
        /\ \A q \in Requests : Writing(q) /\ job[q].ino = dir[n] => job[q].name = n
    BY DEF FilesInv, Distinct, WasMade
  <2>2. \A p \in Requests \ {r} : Reading(p)' =>
          /\ made[job[p].name] > 0 /\ job[p].name \in Names
          /\ \A m \in DOMAIN dir : dir[m] = job[p].ino => m = job[p].name
          /\ \A q \in Requests : Writing(q) /\ job[q].ino = job[p].ino => job[q].name = job[p].name
    BY <1>4 DEF DownloadInv, ReadUnderName
  <2> QED
    BY <1>1, <1>2, <1>3, <1>4, <2>1, <2>2 DEF ReadUnderName
<1>6. ReadFromStart'
  <2>1. \A m : Alone(m)' = Alone(m)
    BY <1>1 DEF Alone
  <2> QED
    BY <1>1, <1>4, <2>1 DEF DownloadInv, ReadFromStart
<1> QED
  BY <1>5, <1>6 DEF DownloadInv

\* The length is declared: nothing is sent yet, and what is declared is what the file holds.
LEMMA StatKeeps ==
  ASSUME TypeOK, DownloadInv, NEW r \in Requests, Stat(r)
  PROVE  DownloadInv'
<1>1. /\ job[r].step = "stat" /\ job \in [Requests -> JobType] /\ UNCHANGED <<dir, content, made>>
      /\ job' = [job EXCEPT ![r].step = "copy", ![r].whole = content[job[r].ino]]
  BY DEF Stat, fileVars, TypeOK, JobsOK
<1>2. job[r].sent = <<>> /\ job[r].ino \in Inode
  BY <1>1, JobKnown
<1>3. /\ job'[r].step = "copy" /\ job'[r].name = job[r].name /\ job'[r].ino = job[r].ino
      /\ job'[r].sent = <<>> /\ job'[r].whole = content[job[r].ino]
      /\ \A q \in Requests \ {r} : job'[q] = job[q]
  BY <1>1, <1>2 DEF JobType, Jobs
<1>4. \A q \in Requests : /\ Writing(q)' = Writing(q) /\ Reading(q)' = Reading(q)
                          /\ job'[q].name = job[q].name /\ job'[q].ino = job[q].ino
                          /\ Copying(q)' => q = r \/ (Copying(q) /\ job'[q] = job[q])
  BY <1>1, <1>3 DEF Writing, Reading, Copying
<1>5. ReadUnderName'
  BY <1>1, <1>4 DEF DownloadInv, ReadUnderName
<1>6. ReadFromStart'
  <2>1. content[job[r].ino] \in Data
    BY <1>2 DEF TypeOK, FilesOK, Inode
  <2>2. Len(content[job[r].ino]) \in Nat
    BY <2>1 DEF Data
  <2>3. /\ Len(job'[r].sent) <= Len(job'[r].whole) /\ Begins(job'[r].sent, job'[r].whole)
        /\ Begins(job'[r].whole, content'[job'[r].ino])
    BY <1>1, <1>3, <2>2 DEF Begins
  <2>4. \A m : Alone(m)' = Alone(m)
    BY <1>1 DEF Alone
  <2> QED
    BY <1>1, <1>4, <2>3, <2>4 DEF DownloadInv, ReadFromStart
<1> QED
  BY <1>5, <1>6 DEF DownloadInv

\* One more chunk.
LEMMA CopyKeeps ==
  ASSUME TypeOK, DownloadInv, NEW r \in Requests, Copy(r)
  PROVE  DownloadInv'
<1> DEFINE c == content[job[r].ino]
           sent == job[r].sent
           whole == job[r].whole
           up == Upto(r)
           chunk == SubSeq(c, Len(sent) + 1, up)
<1>1. /\ Copying(r) /\ UNCHANGED <<dir, content, made>>
      /\ job' = [job EXCEPT ![r].sent = sent \o chunk]
      /\ Len(sent) < up /\ up <= Len(whole)
  BY DEF Copy, Copying, Fits, fileVars
<1>2. /\ c \in Data /\ sent \in Data /\ whole \in Data
      /\ Len(c) \in Nat /\ Len(sent) \in Nat /\ Len(whole) \in Nat
      /\ job \in [Requests -> JobType]
  BY <1>1, CopyKnown DEF TypeOK, JobsOK
<1>3. up \in Nat /\ up <= Len(c)
  BY <1>2, ExporterAssumption DEF Upto
<1>4. /\ \A q \in Requests \ {r} : job'[q] = job[q]
      /\ job'[r].step = "copy" /\ job'[r].name = job[r].name /\ job'[r].ino = job[r].ino
      /\ job'[r].whole = whole /\ job'[r].sent = sent \o chunk
  BY <1>1, <1>2 DEF Copying, JobType, Jobs
<1> HIDE DEF c, sent, whole, up
<1>5. /\ chunk \in Seq(Nat \cup {Hole, Torn}) /\ Len(chunk) = up - Len(sent)
      /\ \A i \in 1 .. up - Len(sent) : chunk[i] = c[Len(sent) + i]
  <2>1. c \in Seq(Nat \cup {Hole, Torn}) /\ Len(sent) + 1 \in 1..Len(c) + 1 /\ up \in Len(sent)..Len(c)
    BY <1>1, <1>2, <1>3 DEF Data
  <2>2. /\ chunk \in Seq(Nat \cup {Hole, Torn})
        /\ Len(chunk) = IF Len(sent) + 1 <= up THEN up - (Len(sent) + 1) + 1 ELSE 0
        /\ \A i \in 1 .. up - (Len(sent) + 1) + 1 : chunk[i] = c[Len(sent) + 1 + i - 1]
    BY <1>1, <1>2, <1>3, <2>1, SubSeqProperties
  <2> QED
    BY <1>1, <1>2, <1>3, <2>2
<1> HIDE DEF chunk
<1>6. /\ Len(sent \o chunk) = up
      /\ \A i \in 1..up : (sent \o chunk)[i] = IF i <= Len(sent) THEN sent[i] ELSE c[i]
  <2>1. /\ Len(sent \o chunk) = Len(sent) + Len(chunk)
        /\ \A i \in 1 .. Len(sent) + Len(chunk) :
             (sent \o chunk)[i] = IF i <= Len(sent) THEN sent[i] ELSE chunk[i - Len(sent)]
    BY <1>2, <1>5, ConcatProperties DEF Data
  <2> QED
    BY <1>1, <1>2, <1>3, <1>5, <2>1
<1>7. ReadUnderName'
  <2>1. \A q \in Requests : /\ Writing(q)' = Writing(q) /\ Reading(q)' = Reading(q)
                            /\ job'[q].name = job[q].name /\ job'[q].ino = job[q].ino
    BY <1>1, <1>4 DEF Writing, Copying, Reading
  <2> QED
    BY <1>1, <2>1 DEF DownloadInv, ReadUnderName
<1>8. ReadFromStart'
  <2>1. \A q \in Requests : Copying(q) =>
          /\ Len(job[q].sent) <= Len(job[q].whole)
          /\ Alone(job[q].name) => /\ Begins(job[q].sent, job[q].whole)
                                   /\ Begins(job[q].whole, content[job[q].ino])
    BY DEF DownloadInv, ReadFromStart
  <2>2. \A m : Alone(m)' = Alone(m)
    BY <1>1 DEF Alone
  <2>3. \A q \in Requests \ {r} : Copying(q)' => Copying(q)
    BY <1>4 DEF Copying
  <2>4. Alone(job[r].name) => Begins(sent, whole) /\ Begins(whole, c)
    BY <1>1, <2>1 DEF c, sent, whole
  <2>5. Begins(sent, whole) /\ Begins(whole, c) => Begins(sent \o chunk, whole)
    BY <1>1, <1>2, <1>3, <1>6 DEF Begins
  <2>6. /\ Len(job'[r].sent) <= Len(job'[r].whole)
        /\ made'[job'[r].name] = 1 => /\ Begins(job'[r].sent, job'[r].whole)
                                   /\ Begins(job'[r].whole, content'[job'[r].ino])
    BY <1>1, <1>4, <1>6, <2>4, <2>5 DEF c, Alone
  <2> QED
    BY <1>1, <1>4, <2>1, <2>2, <2>3, <2>6 DEF ReadFromStart, Alone
<1> QED
  BY <1>7, <1>8 DEF DownloadInv

\* Nothing is downloaded yet.
LEMMA DownloadInit == Init => DownloadInv
BY DEF Init, Idle, Copying, Reading, DownloadInv, ReadUnderName, ReadFromStart

\* Every step keeps what is known of the downloads under way.
LEMMA DownloadStep == FilesInv /\ DownloadInv /\ [Next]_vars => DownloadInv'
<1> SUFFICES ASSUME FilesInv, DownloadInv, [Next]_vars PROVE DownloadInv'
  OBVIOUS
<1> USE DEF fileVars
<1>0. TypeOK /\ Idle.step = "idle" /\ job \in [Requests -> JobType]
  BY DEF FilesInv, Idle, TypeOK, JobsOK
<1>1. ASSUME UNCHANGED <<dir, content, made>>,
             \A r \in Requests : job'[r].step \in {"write", "stat", "copy"} => job'[r] = job[r]
      PROVE  DownloadInv'
  BY <1>1, DownloadRelease
<1>2. ASSUME NEW r \in Requests, NEW j, job' = [job EXCEPT ![r] = j], j.step \notin {"write", "stat", "copy"},
             UNCHANGED <<dir, content, made>>
      PROVE  DownloadInv'
  BY <1>0, <1>1, <1>2
<1>3. CASE UNCHANGED vars \/ Tick \/ Insert \/ StopPCAP
  BY <1>1, <1>3 DEF vars, Tick, Insert, StopPCAP
<1>4. CASE StartPCAP
  <2>1. PICK s \in {<<0>>, <<>>} : Create("pcap", s) /\ UNCHANGED job
    BY <1>4 DEF StartPCAP
  <2>2. <<0>> \in Data /\ <<>> \in Data /\ "pcap" \in Kinds
    BY DEF Kinds, Data
  <2>3. \A r \in Requests : /\ Copying(r)' = Copying(r) /\ Reading(r)' = Reading(r)
                            /\ Writing(r)' = Writing(r) /\ job'[r] = job[r]
    BY <2>1 DEF Copying, Reading, Writing
  <2> QED
    BY <1>0, <2>1, <2>2, <2>3, DownloadCreate
<1>5. CASE ProcessEnds
  BY <1>0, <1>1, <1>5 DEF ProcessEnds
<1>6. ASSUME NEW p \in 1..stored, WritePacket(p) PROVE DownloadInv'
  <2>1. PICK i \in {p, Torn} :
          /\ rec.on /\ UNCHANGED <<dir, made, job>>
          /\ content' = [content EXCEPT ![rec.ino] = Put(@, rec.off, <<i>>)]
    BY <1>6 DEF WritePacket
  <2>2. rec.ino \in Inode /\ rec.off \in Nat /\ <<i>> \in Data /\ rec.off = Len(content[rec.ino])
    BY <1>0, <2>1, RecType, ExporterAssumption DEF TypeOK, CountersOK, Data, FilesInv, TapeKept
  <2>3. \A r \in Requests : /\ Copying(r)' = Copying(r) /\ Reading(r)' = Reading(r)
                            /\ Writing(r)' = Writing(r) /\ job'[r] = job[r]
    BY <2>1 DEF Copying, Reading, Writing
  <2> QED
    BY <1>0, <2>1, <2>2, <2>3, DownloadAppend
<1>7. ASSUME NEW n \in DOMAIN dir, DeleteFile(n) PROVE DownloadInv'
  BY <1>7, DownloadRelease DEF DeleteFile
<1>8. ASSUME NEW r \in Requests, NEW n \in DOMAIN dir, Open(r, n) PROVE DownloadInv'
  BY <1>8, OpenKeeps
<1>9. ASSUME NEW r \in Requests, NEW kind \in {"csv", "json"}, Query(r, kind) PROVE DownloadInv'
  BY <1>2, <1>9 DEF Query, Idle
<1>10. ASSUME NEW r \in Requests, CreateFile(r) PROVE DownloadInv'
  <2>1. /\ job[r].step = "create" /\ Create(job[r].kind, <<>>)
        /\ job' = [job EXCEPT ![r].step = "write", ![r].name = Name(job[r].kind, now),
                              ![r].ino = InodeFor(Name(job[r].kind, now))]
    BY <1>10 DEF CreateFile
  <2>2. job[r].kind \in Kinds /\ <<>> \in Data
    BY <1>0, <2>1, JobKnown DEF Kinds, Data
  <2>3. PICK n, i : n = Name(job[r].kind, now) /\ i = InodeFor(n)
    OBVIOUS
  <2>4. /\ \A q \in Requests \ {r} : job'[q] = job[q]
        /\ job'[r].step = "write" /\ job'[r].name = n /\ job'[r].ino = i
    BY <1>0, <2>1, <2>3 DEF JobType, Jobs
  <2>5. \A q \in Requests : /\ Reading(q)' = Reading(q) /\ (Reading(q) => job'[q] = job[q])
                            /\ Writing(q)' => \/ Writing(q) /\ job'[q] = job[q]
                                              \/ job'[q].name = n /\ job'[q].ino = i
    <3>1. ~Reading(r) /\ ~Reading(r)' /\ Reading(r) \in BOOLEAN /\ Reading(r)' \in BOOLEAN
      BY <2>1, <2>4 DEF Reading
    <3>2. \A q \in Requests \ {r} : Reading(q)' = Reading(q)
      BY <2>4 DEF Reading
    <3>3. \A q \in Requests : Writing(q)' => \/ Writing(q) /\ job'[q] = job[q]
                                             \/ job'[q].name = n /\ job'[q].ino = i
      BY <2>4 DEF Writing
    <3> QED
      BY <2>4, <3>1, <3>2, <3>3
  <2> QED
    BY <1>0, <2>1, <2>2, <2>3, <2>5, DownloadCreate
<1>11. ASSUME NEW r \in Requests, WriteOut(r) PROVE DownloadInv'
  <2> DEFINE s(n) == SubSeq(job[r].whole, Len(job[r].sent) + 1, n)
  <2>1. PICK n \in Len(job[r].sent) + 1..Len(job[r].whole) :
          /\ content' = [content EXCEPT ![job[r].ino] = Put(@, Len(job[r].sent), s(n))]
          /\ job' = [job EXCEPT ![r].sent = @ \o s(n)]
    BY <1>11 DEF WriteOut
  <2>2. /\ job[r].ino \in Inode /\ job[r].sent \in Data /\ job[r].whole \in Data
        /\ Writing(r) /\ UNCHANGED <<dir, made>>
    BY <1>0, <1>11, JobKnown DEF WriteOut, Writing
  <2>3. s(n) \in Data /\ Len(job[r].sent) \in Nat
    BY <2>2 DEF Data
  <2>4. /\ \A q \in Requests \ {r} : job'[q] = job[q]
        /\ job'[r].step = "write" /\ job'[r].name = job[r].name /\ job'[r].ino = job[r].ino
    BY <1>0, <2>1, <2>2 DEF Writing, JobType, Jobs
  <2>5. \A q \in Requests : /\ Copying(q)' = Copying(q) /\ Writing(q)' = Writing(q)
                            /\ Reading(q)' = Reading(q)
                            /\ job'[q].name = job[q].name /\ job'[q].ino = job[q].ino
                            /\ Copying(q) => job'[q] = job[q]
    BY <2>2, <2>4 DEF Copying, Reading, Writing
  <2>6. \A q \in Requests : Copying(q) /\ job[q].ino = job[r].ino /\ Alone(job[q].name)
                              => Len(job[r].sent) = Len(content[job[r].ino])
    BY <2>2 DEF DownloadInv, ReadUnderName, FilesInv, Linked, Copying, Reading
  <2> HIDE DEF s
  <2> QED
    BY <1>0, <2>1, <2>2, <2>3, <2>5, <2>6, DownloadAppend
<1>12. ASSUME NEW r \in Requests,
              Report(r) \/ FailExport(r) \/ StatFails(r) \/ EndCopy(r) \/ BreakOff(r) \/ GiveUp(r)
       PROVE  DownloadInv'
  <2>1. [Idle EXCEPT !.step = "broken"].step = "broken"
    BY DEF Idle
  <2> QED
    BY <1>0, <1>2, <1>12, <2>1 DEF Report, FailExport, StatFails, EndCopy, BreakOff, GiveUp
<1>13. ASSUME NEW r \in Requests, Stat(r) \/ Copy(r) PROVE DownloadInv'
  BY <1>0, <1>13, StatKeeps, CopyKeeps
<1> QED
  BY <1>3, <1>4, <1>5, <1>6, <1>7, <1>8, <1>9, <1>10, <1>11, <1>12, <1>13 DEF Next, Work

\* A download that ends by itself, of a file that is what it was declared to be, is complete.
LEMMA EndsComplete ==
  ASSUME TypeOK, DownloadInv, NEW r \in Requests, EndCopy(r), content[job[r].ino] = job[r].whole
  PROVE  Len(job[r].sent) = Len(job[r].whole)
<1>1. Copying(r) /\ ~Fits(r)
  BY DEF EndCopy, Copying
<1>2. Len(job[r].sent) \in Nat /\ Len(job[r].whole) \in Nat /\ Len(job[r].sent) <= Len(job[r].whole)
  BY <1>1, CopyKnown DEF DownloadInv, ReadFromStart
<1> QED
  BY <1>1, <1>2, ExporterAssumption DEF Fits, Upto

\* How a download ends.
LEMMA CopyEnds ==
  ASSUME TypeOK, [ServerNext]_serverVars, NEW r \in Requests, Copying(r), job'[r].step # "copy"
  PROVE  EndCopy(r) \/ job'[r].step = "broken" \/ phase' = "down"
<1> USE DEF vars, fileVars
<1>0. job[r].step = "copy" /\ job \in [Requests -> JobType]
  BY DEF Copying, TypeOK, JobsOK
<1>1. job' # job
  BY <1>0
<1>2. ASSUME NEW q \in Requests, NEW j, job' = [job EXCEPT ![q] = j], q # r PROVE FALSE
  BY <1>0, <1>2
<1>3. CASE Boot \/ Listen \/ Signal \/ Drained \/ Restart \/ Manage \/ Second
  BY <1>1, <1>3 DEF Boot, Listen, Signal, Drained, Restart, Manage, Second, Tick, StartPCAP, StopPCAP,
                    DeleteFile
<1>4. CASE Crash \/ Forced \/ Close
  BY <1>1, <1>4 DEF Crash, Forced, Close, Die
<1>5. ASSUME NEW f \in Feeds, Connect(f) \/ Push(f) \/ Record(f) \/ Beat(f) \/ Leave(f) \/ Return(f)
      PROVE  FALSE
  BY <1>1, <1>5 DEF Connect, Push, Record, Beat, Leave, Return, Insert, WritePacket
<1>6. ASSUME NEW q \in Requests, Accept(q) PROVE FALSE
  <2>1. job[q].step = "idle" /\ \E j : job' = [job EXCEPT ![q] = j]
    BY <1>6 DEF Accept, Query, Open
  <2> QED
    BY <1>0, <1>2, <2>1
<1>7. ASSUME NEW q \in Requests,
             \/ CreateFile(q) \/ WriteOut(q) \/ Report(q) \/ FailExport(q)
             \/ Stat(q) \/ StatFails(q) \/ GiveUp(q)
      PROVE  FALSE
  <2>1. job[q].step # "copy" /\ \E j : job' = [job EXCEPT ![q] = j]
    BY <1>7 DEF CreateFile, WriteOut, Report, FailExport, Stat, StatFails, GiveUp
  <2> QED
    BY <1>0, <1>2, <2>1
<1>8. ASSUME NEW q \in Requests, Copy(q) PROVE FALSE
  <2>1. job[q].step = "copy" /\ \E s : job' = [job EXCEPT ![q].sent = s]
    BY <1>8 DEF Copy
  <2>2. PICK s : job' = [job EXCEPT ![q].sent = s]
    BY <2>1
  <2>3. job'[q].step = "copy" /\ \A p \in Requests \ {q} : job'[p] = job[p]
    BY <1>0, <2>1, <2>2 DEF JobType, Jobs
  <2> QED
    BY <1>0, <2>3
<1>9. ASSUME NEW q \in Requests, EndCopy(q) PROVE EndCopy(r)
  BY <1>2, <1>9 DEF EndCopy
<1>10. ASSUME NEW q \in Requests, BreakOff(q) PROVE job'[r].step = "broken"
  <2>1. q = r
    BY <1>2, <1>10 DEF BreakOff
  <2>2. [Idle EXCEPT !.step = "broken"].step = "broken"
    BY DEF Idle
  <2> QED
    BY <1>0, <1>10, <2>1, <2>2 DEF BreakOff
<1> QED
  BY <1>1, <1>3, <1>4, <1>5, <1>6, <1>7, <1>8, <1>9, <1>10 DEF ServerNext, serverVars, Proceed, Work

\* What a download has sent when it ends, by whether the file was left alone.
LEMMA DownloadEnds ==
  FilesInv /\ DownloadInv /\ [ServerNext]_serverVars =>
    \A r \in Requests : job[r].step = "copy" /\ job'[r].step # "copy" =>
       /\ Alone(job[r].name)
            => job[r].sent = SubSeq(job[r].whole, 1, Len(job[r].sent))
       /\ \/ Len(job[r].sent) = Len(job[r].whole)
          \/ content[job[r].ino] # job[r].whole
          \/ job'[r].step = "broken"
          \/ phase' = "down"
<1> SUFFICES ASSUME FilesInv, DownloadInv, [ServerNext]_serverVars,
                    NEW r \in Requests, job[r].step = "copy", job'[r].step # "copy"
             PROVE  /\ Alone(job[r].name)
                         => job[r].sent = SubSeq(job[r].whole, 1, Len(job[r].sent))
                    /\ \/ Len(job[r].sent) = Len(job[r].whole)
                       \/ content[job[r].ino] # job[r].whole
                       \/ job'[r].step = "broken"
                       \/ phase' = "down"
  OBVIOUS
<1>1. TypeOK /\ Copying(r)
  BY DEF FilesInv, Copying
<1>2. EndCopy(r) \/ job'[r].step = "broken" \/ phase' = "down"
  BY <1>1, CopyEnds
<1>3. ASSUME Alone(job[r].name) PROVE job[r].sent = SubSeq(job[r].whole, 1, Len(job[r].sent))
  <2> DEFINE sent == job[r].sent
             whole == job[r].whole
  <2>1. Begins(sent, whole)
    BY <1>1, <1>3 DEF DownloadInv, ReadFromStart
  <2>2. /\ sent \in Seq(Nat \cup {Hole, Torn}) /\ whole \in Seq(Nat \cup {Hole, Torn})
        /\ Len(sent) \in Nat /\ Len(whole) \in Nat
    BY <1>1, CopyKnown DEF Data
  <2> HIDE DEF sent, whole
  <2>3. Len(sent) <= Len(whole) /\ \A i \in 1..Len(sent) : sent[i] = whole[i]
    BY <2>1 DEF Begins
  <2>4. /\ SubSeq(whole, 1, Len(sent)) \in Seq(Nat \cup {Hole, Torn})
        /\ Len(SubSeq(whole, 1, Len(sent))) = Len(sent)
        /\ \A i \in 1..Len(sent) : SubSeq(whole, 1, Len(sent))[i] = whole[i]
    BY <2>2, <2>3
  <2>5. sent = SubSeq(whole, 1, Len(sent))
    BY <2>2, <2>3, <2>4, SeqEqual
  <2> QED
    BY <2>5 DEF sent, whole
<1>4. EndCopy(r) /\ content[job[r].ino] = job[r].whole => Len(job[r].sent) = Len(job[r].whole)
  BY <1>1, EndsComplete
<1> QED
  BY <1>2, <1>3, <1>4

\* What a download has handed over begins the file whose length was declared, if the file
\* is alone in its second, and is all of it unless it was broken off, the file was written
\* beside it or the process ended.
THEOREM DownloadsAreSound == ServerSpec => DownloadSound
<1>1. Spec => [](FilesInv /\ DownloadInv)
  BY FilesInit, FilesStep, DownloadInit, DownloadStep, PTL DEF Spec
<1> QED
  BY <1>1, ServerExports, DownloadEnds, PTL DEF ServerSpec, DownloadSound
=============================================================================
