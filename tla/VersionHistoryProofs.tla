------------------------ MODULE VersionHistoryProofs ------------------------
\* However many writers extend the history of an object at once, and
\* wherever they die, the history is the journal VersionJournal specifies.
EXTENDS VersionHistory, TLAPS

RestoreKinds == {"restore", "restore delete"}

\* What a capture is about to record differs from what its writer read.
Differs(j) ==
    /\ j.seen \in Configs
    /\ j.latest > 0 => versions[j.latest].deleted \/ versions[j.latest].config # j.seen

\* A writer knows what it is doing, and that the version it read is there.
StepOK(j) ==
    /\ j.latest <= Len(versions)
    /\ j.kind \in RestoreKinds => versions # <<>>
    /\ j.pc = "fetch" => j.kind = "baseline" /\ j.latest > 0
    /\ j.pc \in {"load", "read"} => j.kind \in {"capture", "tombstone"} \union RestoreKinds
    /\ j.pc \in {"load", "read"} /\ j.kind \in {"capture", "restore"} => j.seen \in Configs

\* A writer about to insert: what it compared with is the version it numbers from.
InsertOK(j) ==
    j.pc = "insert" =>
        /\ j.kind # "none"
        /\ j.kind # "capture" => j.latest > 0
        /\ j.kind \in {"capture", "baseline"} => Differs(j)
        /\ j.kind = "restore" => j.seen \in Configs
        /\ j.kind = "tombstone" => ~versions[j.latest].deleted

JobOK(j) == StepOK(j) /\ InsertOK(j)
JobsOK == \A w \in Workers : JobOK(job[w])
Inv == TypeOK /\ JobsOK

Jobs == [pc : {"idle", "readback", "fetch", "load", "read", "insert", "end", "save"},
         kind : Kinds, audit : Nat, seen : Configs \union {Absent},
         copy : LogicalObject, latest : Nat, tries : 0 .. RecordAttempts - 1]

\* What every step but an insertion leaves.
OthersOK ==
    /\ mist \in Configs \union {Absent}
    /\ audits \in Seq({"update", "delete"})
    /\ todo \subseteq 1 .. Len(audits)
    /\ logical \in LogicalObject
    /\ incarnation \in {"none", "open", "ended"}

-----------------------------------------------------------------------------
LEMMA IdleOK ==
    ASSUME RecordAttempts \in Nat \ {0}, versions \in Seq(Version)
    PROVE  Idle \in Jobs /\ JobOK(Idle)
  BY DEF Idle, Jobs, Kinds, Unknown, LogicalObject, JobOK, StepOK, InsertOK, RestoreKinds

\* A worker takes a step that inserts nothing; the others stay where they are.
LEMMA Moves ==
    ASSUME Inv, OthersOK', UNCHANGED versions, NEW w \in Workers, NEW j \in Jobs,
           job' = [job EXCEPT ![w] = j], JobOK(j)
    PROVE  Inv'
<1>1. job' \in [Workers -> Jobs]
  BY DEF Inv, TypeOK, Jobs
<1>2. TypeOK'
  BY <1>1 DEF Inv, TypeOK, OthersOK, Jobs
<1>3. ASSUME NEW v \in Workers PROVE JobOK(job'[v])
  BY <1>3 DEF Inv, TypeOK, JobsOK
<1>4. JobsOK'
  BY <1>3 DEF JobsOK, JobOK, StepOK, InsertOK, Differs
<1>. QED BY <1>2, <1>4 DEF Inv

LEMMA Rests ==
    ASSUME Inv, OthersOK', UNCHANGED <<versions, job>>
    PROVE  Inv'
  BY DEF Inv, TypeOK, OthersOK, JobsOK, JobOK, StepOK, InsertOK, Differs

LEMMA Announced ==
    ASSUME Inv, NEW kind \in {"update", "delete"}, Announce(kind)
    PROVE  audits' \in Seq({"update", "delete"}) /\ todo' \subseteq 1 .. Len(audits')
<1>1. audits' = Append(audits, kind) /\ audits \in Seq({"update", "delete"})
  BY DEF Announce, Inv, TypeOK
<1>2. Len(audits') = Len(audits) + 1 /\ audits' \in Seq({"update", "delete"})
  BY <1>1
<1>3. todo' = todo \union {Len(audits) + 1} /\ todo \subseteq 1 .. Len(audits)
  BY DEF Announce, Inv, TypeOK
<1>4. Len(audits) \in Nat
  BY <1>1
<1>5. 1 .. Len(audits) \union {Len(audits) + 1} \subseteq 1 .. Len(audits) + 1
  BY <1>4
<1>. QED BY <1>2, <1>3, <1>5

-----------------------------------------------------------------------------
\* The object changes in Mist, by hand or by a restore.
LEMMA MistStep ==
    ASSUME Inv, RecordAttempts \in Nat \ {0}, NEW c \in Configs \union {Absent},
           Change(c) \/ \E w \in Workers : RestoreWrite(w, c)
    PROVE  Inv'
<1>. DEFINE kind == IF c = Absent THEN "delete" ELSE "update"
<1>1. mist' = c /\ Announce(kind) /\ UNCHANGED <<versions, logical, incarnation>>
  BY DEF Change, RestoreWrite
<1>2. kind \in {"update", "delete"}
  OBVIOUS
<1>. HIDE DEF kind
<1>3. OthersOK'
  BY <1>1, <1>2, Announced DEF OthersOK, Inv, TypeOK
<1>4. CASE UNCHANGED job
  BY <1>1, <1>3, <1>4, Rests
<1>5. CASE \E w \in Workers : RestoreWrite(w, c)
 <2>1. PICK w \in Workers : RestoreWrite(w, c)
   BY <1>5
 <2>. DEFINE j == [Idle EXCEPT !.pc = "readback",
                               !.kind = IF c = Absent THEN "restore delete" ELSE "restore"]
 <2>2. job' = [job EXCEPT ![w] = j] /\ versions # <<>>
   BY <2>1 DEF RestoreWrite, Set
 <2>3. j \in Jobs
   BY IdleOK DEF Inv, TypeOK, Jobs, Kinds
 <2>4. JobOK(j)
   BY <2>2 DEF Idle, JobOK, StepOK, InsertOK, RestoreKinds, Inv, TypeOK
 <2>. HIDE DEF j
 <2>. QED BY <1>1, <1>3, <2>2, <2>3, <2>4, Moves
<1>. QED BY <1>4, <1>5 DEF Change

\* A worker that is done, or gives up, or dies.
LEMMA Ends ==
    ASSUME Inv, RecordAttempts \in Nat \ {0}, OthersOK', UNCHANGED versions,
           NEW w \in Workers, Set(w, Idle)
    PROVE  Inv'
<1>1. Idle \in Jobs /\ JobOK(Idle)
  BY IdleOK DEF Inv, TypeOK
<1>. QED BY <1>1, Moves DEF Set

LEMMA FetchStep ==
    ASSUME Inv, RecordAttempts \in Nat \ {0}, NEW w \in Workers, NEW a, Fetch(w, a)
    PROVE  Inv'
<1>1. OthersOK' /\ UNCHANGED versions
  BY DEF Fetch, OthersOK, Inv, TypeOK
<1>2. CASE mist = Absent
  BY <1>1, <1>2, Rests DEF Fetch
<1>3. CASE mist # Absent
 <2>. DEFINE j == [Idle EXCEPT !.pc = "load", !.kind = "capture", !.audit = a, !.seen = mist]
 <2>1. a \in Nat /\ mist \in Configs
   BY <1>3 DEF Fetch, Inv, TypeOK
 <2>2. job' = [job EXCEPT ![w] = j]
   BY <1>3 DEF Fetch, Set
 <2>3. j \in Jobs
   BY <2>1, IdleOK DEF Inv, TypeOK, Jobs, Kinds
 <2>4. JobOK(j)
   BY <2>1 DEF Idle, JobOK, StepOK, InsertOK, RestoreKinds, Inv, TypeOK
 <2>. HIDE DEF j
 <2>. QED BY <1>1, <2>2, <2>3, <2>4, Moves
<1>. QED BY <1>2, <1>3

LEMMA FindDeletedStep ==
    ASSUME Inv, RecordAttempts \in Nat \ {0}, NEW w \in Workers, NEW a, FindDeleted(w, a)
    PROVE  Inv'
<1>1. OthersOK' /\ UNCHANGED versions
  BY DEF FindDeleted, OthersOK, Inv, TypeOK
<1>2. CASE UNCHANGED job
  BY <1>1, <1>2, Rests
<1>3. CASE logical.known /\ ~logical.deleted
 <2>. DEFINE j == [Idle EXCEPT !.pc = "read", !.kind = "tombstone", !.audit = a, !.copy = logical]
 <2>1. a \in Nat /\ logical \in LogicalObject
   BY DEF FindDeleted, Inv, TypeOK
 <2>2. job' = [job EXCEPT ![w] = j]
   BY <1>3 DEF FindDeleted, Set
 <2>3. j \in Jobs
   BY <2>1, IdleOK DEF Inv, TypeOK, Jobs, Kinds
 <2>4. JobOK(j)
   BY DEF Idle, JobOK, StepOK, InsertOK, RestoreKinds, Inv, TypeOK
 <2>. HIDE DEF j
 <2>. QED BY <1>1, <2>2, <2>3, <2>4, Moves
<1>. QED BY <1>2, <1>3 DEF FindDeleted

LEMMA BaselineStep ==
    ASSUME Inv, RecordAttempts \in Nat \ {0}, NEW w \in Workers,
           BeginBaseline(w) \/ FetchBaseline(w)
    PROVE  Inv'
<1>1. OthersOK' /\ UNCHANGED versions
  BY DEF BeginBaseline, FetchBaseline, Local, Set, stored, OthersOK, Inv, TypeOK
<1>2. CASE BeginBaseline(w)
 <2>. DEFINE j == [Idle EXCEPT !.pc = "fetch", !.kind = "baseline", !.copy = logical,
                               !.latest = Len(versions)]
 <2>1. logical \in LogicalObject /\ Len(versions) \in Nat /\ Len(versions) > 0
   BY <1>2 DEF BeginBaseline, Inv, TypeOK
 <2>2. job' = [job EXCEPT ![w] = j]
   BY <1>2 DEF BeginBaseline, Local, Set
 <2>3. j \in Jobs
   BY <2>1, IdleOK DEF Inv, TypeOK, Jobs, Kinds
 <2>4. JobOK(j)
   BY <2>1 DEF Idle, JobOK, StepOK, InsertOK, RestoreKinds
 <2>. HIDE DEF j
 <2>. QED BY <1>1, <2>2, <2>3, <2>4, Moves
<1>3. CASE FetchBaseline(w)
 <2>1. CASE Local(w, Idle)
   BY <1>1, <2>1, Ends DEF Local
 <2>2. CASE ~Local(w, Idle)
  <3>. DEFINE j == [job[w] EXCEPT !.pc = "insert", !.seen = mist]
  <3>1. /\ mist # Absent
        /\ versions[job[w].latest].deleted \/ versions[job[w].latest].config # mist
        /\ job' = [job EXCEPT ![w] = j]
    BY <1>3, <2>2 DEF FetchBaseline, Local, Set
  <3>2. job[w] \in Jobs /\ JobOK(job[w]) /\ job[w].pc = "fetch" /\ job[w].kind = "baseline"
    BY <1>3 DEF FetchBaseline, At, Inv, TypeOK, Jobs, JobsOK
  <3>3. mist \in Configs
    BY <3>1 DEF Inv, TypeOK
  <3>4. j \in Jobs
    BY <3>2, <3>3 DEF Jobs
  <3>5. JobOK(j)
    BY <3>1, <3>2, <3>3 DEF JobOK, StepOK, InsertOK, Differs, RestoreKinds, Jobs
  <3>. HIDE DEF j
  <3>. QED BY <1>1, <3>1, <3>4, <3>5, Moves
 <2>. QED BY <2>1, <2>2
<1>. QED BY <1>2, <1>3

LEMMA ReadBackStep ==
    ASSUME Inv, RecordAttempts \in Nat \ {0}, NEW w \in Workers, ReadBack(w)
    PROVE  Inv'
<1>1. OthersOK' /\ UNCHANGED versions
  BY DEF ReadBack, Local, Set, stored, OthersOK, Inv, TypeOK
<1>2. CASE Local(w, Idle)
  BY <1>1, <1>2, Ends DEF Local
<1>3. CASE ~Local(w, Idle)
 <2>. DEFINE j == [job[w] EXCEPT !.pc = "load", !.seen = mist]
 <2>1. /\ (mist = Absent) = (job[w].kind = "restore delete")
       /\ job' = [job EXCEPT ![w] = j]
   BY <1>3 DEF ReadBack, Local, Set
 <2>2. job[w] \in Jobs /\ JobOK(job[w]) /\ job[w].kind \in RestoreKinds
   BY DEF ReadBack, At, Inv, TypeOK, Jobs, JobsOK, RestoreKinds
 <2>3. mist \in Configs \union {Absent}
   BY DEF Inv, TypeOK
 <2>4. j \in Jobs
   BY <2>2, <2>3 DEF Jobs
 <2>5. JobOK(j)
   BY <2>1, <2>2, <2>3 DEF JobOK, StepOK, InsertOK, RestoreKinds, Jobs
 <2>. HIDE DEF j
 <2>. QED BY <1>1, <2>1, <2>4, <2>5, Moves
<1>. QED BY <1>2, <1>3

LEMMA LoadStep ==
    ASSUME Inv, NEW w \in Workers, Load(w)
    PROVE  Inv'
<1>1. logical' \in LogicalObject
  BY DEF Load, Inv, TypeOK, LogicalObject
<1>2. OthersOK' /\ UNCHANGED versions
  BY <1>1 DEF Load, Set, OthersOK, Inv, TypeOK
<1>3. PICK copy : copy = logical'
  OBVIOUS
<1>. DEFINE j == [job[w] EXCEPT !.pc = "read", !.copy = copy]
<1>4. job' = [job EXCEPT ![w] = j]
  BY <1>3 DEF Load, Set
<1>5. job[w] \in Jobs /\ JobOK(job[w]) /\ job[w].pc = "load"
  BY DEF Load, At, Inv, TypeOK, Jobs, JobsOK
<1>6. j \in Jobs
  BY <1>1, <1>3, <1>5 DEF Jobs
<1>7. JobOK(j)
  BY <1>5 DEF JobOK, StepOK, InsertOK, RestoreKinds, Jobs
<1>. HIDE DEF j
<1>. QED BY <1>2, <1>4, <1>6, <1>7, Moves

LEMMA ReadLatestStep ==
    ASSUME Inv, RecordAttempts \in Nat \ {0}, NEW w \in Workers, ReadLatest(w)
    PROVE  Inv'
<1>1. OthersOK' /\ UNCHANGED versions
  BY DEF ReadLatest, Done, OthersOK, Inv, TypeOK
<1>a. job[w] \in Jobs /\ JobOK(job[w]) /\ versions \in Seq(Version)
  BY DEF Inv, TypeOK, Jobs, JobsOK
<1>b. job[w].pc = "read"
  BY DEF ReadLatest, At
<1>2. /\ job[w] \in Jobs /\ JobOK(job[w]) /\ job[w].pc = "read"
      /\ versions \in Seq(Version) /\ Len(versions) \in Nat
  BY <1>a, <1>b
<1>3. CASE Set(w, Idle)
  BY <1>1, <1>3, Ends
<1>4. CASE ~Set(w, Idle)
 <2>1. PICK pc \in {"end", "insert"} :
          /\ job' = [job EXCEPT ![w] = [job[w] EXCEPT !.latest = Len(versions), !.pc = pc]]
          /\ pc = "end" => job[w].kind = "tombstone"
          /\ job[w].kind = "capture" => ~Unchanged(w)
          /\ job[w].kind = "tombstone" =>
                versions # <<>> /\ (pc = "insert" => ~Last(versions).deleted)
          /\ job[w].kind \in {"capture", "tombstone", "restore", "restore delete"}
   BY <1>4 DEF ReadLatest, Done, Set, At
 <2>. DEFINE j == [job[w] EXCEPT !.latest = Len(versions), !.pc = pc]
 <2>2. j \in Jobs
   BY <1>2 DEF Jobs
 <2>3. versions # <<>> => Len(versions) > 0
   BY <1>2
 <2>4. job[w].kind = "capture" => Differs(j)
   BY <1>2, <2>1 DEF Unchanged, Last, Differs, JobOK, StepOK, Jobs
 <2>5. JobOK(j)
  <3>1. StepOK(j)
   <4>1. /\ j.latest = Len(versions) /\ j.pc \in {"end", "insert"} /\ j.kind = job[w].kind
     BY <1>2 DEF Jobs
   <4>2. j.kind \in RestoreKinds => versions # <<>>
     BY <1>2, <4>1 DEF JobOK, StepOK
   <4>. HIDE DEF j
   <4>. QED BY <1>2, <4>1, <4>2 DEF StepOK
  <3>2. InsertOK(j)
    BY <1>2, <2>1, <2>3, <2>4 DEF JobOK, StepOK, InsertOK, RestoreKinds, Jobs, Last
  <3>. QED BY <3>1, <3>2 DEF JobOK
 <2>6. job' = [job EXCEPT ![w] = j]
   BY <2>1
 <2>. HIDE DEF j
 <2>. QED BY <1>1, <2>2, <2>5, <2>6, Moves
<1>. QED BY <1>3, <1>4

-----------------------------------------------------------------------------
\* The number is free: the version recorded is of its kind, and the step is the
\* journal's.
LEMMA Recorded ==
    ASSUME Inv, NEW w \in Workers, job[w].pc = "insert", ~Taken(w)
    PROVE  /\ job[w].latest = Len(versions)
           /\ NextVersion(w) \in Version
           /\ versions' = Append(versions, NextVersion(w)) => Journal!Next
<1>1. /\ job[w] \in Jobs /\ JobOK(job[w])
      /\ versions \in Seq(Version) /\ Len(versions) \in Nat
  BY DEF Inv, TypeOK, Jobs, JobsOK
<1>2. job[w].latest = Len(versions)
  BY <1>1 DEF Taken, JobOK, StepOK, Jobs
<1>3. job[w].latest = 0 <=> versions = <<>>
  BY <1>1, <1>2
<1>4. versions[job[w].latest] = Last(versions)
  BY <1>2 DEF Last
<1>5. job[w].latest > 0 => Last(versions) \in Version
  BY <1>1, <1>2, <1>4
<1>6. job[w].latest \in Nat
  BY <1>1 DEF Jobs
<1>a. /\ job[w].kind # "none"
      /\ job[w].kind # "capture" => job[w].latest > 0
      /\ job[w].kind \in {"capture", "baseline"} => Differs(job[w])
      /\ job[w].kind = "restore" => job[w].seen \in Configs
      /\ job[w].kind = "tombstone" => ~versions[job[w].latest].deleted
  BY <1>1 DEF JobOK, InsertOK
<1>7. CASE job[w].kind \in {"capture", "baseline"}
 <2>0. (job[w].kind \in {"tombstone", "restore delete"}) = FALSE
  <3>1. CASE job[w].kind = "capture"
    BY <3>1
  <3>2. CASE job[w].kind = "baseline"
    BY <3>2
  <3>. QED BY <1>7, <3>1, <3>2
 <2>1. NextVersion(w) = [config |-> job[w].seen, deleted |-> FALSE, event |-> Event(w)]
   BY <2>0 DEF NextVersion
 <2>. DEFINE first == job[w].latest = 0
             gone == versions[job[w].latest].deleted
 <2>e. Event(w) = CASE job[w].kind = "baseline" -> "updated"
                    [] OTHER -> IF first THEN IF job[w].audit = 0 THEN "initial" ELSE "created"
                                ELSE IF gone THEN "created" ELSE "updated"
   BY <1>7 DEF Event
 <2>f. job[w].kind = "baseline" => ~first
   BY <1>a, <1>6
 <2>2. /\ Event(w) \in {"initial", "created", "updated"}
       /\ Event(w) = "initial" => versions = <<>>
       /\ Event(w) = "created" => versions = <<>> \/ Last(versions).deleted
       /\ Event(w) = "updated" => versions # <<>>
   BY <1>3, <1>4, <1>7, <2>e, <2>f
 <2>3. /\ job[w].seen \in Configs
       /\ versions # <<>> => Last(versions).deleted \/ Last(versions).config # job[w].seen
   BY <1>1, <1>3, <1>4, <1>6, <1>7 DEF JobOK, InsertOK, Differs
 <2>4. NextVersion(w) \in Version
   BY <2>1, <2>2, <2>3 DEF Version
 <2>5. versions' = Append(versions, NextVersion(w)) => Journal!Capture(job[w].seen)
  <3>. DEFINE e == Event(w)
  <3>. HIDE DEF e
  <3>. QED BY <2>1, <2>2, <2>3, Zenon DEF Last, Journal!Capture, Journal!Last
 <2>. QED BY <1>2, <2>3, <2>4, <2>5 DEF Journal!Next
<1>8. CASE job[w].kind \in {"tombstone", "restore delete"}
 <2>0. job[w].kind # "capture"
   BY <1>8
 <2>1. job[w].latest > 0 /\ versions # <<>>
   BY <1>a, <1>3, <1>6, <2>0
 <2>2. NextVersion(w) = [config |-> Last(versions).config, deleted |-> TRUE, event |-> Event(w)]
   BY <1>4, <1>8 DEF NextVersion
 <2>3. Event(w) = IF job[w].kind = "tombstone" THEN "deleted" ELSE "restored"
   BY <1>8 DEF Event
 <2>4. NextVersion(w) \in Version
   BY <1>5, <2>1, <2>2, <2>3 DEF Version
 <2>5. job[w].kind = "tombstone" => ~Last(versions).deleted
   BY <1>1, <1>4 DEF JobOK, InsertOK
 <2>6. versions' = Append(versions, NextVersion(w)) => Journal!Delete \/ Journal!RestoreDelete
  <3>1. CASE job[w].kind = "tombstone"
    BY <2>1, <2>2, <2>3, <2>5, <3>1 DEF Last, Journal!Delete, Journal!Last
  <3>2. CASE job[w].kind = "restore delete"
    BY <2>1, <2>2, <2>3, <3>2 DEF Last, Journal!RestoreDelete, Journal!Last
  <3>. QED BY <1>8, <3>1, <3>2
 <2>. QED BY <1>2, <2>4, <2>6 DEF Journal!Next
<1>9. CASE job[w].kind = "restore"
 <2>1. job[w].latest > 0 /\ versions # <<>> /\ job[w].seen \in Configs
   BY <1>1, <1>3, <1>6, <1>9 DEF JobOK, InsertOK
 <2>2. NextVersion(w) = [config |-> job[w].seen, deleted |-> FALSE, event |-> "restored"]
  <3>1. (job[w].kind \in {"tombstone", "restore delete"}) = FALSE
    BY <1>9
  <3>2. Event(w) = "restored"
    BY <1>9 DEF Event
  <3>. QED BY <3>1, <3>2 DEF NextVersion
 <2>3. versions' = Append(versions, NextVersion(w)) => Journal!Restore(job[w].seen)
   BY <2>1, <2>2 DEF Journal!Restore
 <2>4. NextVersion(w) \in Version
   BY <2>1, <2>2 DEF Version
 <2>. QED BY <1>2, <2>1, <2>3, <2>4 DEF Journal!Next
<1>10. job[w].kind \in Kinds /\ job[w].kind # "none"
  BY <1>1 DEF JobOK, InsertOK, Jobs
<1>. QED BY <1>7, <1>8, <1>9, <1>10 DEF Kinds

\* What a writer knows of the versions it read stays true: versions are only
\* appended.
LEMMA Appended ==
    ASSUME Inv, NEW v \in Version, versions' = Append(versions, v), NEW j \in Jobs, JobOK(j)
    PROVE  JobOK(j)'
<1>1. versions \in Seq(Version)
  BY DEF Inv, TypeOK
<1>2. /\ Len(versions') = Len(versions) + 1 /\ versions' # <<>> /\ Len(versions) \in Nat
      /\ \A n \in 1 .. Len(versions) : versions'[n] = versions[n]
  BY <1>1
<1>3. j.latest \in Nat /\ j.latest <= Len(versions)
  BY DEF Jobs, JobOK, StepOK
<1>4. j.latest > 0 => versions'[j.latest] = versions[j.latest]
  BY <1>2, <1>3
<1>5. StepOK(j)'
  BY <1>2, <1>3 DEF JobOK, StepOK
<1>6. InsertOK(j)'
  BY <1>3, <1>4 DEF JobOK, InsertOK, Differs
<1>. QED BY <1>5, <1>6 DEF JobOK

LEMMA InsertStep ==
    ASSUME Inv, RecordAttempts \in Nat \ {0}, NEW w \in Workers, Insert(w)
    PROVE  Inv' /\ (Journal!Next \/ UNCHANGED versions)
<1>1. /\ job[w] \in Jobs /\ JobOK(job[w]) /\ job[w].pc = "insert"
      /\ versions \in Seq(Version) /\ Len(versions) \in Nat
  BY DEF Insert, Inv, TypeOK, Jobs, JobsOK
<1>2. OthersOK'
  BY DEF Insert, Fail, Set, OthersOK, Inv, TypeOK
<1>3. CASE ~Taken(w)
 <2>. DEFINE pc == IF job[w].kind = "tombstone" THEN "end" ELSE "save"
             j == [job[w] EXCEPT !.latest = @ + 1, !.pc = pc]
 <2>1. /\ versions' = Append(versions, NextVersion(w))
       /\ job' = [job EXCEPT ![w] = j]
   BY <1>3 DEF Insert, Set
 <2>2. /\ job[w].latest = Len(versions) /\ NextVersion(w) \in Version /\ Journal!Next
   BY <1>1, <1>3, <2>1, Recorded
 <2>3. /\ versions' \in Seq(Version) /\ Len(versions') = Len(versions) + 1 /\ versions' # <<>>
   BY <1>1, <2>1, <2>2
 <2>4. j \in Jobs
  <3>1. job[w].latest + 1 \in Nat
    BY <1>1 DEF Jobs
  <3>2. pc \in {"end", "save"}
    OBVIOUS
  <3>. HIDE DEF pc
  <3>. QED BY <1>1, <3>1, <3>2 DEF Jobs
 <2>5. j.latest = Len(versions') /\ j.pc \in {"end", "save"}
   BY <1>1, <2>2, <2>3 DEF Jobs
 <2>. HIDE DEF j
 <2>10. PICK k : k = j
   OBVIOUS
 <2>6. JobOK(k)'
   BY <2>3, <2>5, <2>10 DEF JobOK, StepOK, InsertOK
 <2>7. job' \in [Workers -> Jobs]
   BY <2>1, <2>4 DEF Inv, TypeOK, Jobs
 <2>8. TypeOK'
   BY <1>2, <2>3, <2>7 DEF TypeOK, OthersOK, Jobs
 <2>9. ASSUME NEW v \in Workers PROVE JobOK(job[v])'
  <3>1. CASE v = w
   <4>1. job'[v] = k
     BY <2>1, <2>10, <3>1 DEF Inv, TypeOK
   <4>. QED BY <2>6, <4>1 DEF JobOK, StepOK, InsertOK, Differs
  <3>2. CASE v # w
   <4>1. job'[v] = job[v] /\ job[v] \in Jobs /\ JobOK(job[v])
     BY <2>1, <3>2 DEF Inv, TypeOK, Jobs, JobsOK
   <4>2. PICK l \in Jobs : l = job[v]
     BY <4>1
   <4>3. JobOK(l)'
     BY <2>1, <2>2, <4>1, <4>2, Appended
   <4>. QED BY <4>1, <4>2, <4>3 DEF JobOK, StepOK, InsertOK, Differs
  <3>. QED BY <3>1, <3>2
 <2>. QED BY <2>2, <2>8, <2>9 DEF Inv, JobsOK
<1>4. CASE Taken(w)
 <2>1. UNCHANGED versions
   BY <1>4 DEF Insert
 <2>2. CASE Set(w, Idle)
   BY <1>2, <2>1, <2>2, Ends
 <2>3. CASE ~Set(w, Idle)
  <3>. DEFINE j == [job[w] EXCEPT !.pc = "read", !.tries = @ + 1]
  <3>1. /\ job' = [job EXCEPT ![w] = j]
        /\ job[w].kind # "baseline" /\ job[w].tries + 1 # RecordAttempts
    BY <1>4, <2>3 DEF Insert, Fail, Set
  <3>2. job[w].tries + 1 \in 0 .. RecordAttempts - 1
    BY <1>1, <3>1 DEF Jobs
  <3>3. j \in Jobs
    BY <1>1, <3>2 DEF Jobs
  <3>4. job[w].kind \in {"capture", "tombstone"} \union RestoreKinds
    BY <1>1, <3>1 DEF JobOK, InsertOK, Jobs, Kinds, RestoreKinds
  <3>5. JobOK(j)
    BY <1>1, <3>4 DEF JobOK, StepOK, InsertOK, Differs, RestoreKinds, Jobs
  <3>. HIDE DEF j
  <3>. QED BY <1>2, <2>1, <3>1, <3>3, <3>5, Moves
 <2>. QED BY <2>1, <2>2, <2>3
<1>. QED BY <1>3, <1>4

LEMMA SaveStep ==
    ASSUME Inv, RecordAttempts \in Nat \ {0}, NEW w \in Workers,
           EndIncarnation(w) \/ Save(w) \/ Crash(w)
    PROVE  Inv'
<1>1. job[w] \in Jobs /\ JobOK(job[w])
  BY DEF Inv, TypeOK, Jobs, JobsOK
<1>2. CASE EndIncarnation(w)
 <2>. DEFINE j == [job[w] EXCEPT !.pc = "save"]
 <2>1. job' = [job EXCEPT ![w] = j] /\ UNCHANGED versions
   BY <1>2 DEF EndIncarnation, Set
 <2>2. OthersOK'
   BY <1>2 DEF EndIncarnation, OthersOK, Inv, TypeOK
 <2>3. j \in Jobs /\ JobOK(j)
   BY <1>1 DEF Jobs, JobOK, StepOK, InsertOK
 <2>. HIDE DEF j
 <2>. QED BY <2>1, <2>2, <2>3, Moves
<1>3. CASE Save(w)
 <2>1. Summary(w) \in LogicalObject
   BY <1>1 DEF Summary, Larger, Jobs, LogicalObject, Inv, TypeOK
 <2>2. OthersOK' /\ UNCHANGED versions /\ Set(w, Idle)
   BY <1>3, <2>1 DEF Save, Done, OthersOK, Inv, TypeOK
 <2>. QED BY <2>2, Ends
<1>4. CASE Crash(w)
 <2>1. OthersOK' /\ UNCHANGED versions /\ Set(w, Idle)
   BY <1>4 DEF Crash, Local, stored, OthersOK, Inv, TypeOK
 <2>. QED BY <2>1, Ends
<1>. QED BY <1>2, <1>3, <1>4

-----------------------------------------------------------------------------
LEMMA InitOK ==
    ASSUME RecordAttempts \in Nat \ {0}, Init
    PROVE  Inv /\ Journal!Init
<1>1. versions \in Seq(Version)
  BY DEF Init
<1>2. TypeOK
  BY IdleOK, <1>1 DEF Init, TypeOK, Jobs, Unknown, LogicalObject
<1>3. JobsOK
  BY IdleOK, <1>1 DEF Init, JobsOK
<1>. QED BY <1>2, <1>3 DEF Inv, Init, Journal!Init

LEMMA StepKeeps ==
    ASSUME RecordAttempts \in Nat \ {0}, Inv, [Next]_vars
    PROVE  Inv' /\ (Journal!Next \/ UNCHANGED versions)
<1>1. ASSUME NEW c \in Configs \union {Absent},
             Change(c) \/ \E w \in Workers : RestoreWrite(w, c)
      PROVE  Inv' /\ UNCHANGED versions
  BY <1>1, MistStep DEF Change, RestoreWrite
<1>2. ASSUME NEW w \in Workers, NEW a \in 0 .. MaxChanges, Fetch(w, a) \/ FindDeleted(w, a)
      PROVE  Inv' /\ UNCHANGED versions
  BY <1>2, FetchStep, FindDeletedStep DEF Fetch, FindDeleted
<1>3. ASSUME NEW w \in Workers, BeginBaseline(w) \/ FetchBaseline(w)
      PROVE  Inv' /\ UNCHANGED versions
  BY <1>3, BaselineStep DEF BeginBaseline, FetchBaseline, Local, stored
<1>4. ASSUME NEW w \in Workers, ReadBack(w) \/ Load(w) \/ ReadLatest(w)
      PROVE  Inv' /\ UNCHANGED versions
  BY <1>4, ReadBackStep, LoadStep, ReadLatestStep DEF ReadBack, Load, ReadLatest, Local, stored
<1>5. ASSUME NEW w \in Workers, EndIncarnation(w) \/ Save(w) \/ Crash(w)
      PROVE  Inv' /\ UNCHANGED versions
  BY <1>5, SaveStep DEF EndIncarnation, Save, Crash, Local, stored
<1>6. CASE UNCHANGED vars
  BY <1>6 DEF vars, Inv, TypeOK, JobsOK, JobOK, StepOK, InsertOK, Differs
<1>. QED BY <1>1, <1>2, <1>3, <1>4, <1>5, <1>6, InsertStep DEF Next, Step

\* Whatever its writers do, and wherever they stop, every field of the history,
\* its summary and their locals has its type (AuditVersioningService,
\* SnapshotService, RestoreBaselineService).
THEOREM HistoryTypeCorrect ==
    ASSUME RecordAttempts \in Nat \ {0}
    PROVE  Spec => []TypeOK
<1>1. Init => Inv
  BY InitOK
<1>2. Inv /\ [Next]_vars => Inv'
  BY StepKeeps
<1>3. Inv => TypeOK
  BY DEF Inv
<1>. QED BY <1>1, <1>2, <1>3, PTL DEF Spec

\* The history of an object is the journal of VersionJournal: versions are only
\* appended, a capture differs from the version before it, a deletion is recorded
\* once, over what it deleted (record_version, `_tombstone`, the unique index).
THEOREM HistoryIsAJournal ==
    ASSUME RecordAttempts \in Nat \ {0}
    PROVE  Spec => JournalSpec
<1>1. Init => Inv /\ Journal!Init
  BY InitOK
<1>2. Inv /\ [Next]_vars => Inv' /\ [Journal!Next]_versions
  BY StepKeeps
<1>. QED BY <1>1, <1>2, PTL DEF Spec, JournalSpec, Journal!Spec

-----------------------------------------------------------------------------
\* One writer at a time, which may die between any two of its steps.
Alone == \A v, w \in Workers : v = w

Gone == versions # <<>> /\ Last(versions).deleted
Current ==
    IF mist = Absent THEN Last(versions).deleted
    ELSE ~Last(versions).deleted /\ Last(versions).config = mist

\* Among these receipts there is one that will tell what Mist holds now.
Owed(receipts) == \E a \in receipts : mist = Absent => audits[a] = "delete"

Looked == {"capture", "restore", "baseline"}

\* A history that is behind Mist, or a summary that misses a deletion, has a
\* receipt to come; a summary that reads deleted has missed nothing.
HistoryOK ==
    /\ \A a \in DOMAIN audits : audits[a] = "delete" => mist = Absent
    /\ Gone => mist = Absent
    /\ versions # <<>> => logical.known /\ (Current \/ Owed(todo))
    /\ logical.version <= Len(versions)
    /\ logical.deleted => Gone /\ logical.version = Len(versions)
    /\ Gone /\ ~logical.deleted => Owed(todo)

\* What a writer saw is what Mist holds, or another receipt will tell.
LookOK(j) ==
    j.kind \in Looked =>
        /\ j.pc \in {"load", "read", "insert"} => j.seen = mist \/ Owed(todo \ {j.audit})
        /\ j.pc \in {"end", "save"} => Current \/ Owed(todo \ {j.audit})

DeleteOK(j) ==
    /\ j.kind = "restore delete" => mist = Absent /\ Owed(todo)
    /\ j.kind = "tombstone" => mist = Absent /\ j.audit \in todo /\ audits[j.audit] = "delete"

\* Where the writer stands to the newest version.
PlaceOK(j) ==
    /\ j.kind # "none" /\ j.kind # "tombstone" /\ j.pc \in {"readback", "load", "read", "insert"} => ~Gone
    /\ j.pc \in {"end", "save"} =>
          /\ j.latest = Len(versions) /\ versions # <<>>
          /\ Gone <=> j.kind \in {"tombstone", "restore delete"}

WriterOK(j) ==
    /\ j.kind = "none" <=> j.pc = "idle"
    /\ j.audit <= Len(audits)
    /\ j.copy.version <= Len(versions)
    /\ j.kind \in {"restore", "restore delete", "baseline"} => j.audit = 0
    /\ j.pc \in {"read", "insert"} => logical.known
    /\ LookOK(j) /\ DeleteOK(j) /\ PlaceOK(j)

WritersOK == \A w \in Workers : WriterOK(job[w])
FollowInv == Inv /\ HistoryOK /\ WritersOK

LEMMA Facts ==
    ASSUME FollowInv, NEW w \in Workers
    PROVE  /\ job[w] \in Jobs /\ JobOK(job[w]) /\ WriterOK(job[w])
           /\ versions \in Seq(Version) /\ Len(versions) \in Nat
           /\ versions # <<>> <=> Len(versions) > 0
           /\ audits \in Seq({"update", "delete"}) /\ Len(audits) \in Nat
           /\ todo \subseteq 1 .. Len(audits)
           /\ logical \in LogicalObject
           /\ mist \in Configs \union {Absent}
<1>1. /\ job[w] \in Jobs /\ JobOK(job[w]) /\ WriterOK(job[w])
  BY DEF FollowInv, WritersOK, Inv, TypeOK, Jobs, JobsOK
<1>2. /\ versions \in Seq(Version) /\ audits \in Seq({"update", "delete"})
      /\ todo \subseteq 1 .. Len(audits)
      /\ logical \in LogicalObject /\ mist \in Configs \union {Absent}
  BY DEF FollowInv, Inv, TypeOK
<1>. QED BY <1>1, <1>2

\* Nobody else moves.
LEMMA Moved ==
    ASSUME Alone, FollowInv, Inv', HistoryOK', NEW w \in Workers, NEW j,
           job' = [job EXCEPT ![w] = j], WriterOK(j)'
    PROVE  FollowInv'
<1>1. job'[w] = j
  BY DEF FollowInv, Inv, TypeOK
<1>2. ASSUME NEW v \in Workers PROVE WriterOK(job[v])'
 <2>1. job'[v] = j
   BY <1>1 DEF Alone
 <2>. QED BY <2>1 DEF WriterOK, LookOK, DeleteOK, PlaceOK
<1>. QED BY <1>2 DEF FollowInv, WritersOK

LEMMA IdleFollows ==
    ASSUME FollowInv
    PROVE  WriterOK(Idle)
<1>1. Len(audits) \in Nat /\ Len(versions) \in Nat
  BY DEF FollowInv, Inv, TypeOK
<1>. QED BY <1>1 DEF Idle, Unknown, WriterOK, LookOK, DeleteOK, PlaceOK, Looked

LEMMA Finished ==
    ASSUME Alone, FollowInv, Inv', HistoryOK', NEW w \in Workers, Set(w, Idle)
    PROVE  FollowInv'
<1>1. (Len(audits) \in Nat /\ Len(versions) \in Nat)'
  BY DEF Inv, TypeOK
<1>2. WriterOK(Idle)'
  BY <1>1 DEF Idle, Unknown, WriterOK, LookOK, DeleteOK, PlaceOK, Looked
<1>. QED BY <1>2, Moved DEF Set

\* A change in Mist is announced, and no writer has processed the audit yet.
LEMMA Tells ==
    ASSUME FollowInv, NEW c \in Configs \union {Absent}, mist # Absent, mist' = c,
           Announce(IF c = Absent THEN "delete" ELSE "update"),
           UNCHANGED <<versions, logical>>
    PROVE  /\ Len(audits') = Len(audits) + 1
           /\ \A n \in 0 .. Len(audits) : Owed(todo \ {n})'
           /\ HistoryOK'
<1>. DEFINE kind == IF c = Absent THEN "delete" ELSE "update"
            new == Len(audits) + 1
<1>1. /\ audits \in Seq({"update", "delete"}) /\ Len(audits) \in Nat
      /\ todo \subseteq 1 .. Len(audits)
  BY DEF FollowInv, Inv, TypeOK
<1>2. audits' = Append(audits, kind) /\ todo' = todo \union {new} /\ kind \in {"update", "delete"}
  BY DEF Announce
<1>3. kind = "delete" <=> c = Absent
  OBVIOUS
<1>. HIDE DEF kind
<1>4. /\ Len(audits') = new /\ audits'[new] = kind /\ DOMAIN audits' = 1 .. new
      /\ \A a \in 1 .. Len(audits) : audits'[a] = audits[a]
      /\ DOMAIN audits = 1 .. Len(audits)
  BY <1>1, <1>2
<1>5. ASSUME NEW n \in 0 .. Len(audits) PROVE Owed(todo \ {n})'
 <2>1. new \in todo' \ {n} /\ (mist' = Absent => audits'[new] = "delete")
   BY <1>1, <1>2, <1>3, <1>4
 <2>. QED BY <2>1 DEF Owed
<1>6. Owed(todo)'
 <2>1. new \in todo' /\ (mist' = Absent => audits'[new] = "delete")
   BY <1>2, <1>3, <1>4
 <2>. QED BY <2>1 DEF Owed
<1>7. \A a \in DOMAIN audits' : audits'[a] = "delete" => mist' = Absent
 <2>. SUFFICES ASSUME NEW a \in DOMAIN audits', audits'[a] = "delete", c # Absent
               PROVE  FALSE
   OBVIOUS
 <2>1. a # new
   BY <1>3, <1>4
 <2>2. a \in DOMAIN audits /\ audits[a] = "delete"
   BY <1>1, <1>4, <2>1
 <2>. QED BY <2>2 DEF FollowInv, HistoryOK
<1>8. ~Gone /\ UNCHANGED Gone
  BY DEF FollowInv, HistoryOK, Gone
<1>9. HistoryOK'
  BY <1>6, <1>7, <1>8 DEF FollowInv, HistoryOK
<1>. QED BY <1>4, <1>5, <1>9

LEMMA ChangeFollows ==
    ASSUME FollowInv, Inv', NEW c \in Configs \union {Absent}, Change(c)
    PROVE  FollowInv'
<1>1. /\ mist # Absent /\ mist' = c /\ UNCHANGED <<versions, logical, job>>
      /\ Announce(IF c = Absent THEN "delete" ELSE "update")
  BY DEF Change
<1>2. /\ Len(audits') = Len(audits) + 1
      /\ \A n \in 0 .. Len(audits) : Owed(todo \ {n})'
      /\ HistoryOK'
  BY <1>1, Tells
<1>3. ASSUME NEW v \in Workers PROVE WriterOK(job[v])'
 <2>1. /\ job[v] \in Jobs /\ WriterOK(job[v]) /\ Len(audits) \in Nat
   BY Facts
 <2>2. PICK j : j = job[v] /\ j = job'[v]
   BY <1>1
 <2>3. j.audit \in 0 .. Len(audits)
  <3>1. job[v].audit \in Nat
    BY <2>1 DEF Jobs
  <3>2. job[v].audit <= Len(audits)
    BY <2>1 DEF WriterOK
  <3>. QED BY <2>1, <2>2, <3>1, <3>2
 <2>4. Owed(todo \ {j.audit})'
   BY <1>2, <2>3
 <2>5. j.kind \notin {"tombstone", "restore delete"}
   BY <1>1, <2>1, <2>2 DEF WriterOK, DeleteOK
 <2>6. WriterOK(j)'
  <3>1. LookOK(j)' /\ DeleteOK(j)'
    BY <2>4, <2>5 DEF LookOK, DeleteOK
  <3>2. PlaceOK(j)'
    BY <1>1, <2>1, <2>2 DEF WriterOK, PlaceOK, Gone
  <3>3. j.audit <= Len(audits')
    BY <1>2, <2>1, <2>3
  <3>. QED BY <1>1, <2>1, <2>2, <3>1, <3>2, <3>3 DEF WriterOK
 <2>. QED BY <2>2, <2>6 DEF WriterOK, LookOK, DeleteOK, PlaceOK
<1>. QED BY <1>2, <1>3 DEF FollowInv, WritersOK

LEMMA RestoreWriteFollows ==
    ASSUME Alone, FollowInv, Inv', NEW w \in Workers, NEW c \in Configs \union {Absent},
           RestoreWrite(w, c)
    PROVE  FollowInv'
<1>. DEFINE kind == IF c = Absent THEN "restore delete" ELSE "restore"
            j == [Idle EXCEPT !.pc = "readback", !.kind = kind]
<1>1. /\ mist # Absent /\ mist' = c /\ UNCHANGED <<versions, logical>>
      /\ Announce(IF c = Absent THEN "delete" ELSE "update")
      /\ job' = [job EXCEPT ![w] = j]
  BY DEF RestoreWrite, Set
<1>2. /\ Len(audits') = Len(audits) + 1 /\ HistoryOK'
      /\ \A n \in 0 .. Len(audits) : Owed(todo \ {n})'
  BY <1>1, Tells
<1>3. Len(audits) \in Nat /\ Len(versions) \in Nat
  BY Facts
<1>4. Owed(todo)'
 <2>1. Owed(todo \ {0})'
   BY <1>2, <1>3
 <2>. QED BY <2>1 DEF Owed
<1>5. ~Gone'
  BY <1>1 DEF FollowInv, HistoryOK, Gone
<1>6. /\ j.pc = "readback" /\ j.audit = 0 /\ j.copy.version = 0
      /\ j.kind \in {"restore", "restore delete"}
      /\ j.kind = "restore delete" => mist' = Absent
  BY <1>1 DEF Idle, Unknown
<1>7. PICK k : k = j
  OBVIOUS
<1>. HIDE DEF j
<1>8. WriterOK(k)'
 <2>1. LookOK(k)'
   BY <1>6, <1>7 DEF LookOK
 <2>2. DeleteOK(k)'
   BY <1>4, <1>6, <1>7 DEF DeleteOK
 <2>3. PlaceOK(k)'
   BY <1>5, <1>6, <1>7 DEF PlaceOK
 <2>4. k.audit <= Len(audits') /\ k.copy.version <= Len(versions')
  <3>1. Len(versions') = Len(versions)
    BY <1>1
  <3>2. k.audit = 0 /\ k.copy.version = 0
    BY <1>6, <1>7
  <3>. QED BY <1>2, <1>3, <3>1, <3>2
 <2>. QED BY <1>6, <1>7, <2>1, <2>2, <2>3, <2>4 DEF WriterOK
<1>. QED BY <1>1, <1>2, <1>7, <1>8, Moved

-----------------------------------------------------------------------------
\* A step of the writer alone.
LEMMA Privately ==
    ASSUME Alone, FollowInv, Inv', NEW w \in Workers, NEW j,
           UNCHANGED <<mist, audits, todo, versions, logical>>,
           job' = [job EXCEPT ![w] = j], WriterOK(j)
    PROVE  FollowInv'
<1>1. HistoryOK'
  BY DEF FollowInv, HistoryOK, Gone, Current, Owed
<1>2. WriterOK(j)'
  BY DEF WriterOK, LookOK, DeleteOK, PlaceOK, Gone, Current, Owed
<1>. QED BY <1>1, <1>2, Moved

LEMMA FetchFollows ==
    ASSUME Alone, FollowInv, Inv', NEW w \in Workers, NEW a, Fetch(w, a)
    PROVE  FollowInv'
<1>0. /\ versions \in Seq(Version) /\ Len(versions) \in Nat /\ Len(audits) \in Nat
      /\ todo \subseteq 1 .. Len(audits)
  BY Facts
<1>1. CASE mist = Absent
 <2>1. /\ job[w] = Idle /\ todo' = todo \ {a} /\ UNCHANGED <<mist, audits, versions, logical, job>>
       /\ a \notin todo \/ audits[a] = "update"
   BY <1>0, <1>1 DEF Fetch
 <2>2. Owed(todo) => Owed(todo)'
  <3>. SUFFICES ASSUME Owed(todo) PROVE Owed(todo)'
    OBVIOUS
  <3>1. PICK b \in todo : audits[b] = "delete"
    BY <1>1 DEF Owed
  <3>2. b \in todo' /\ audits'[b] = "delete"
    BY <2>1, <3>1
  <3>. QED BY <3>2 DEF Owed
 <2>3. HistoryOK'
   BY <2>1, <2>2 DEF FollowInv, HistoryOK, Gone, Current
 <2>4. Set(w, Idle)
   BY <2>1 DEF Set, FollowInv, Inv, TypeOK
 <2>. QED BY <2>3, <2>4, Finished
<1>2. CASE mist # Absent
 <2>. DEFINE j == [Idle EXCEPT !.pc = "load", !.kind = "capture", !.audit = a, !.seen = mist]
 <2>1. /\ UNCHANGED <<mist, audits, todo, versions, logical>>
       /\ job' = [job EXCEPT ![w] = j]
       /\ a = 0 \/ a \in todo
   BY <1>2 DEF Fetch, Set
 <2>2. j.pc = "load" /\ j.kind = "capture" /\ j.audit = a /\ j.seen = mist /\ j.copy.version = 0
   BY DEF Idle, Unknown
 <2>3. ~Gone /\ a <= Len(audits)
   BY <1>0, <1>2, <2>1 DEF FollowInv, HistoryOK
 <2>. HIDE DEF j
 <2>4. WriterOK(j)
   BY <1>0, <2>2, <2>3 DEF WriterOK, LookOK, DeleteOK, PlaceOK
 <2>. QED BY <2>1, <2>4, Privately
<1>. QED BY <1>1, <1>2

LEMMA FindDeletedFollows ==
    ASSUME Alone, FollowInv, Inv', NEW w \in Workers, NEW a, FindDeleted(w, a)
    PROVE  FollowInv'
<1>0. /\ versions \in Seq(Version) /\ Len(versions) \in Nat /\ Len(audits) \in Nat
      /\ todo \subseteq 1 .. Len(audits) /\ audits \in Seq({"update", "delete"})
      /\ logical \in LogicalObject
  BY Facts
<1>1. a \in todo /\ audits[a] = "delete" /\ a \in DOMAIN audits
  BY <1>0 DEF FindDeleted
<1>2. mist = Absent
  BY <1>1 DEF FollowInv, HistoryOK
<1>3. CASE ~(logical.known /\ ~logical.deleted)
 <2>1. /\ job[w] = Idle /\ UNCHANGED <<mist, audits, versions, logical, job>>
   BY <1>3 DEF FindDeleted
 <2>2. versions # <<>> => logical.deleted /\ Gone
   BY <1>3 DEF FollowInv, HistoryOK
 <2>3. versions # <<>> => Current
   BY <1>2, <2>2 DEF Current, Gone
 <2>4. HistoryOK'
   BY <2>1, <2>2, <2>3 DEF FollowInv, HistoryOK, Gone, Current
 <2>5. Set(w, Idle)
   BY <2>1 DEF Set, FollowInv, Inv, TypeOK
 <2>. QED BY <2>4, <2>5, Finished
<1>4. CASE logical.known /\ ~logical.deleted
 <2>. DEFINE j == [Idle EXCEPT !.pc = "read", !.kind = "tombstone", !.audit = a, !.copy = logical]
 <2>1. /\ UNCHANGED <<mist, audits, todo, versions, logical>>
       /\ job' = [job EXCEPT ![w] = j]
   BY <1>4 DEF FindDeleted, Set
 <2>2. j.pc = "read" /\ j.kind = "tombstone" /\ j.audit = a /\ j.copy = logical
   BY DEF Idle
 <2>3. a <= Len(audits) /\ logical.version <= Len(versions)
   BY <1>0, <1>1 DEF FollowInv, HistoryOK
 <2>. HIDE DEF j
 <2>4. WriterOK(j)
   BY <1>1, <1>2, <1>4, <2>2, <2>3 DEF WriterOK, LookOK, DeleteOK, PlaceOK, Looked
 <2>. QED BY <2>1, <2>4, Privately
<1>. QED BY <1>3, <1>4

LEMMA BaselineFollows ==
    ASSUME Alone, FollowInv, Inv', NEW w \in Workers, BeginBaseline(w) \/ FetchBaseline(w)
    PROVE  FollowInv'
<1>0. /\ job[w] \in Jobs /\ JobOK(job[w]) /\ WriterOK(job[w])
      /\ Len(versions) \in Nat /\ Len(audits) \in Nat
      /\ versions # <<>> <=> Len(versions) > 0
      /\ logical \in LogicalObject
  BY Facts
<1>1. UNCHANGED <<mist, audits, todo, versions, logical>>
  BY DEF BeginBaseline, FetchBaseline, Local, stored
<1>2. CASE BeginBaseline(w)
 <2>. DEFINE j == [Idle EXCEPT !.pc = "fetch", !.kind = "baseline", !.copy = logical,
                               !.latest = Len(versions)]
 <2>1. job' = [job EXCEPT ![w] = j]
   BY <1>2 DEF BeginBaseline, Local, Set
 <2>2. j.pc = "fetch" /\ j.kind = "baseline" /\ j.audit = 0 /\ j.copy = logical
   BY DEF Idle
 <2>3. logical.version <= Len(versions)
   BY DEF FollowInv, HistoryOK
 <2>. HIDE DEF j
 <2>4. WriterOK(j)
  <3>1. LookOK(j) /\ DeleteOK(j) /\ PlaceOK(j)
    BY <2>2 DEF LookOK, DeleteOK, PlaceOK
  <3>2. j.audit <= Len(audits) /\ j.copy.version <= Len(versions)
    BY <1>0, <2>2, <2>3
  <3>. QED BY <2>2, <3>1, <3>2 DEF WriterOK
 <2>. QED BY <1>1, <2>1, <2>4, Privately
<1>3. CASE FetchBaseline(w)
 <2>1. CASE Local(w, Idle)
   BY <1>1, <2>1, IdleFollows, Privately DEF Local, Set
 <2>2. CASE ~Local(w, Idle)
  <3>. DEFINE j == [job[w] EXCEPT !.pc = "insert", !.seen = mist]
  <3>1. /\ mist # Absent /\ job[w].kind = "baseline" /\ job[w].pc = "fetch"
        /\ job' = [job EXCEPT ![w] = j]
    BY <1>3, <2>2 DEF FetchBaseline, Local, Set, At
  <3>2. /\ j.pc = "insert" /\ j.kind = "baseline" /\ j.seen = mist
        /\ j.audit = job[w].audit /\ j.copy = job[w].copy
    BY <1>0, <3>1 DEF Jobs
  <3>3. versions # <<>>
    BY <1>0, <3>1 DEF JobOK, StepOK, Jobs
  <3>4. ~Gone /\ logical.known
    BY <3>1, <3>3 DEF FollowInv, HistoryOK
  <3>. HIDE DEF j
  <3>5. WriterOK(j)
    BY <1>0, <3>1, <3>2, <3>4 DEF WriterOK, LookOK, DeleteOK, PlaceOK
  <3>. QED BY <1>1, <3>1, <3>5, Privately
 <2>. QED BY <2>1, <2>2
<1>. QED BY <1>2, <1>3

LEMMA ReadBackFollows ==
    ASSUME Alone, FollowInv, Inv', NEW w \in Workers, ReadBack(w)
    PROVE  FollowInv'
<1>0. job[w] \in Jobs /\ WriterOK(job[w])
  BY Facts
<1>1. /\ UNCHANGED <<mist, audits, todo, versions, logical>>
      /\ job[w].pc = "readback" /\ job[w].kind \in RestoreKinds
  BY DEF ReadBack, Local, stored, At, RestoreKinds
<1>2. CASE Local(w, Idle)
  BY <1>1, <1>2, IdleFollows, Privately DEF Local, Set
<1>3. CASE ~Local(w, Idle)
 <2>. DEFINE j == [job[w] EXCEPT !.pc = "load", !.seen = mist]
 <2>1. job' = [job EXCEPT ![w] = j]
   BY <1>3 DEF ReadBack, Local, Set
 <2>2. /\ j.pc = "load" /\ j.seen = mist /\ j.kind = job[w].kind
       /\ j.audit = job[w].audit /\ j.copy = job[w].copy
   BY <1>0 DEF Jobs
 <2>. HIDE DEF j
 <2>3. WriterOK(j)
   BY <1>0, <1>1, <2>2 DEF WriterOK, LookOK, DeleteOK, PlaceOK, RestoreKinds
 <2>. QED BY <1>1, <2>1, <2>3, Privately
<1>. QED BY <1>2, <1>3

LEMMA LoadFollows ==
    ASSUME Alone, FollowInv, Inv', NEW w \in Workers, Load(w)
    PROVE  FollowInv'
<1>0. job[w] \in Jobs /\ WriterOK(job[w]) /\ logical \in LogicalObject
  BY Facts
<1>1. PICK copy : copy = logical'
  OBVIOUS
<1>. DEFINE j == [job[w] EXCEPT !.pc = "read", !.copy = copy]
<1>2. /\ UNCHANGED <<mist, audits, todo, versions>>
      /\ job' = [job EXCEPT ![w] = j] /\ job[w].pc = "load"
      /\ logical' = [logical EXCEPT !.known = TRUE]
  BY <1>1 DEF Load, Set, At
<1>3. logical'.known /\ logical'.version = logical.version /\ logical'.deleted = logical.deleted
  BY <1>0, <1>2 DEF LogicalObject
<1>4. HistoryOK'
  BY <1>2, <1>3 DEF FollowInv, HistoryOK, Gone, Current, Owed
<1>5. /\ j.pc = "read" /\ j.seen = job[w].seen /\ j.kind = job[w].kind
      /\ j.audit = job[w].audit /\ j.copy.version = logical'.version
  BY <1>0, <1>1 DEF Jobs
<1>6. PICK k : k = j
  OBVIOUS
<1>. HIDE DEF j
<1>7. logical.version <= Len(versions)
  BY DEF FollowInv, HistoryOK
<1>8. WriterOK(k)'
 <2>1. LookOK(k)' /\ DeleteOK(k)' /\ PlaceOK(k)'
   BY <1>0, <1>2, <1>5, <1>6
   DEF WriterOK, LookOK, DeleteOK, PlaceOK, Gone, Current, Owed
 <2>. QED BY <1>0, <1>2, <1>3, <1>5, <1>6, <1>7, <2>1 DEF WriterOK
<1>. QED BY <1>2, <1>4, <1>6, <1>8, Moved

LEMMA ReadLatestFollows ==
    ASSUME Alone, Absent \notin Configs, FollowInv, Inv', NEW w \in Workers, ReadLatest(w)
    PROVE  FollowInv'
<1>0. /\ job[w] \in Jobs /\ JobOK(job[w]) /\ WriterOK(job[w])
      /\ versions \in Seq(Version) /\ Len(versions) \in Nat
  BY Facts
<1>1. job[w].pc = "read" /\ UNCHANGED <<mist, audits, versions, logical>>
  BY DEF ReadLatest, At
<1>2. CASE /\ Done(w)
           /\ \/ job[w].kind = "capture" /\ Unchanged(w)
              \/ job[w].kind = "tombstone" /\ versions = <<>>
 <2>1. CASE job[w].kind = "capture" /\ Unchanged(w)
  <3>1. ~Gone /\ (job[w].seen = mist \/ Owed(todo \ {job[w].audit}))
    BY <1>0, <1>1, <2>1 DEF WriterOK, LookOK, PlaceOK, Looked
  <3>2. job[w].seen = mist => Current
    BY <1>0, <1>1, <2>1 DEF Unchanged, Current, JobOK, StepOK
  <3>3. Current \/ Owed(todo \ {job[w].audit})
    BY <3>1, <3>2
  <3>4. todo' = todo \ {job[w].audit}
    BY <1>2 DEF Done
  <3>5. HistoryOK'
    BY <1>1, <3>1, <3>3, <3>4 DEF FollowInv, HistoryOK, Gone, Current, Owed
  <3>. QED BY <1>2, <3>5, Finished DEF Done
 <2>2. CASE versions = <<>>
  <3>1. HistoryOK'
    BY <1>1, <2>2 DEF FollowInv, HistoryOK, Gone
  <3>. QED BY <1>2, <3>1, Finished DEF Done
 <2>. QED BY <1>2, <2>1, <2>2
<1>3. CASE ~(/\ Done(w)
             /\ \/ job[w].kind = "capture" /\ Unchanged(w)
                \/ job[w].kind = "tombstone" /\ versions = <<>>)
 <2>1. PICK pc \in {"end", "insert"} :
          /\ job' = [job EXCEPT ![w] = [job[w] EXCEPT !.latest = Len(versions), !.pc = pc]]
          /\ UNCHANGED todo
          /\ pc = "end" => job[w].kind = "tombstone" /\ versions # <<>> /\ Last(versions).deleted
   BY <1>3 DEF ReadLatest, Done, Set, At
 <2>. DEFINE j == [job[w] EXCEPT !.latest = Len(versions), !.pc = pc]
 <2>2. /\ j.pc = pc /\ j.latest = Len(versions) /\ j.seen = job[w].seen /\ j.kind = job[w].kind
       /\ j.audit = job[w].audit /\ j.copy = job[w].copy
   BY <1>0 DEF Jobs
 <2>3. job' = [job EXCEPT ![w] = j]
   BY <2>1
 <2>. HIDE DEF j
 <2>4. WriterOK(j)
  <3>1. LookOK(j) /\ DeleteOK(j)
    BY <1>0, <1>1, <2>1, <2>2 DEF WriterOK, LookOK, DeleteOK, Looked
  <3>2. PlaceOK(j)
    BY <1>0, <1>1, <2>1, <2>2 DEF WriterOK, PlaceOK, Gone
  <3>. QED BY <1>0, <1>1, <2>1, <2>2, <3>1, <3>2 DEF WriterOK
 <2>. QED BY <1>1, <2>1, <2>3, <2>4, Privately
<1>. QED BY <1>2, <1>3

LEMMA InsertFollows ==
    ASSUME Alone, Absent \notin Configs, FollowInv, Inv', NEW w \in Workers, Insert(w)
    PROVE  FollowInv'
<1>0. /\ job[w] \in Jobs /\ JobOK(job[w]) /\ WriterOK(job[w])
      /\ versions \in Seq(Version) /\ Len(versions) \in Nat
      /\ versions # <<>> <=> Len(versions) > 0
      /\ logical \in LogicalObject
  BY Facts
<1>1. job[w].pc = "insert" /\ UNCHANGED <<mist, audits, logical>>
  BY DEF Insert
<1>2. CASE ~Taken(w)
 <2>. DEFINE pc == IF job[w].kind = "tombstone" THEN "end" ELSE "save"
             j == [job[w] EXCEPT !.latest = @ + 1, !.pc = pc]
 <2>1. /\ versions' = Append(versions, NextVersion(w)) /\ UNCHANGED todo
       /\ job' = [job EXCEPT ![w] = j]
   BY <1>2 DEF Insert, Set
 <2>2. job[w].latest = Len(versions) /\ NextVersion(w) \in Version
   BY <1>1, <1>2, Recorded DEF FollowInv
 <2>3. /\ Len(versions') = Len(versions) + 1 /\ versions' # <<>>
       /\ versions'[Len(versions')] = NextVersion(w)
   BY <1>0, <2>1, <2>2
 <2>4. Last(versions') = NextVersion(w)
   BY <2>3 DEF Last
 <2>5. /\ job[w].kind # "none"
       /\ job[w].kind \in Looked => job[w].seen \in Configs
       /\ job[w].kind = "tombstone" => ~versions[job[w].latest].deleted
   BY <1>0, <1>1 DEF JobOK, InsertOK, Differs, Looked
 <2>6. job[w].kind \in Looked \/ job[w].kind \in {"tombstone", "restore delete"}
   BY <1>0, <2>5 DEF Jobs, Kinds, Looked
 <2>7. ~Gone
   BY <1>0, <1>1, <2>2, <2>5 DEF WriterOK, PlaceOK, Gone, Last
 <2>8. ~logical.deleted /\ logical.version <= Len(versions)
   BY <2>7 DEF FollowInv, HistoryOK
 <2>9. NextVersion(w).deleted = (job[w].kind \in {"tombstone", "restore delete"})
   BY DEF NextVersion
 <2>10. Gone' <=> job[w].kind \in {"tombstone", "restore delete"}
   BY <2>3, <2>4, <2>9 DEF Gone
 <2>11. Current' \/ (job[w].kind \in Looked /\ Owed(todo \ {job[w].audit}))
  <3>1. CASE job[w].kind \in {"tombstone", "restore delete"}
   <4>1. mist' = Absent
     BY <1>0, <1>1, <3>1 DEF WriterOK, DeleteOK
   <4>. QED BY <2>4, <2>9, <3>1, <4>1 DEF Current
  <3>2. CASE job[w].kind \in Looked
   <4>1. job[w].kind \notin {"tombstone", "restore delete"}
     BY <3>2 DEF Looked
   <4>2. NextVersion(w).config = job[w].seen /\ ~NextVersion(w).deleted
     BY <4>1 DEF NextVersion
   <4>3. CASE job[w].seen = mist
     BY <1>1, <2>4, <2>5, <3>2, <4>2, <4>3 DEF Current
   <4>4. CASE Owed(todo \ {job[w].audit})
     BY <3>2, <4>4
   <4>. QED BY <1>0, <1>1, <3>2, <4>3, <4>4 DEF WriterOK, LookOK
  <3>. QED BY <2>6, <3>1, <3>2
 <2>12. Owed(todo \ {job[w].audit}) => Owed(todo)
   BY DEF Owed
 <2>13. Owed(todo) <=> Owed(todo)'
   BY <1>1, <2>1 DEF Owed
 <2>14. job[w].kind \in {"tombstone", "restore delete"} => mist = Absent /\ Owed(todo)
   BY <1>0 DEF WriterOK, DeleteOK, Owed
 <2>15. HistoryOK'
  <3>1. \A a \in DOMAIN audits' : audits'[a] = "delete" => mist' = Absent
    BY <1>1 DEF FollowInv, HistoryOK
  <3>2. logical'.known /\ (Current' \/ Owed(todo)')
    BY <1>0, <1>1, <2>11, <2>12, <2>13 DEF WriterOK
  <3>3. logical'.version <= Len(versions') /\ ~logical'.deleted
    BY <1>0, <1>1, <2>3, <2>8 DEF LogicalObject
  <3>4. Gone' => mist' = Absent /\ Owed(todo)'
    BY <1>1, <2>10, <2>13, <2>14
  <3>. QED BY <3>1, <3>2, <3>3, <3>4 DEF HistoryOK
 <2>16. /\ j.pc = pc /\ j.latest = Len(versions') /\ j.seen = job[w].seen /\ j.kind = job[w].kind
        /\ j.audit = job[w].audit /\ j.copy = job[w].copy
   BY <1>0, <2>2, <2>3 DEF Jobs
 <2>17. pc \in {"end", "save"}
   OBVIOUS
 <2>18. PICK k : k = j
   OBVIOUS
 <2>. HIDE DEF j, pc
 <2>19. WriterOK(k)'
  <3>1. k.copy.version <= Len(versions')
   <4>1. job[w].copy.version \in Nat
     BY <1>0 DEF Jobs, LogicalObject
   <4>2. job[w].copy.version <= Len(versions)
     BY <1>0 DEF WriterOK
   <4>. QED BY <1>0, <2>3, <2>16, <2>18, <4>1, <4>2
  <3>2. k.audit <= Len(audits') /\ (k.kind \in {"restore", "restore delete", "baseline"} => k.audit = 0)
    BY <1>0, <1>1, <2>16, <2>18 DEF WriterOK
  <3>3. LookOK(k)'
   <4>1. Owed(todo \ {job[w].audit}) => Owed(todo \ {k.audit})'
     BY <1>1, <2>1, <2>16, <2>18 DEF Owed
   <4>2. k.kind \in Looked => job[w].kind \notin {"tombstone", "restore delete"}
     BY <2>16, <2>18 DEF Looked
   <4>. QED BY <2>11, <2>16, <2>17, <2>18, <4>1, <4>2 DEF LookOK
  <3>4. DeleteOK(k)'
    BY <1>0, <1>1, <2>1, <2>13, <2>16, <2>18 DEF WriterOK, DeleteOK
  <3>5. PlaceOK(k)'
    BY <2>3, <2>10, <2>16, <2>17, <2>18 DEF PlaceOK
  <3>6. k.kind # "none" /\ k.pc \notin {"idle", "read", "insert"}
    BY <2>5, <2>16, <2>17, <2>18
  <3>. QED BY <3>1, <3>2, <3>3, <3>4, <3>5, <3>6 DEF WriterOK
 <2>. QED BY <2>1, <2>15, <2>18, <2>19, Moved
<1>3. CASE Taken(w)
 <2>1. UNCHANGED <<versions, todo>>
   BY <1>3 DEF Insert, Fail
 <2>2. CASE Set(w, Idle)
   BY <1>1, <2>1, <2>2, IdleFollows, Privately DEF Set
 <2>3. CASE ~Set(w, Idle)
  <3>. DEFINE j == [job[w] EXCEPT !.pc = "read", !.tries = @ + 1]
  <3>1. job' = [job EXCEPT ![w] = j]
    BY <1>3, <2>3 DEF Insert, Fail, Set
  <3>2. /\ j.pc = "read" /\ j.seen = job[w].seen /\ j.kind = job[w].kind
        /\ j.audit = job[w].audit /\ j.copy = job[w].copy
    BY <1>0 DEF Jobs
  <3>. HIDE DEF j
  <3>3. WriterOK(j)
    BY <1>0, <1>1, <3>2 DEF WriterOK, LookOK, DeleteOK, PlaceOK
  <3>. QED BY <1>1, <2>1, <3>1, <3>3, Privately
 <2>. QED BY <2>2, <2>3
<1>. QED BY <1>2, <1>3

LEMMA EndFollows ==
    ASSUME Alone, FollowInv, Inv', NEW w \in Workers, EndIncarnation(w) \/ Crash(w)
    PROVE  FollowInv'
<1>0. job[w] \in Jobs /\ WriterOK(job[w])
  BY Facts
<1>1. UNCHANGED <<mist, audits, todo, versions, logical>>
  BY DEF EndIncarnation, Crash, Local, stored
<1>2. CASE EndIncarnation(w)
 <2>. DEFINE j == [job[w] EXCEPT !.pc = "save"]
 <2>1. job' = [job EXCEPT ![w] = j] /\ job[w].pc = "end"
   BY <1>2 DEF EndIncarnation, Set
 <2>2. /\ j.pc = "save" /\ j.seen = job[w].seen /\ j.kind = job[w].kind /\ j.latest = job[w].latest
       /\ j.audit = job[w].audit /\ j.copy = job[w].copy
   BY <1>0 DEF Jobs
 <2>. HIDE DEF j
 <2>3. WriterOK(j)
   BY <1>0, <2>1, <2>2 DEF WriterOK, LookOK, DeleteOK, PlaceOK
 <2>. QED BY <1>1, <2>1, <2>3, Privately
<1>3. CASE Crash(w)
  BY <1>1, <1>3, IdleFollows, Privately DEF Crash, Local, Set
<1>. QED BY <1>2, <1>3

LEMMA SaveFollows ==
    ASSUME Alone, FollowInv, Inv', NEW w \in Workers, Save(w)
    PROVE  FollowInv'
<1>0. /\ job[w] \in Jobs /\ WriterOK(job[w]) /\ Len(versions) \in Nat /\ logical \in LogicalObject
  BY Facts
<1>1. /\ job[w].pc = "save" /\ logical' = Summary(w) /\ UNCHANGED <<mist, audits, versions>>
      /\ todo' = todo \ {job[w].audit} /\ Set(w, Idle)
  BY DEF Save, Done
<1>2. /\ job[w].latest = Len(versions) /\ versions # <<>>
      /\ Gone <=> job[w].kind \in {"tombstone", "restore delete"}
  BY <1>0, <1>1 DEF WriterOK, PlaceOK
<1>3. /\ logical.known /\ logical.version <= Len(versions)
      /\ job[w].copy.version <= Len(versions)
      /\ logical.deleted => Gone
  BY <1>0, <1>2 DEF WriterOK, FollowInv, HistoryOK
<1>4. job[w].kind # "none"
  BY <1>0, <1>1 DEF WriterOK
<1>5. logical'.known /\ logical'.version = Len(versions)
 <2>1. job[w].copy.version \in Nat /\ logical.version \in Nat
   BY <1>0 DEF Jobs, LogicalObject
 <2>2. /\ Larger(job[w].copy.version, job[w].latest) = Len(versions)
       /\ Larger(logical.version, job[w].latest) = Len(versions)
  <3>1. \A m, n \in Nat : m <= n => Larger(m, n) = n
    BY DEF Larger
  <3>. QED BY <1>0, <1>2, <1>3, <2>1, <3>1
 <2>3. CASE job[w].kind = "baseline"
  <3>1. logical' = [logical EXCEPT !.version = Larger(logical.version, job[w].latest)]
    BY <1>1, <2>3 DEF Summary
  <3>. QED BY <1>0, <1>3, <2>2, <3>1 DEF LogicalObject
 <2>4. CASE job[w].kind \in {"capture", "tombstone"}
   BY <1>1, <1>2, <2>4 DEF Summary
 <2>5. CASE job[w].kind \in {"restore", "restore delete"}
   BY <1>1, <2>2, <2>5 DEF Summary
 <2>. QED BY <1>0, <1>4, <2>3, <2>4, <2>5 DEF Jobs, Kinds
<1>6. logical'.deleted <=> Gone
 <2>1. CASE job[w].kind \in {"tombstone", "restore delete"}
   BY <1>1, <1>2, <2>1 DEF Summary
 <2>2. CASE job[w].kind = "capture"
   BY <1>1, <1>2, <2>2 DEF Summary
 <2>3. CASE job[w].kind = "restore"
   BY <1>1, <1>2, <2>3 DEF Summary
 <2>4. CASE job[w].kind = "baseline"
  <3>1. ~logical.deleted /\ ~Gone
    BY <1>2, <1>3, <2>4
  <3>2. logical' = [logical EXCEPT !.version = Larger(@, job[w].latest)]
    BY <1>1, <2>4 DEF Summary
  <3>. QED BY <1>0, <3>1, <3>2 DEF LogicalObject
 <2>. QED BY <1>0, <1>4, <2>1, <2>2, <2>3, <2>4 DEF Jobs, Kinds
<1>7. Current \/ Owed(todo \ {job[w].audit})
 <2>1. CASE job[w].kind \in {"tombstone", "restore delete"}
   BY <1>0, <1>2, <2>1 DEF WriterOK, DeleteOK, Current, Gone
 <2>2. CASE job[w].kind \in Looked
   BY <1>0, <1>1, <2>2 DEF WriterOK, LookOK
 <2>. QED BY <1>0, <1>4, <2>1, <2>2 DEF Jobs, Kinds, Looked
<1>8. HistoryOK'
 <2>1. UNCHANGED <<Gone, Current>>
   BY <1>1 DEF Gone, Current
 <2>2. Owed(todo \ {job[w].audit}) => Owed(todo)'
   BY <1>1 DEF Owed
 <2>3. \A a \in DOMAIN audits' : audits'[a] = "delete" => mist' = Absent
   BY <1>1 DEF FollowInv, HistoryOK
 <2>4. Gone' => mist' = Absent
   BY <1>1, <2>1 DEF FollowInv, HistoryOK
 <2>5. Current' \/ Owed(todo)'
   BY <1>7, <2>1, <2>2
 <2>. QED BY <1>0, <1>1, <1>5, <1>6, <2>1, <2>3, <2>4, <2>5 DEF HistoryOK
<1>. QED BY <1>1, <1>8, Finished

-----------------------------------------------------------------------------
LEMMA FollowInit ==
    ASSUME RecordAttempts \in Nat \ {0}, Init
    PROVE  FollowInv
<1>1. Inv
  BY InitOK
<1>2. HistoryOK
  BY DEF Init, HistoryOK, Gone, Unknown
<1>3. WriterOK(Idle)
  BY DEF Init, Idle, Unknown, WriterOK, LookOK, DeleteOK, PlaceOK, Looked
<1>4. WritersOK
  BY <1>3 DEF Init, WritersOK
<1>. QED BY <1>1, <1>2, <1>4 DEF FollowInv

LEMMA FollowStep ==
    ASSUME Alone, Absent \notin Configs, RecordAttempts \in Nat \ {0}, FollowInv, [Next]_vars
    PROVE  FollowInv'
<1>1. Inv'
  BY StepKeeps DEF FollowInv
<1>2. ASSUME NEW c \in Configs \union {Absent}, Change(c) PROVE FollowInv'
  BY <1>1, <1>2, ChangeFollows
<1>3. ASSUME NEW w \in Workers, NEW a \in 0 .. MaxChanges, Fetch(w, a) \/ FindDeleted(w, a)
      PROVE  FollowInv'
  BY <1>1, <1>3, FetchFollows, FindDeletedFollows
<1>4. ASSUME NEW w \in Workers, NEW c \in Configs \union {Absent}, RestoreWrite(w, c)
      PROVE  FollowInv'
  BY <1>1, <1>4, RestoreWriteFollows
<1>5. ASSUME NEW w \in Workers, BeginBaseline(w) \/ FetchBaseline(w) PROVE FollowInv'
  BY <1>1, <1>5, BaselineFollows
<1>6. ASSUME NEW w \in Workers, ReadBack(w) \/ Load(w) \/ ReadLatest(w) PROVE FollowInv'
  BY <1>1, <1>6, ReadBackFollows, LoadFollows, ReadLatestFollows
<1>7. ASSUME NEW w \in Workers, Insert(w) \/ EndIncarnation(w) \/ Save(w) \/ Crash(w)
      PROVE  FollowInv'
  BY <1>1, <1>7, InsertFollows, EndFollows, SaveFollows
<1>8. CASE UNCHANGED vars
 <2>1. HistoryOK'
   BY <1>8 DEF vars, FollowInv, HistoryOK, Gone, Current, Owed
 <2>2. ASSUME NEW v \in Workers PROVE WriterOK(job[v])'
   BY <1>8 DEF vars, FollowInv, WritersOK, WriterOK, LookOK, DeleteOK, PlaceOK, Gone, Current, Owed
 <2>. QED BY <1>1, <2>1, <2>2 DEF FollowInv, WritersOK
<1>. QED BY <1>2, <1>3, <1>4, <1>5, <1>6, <1>7, <1>8 DEF Next, Step

\* With one writer at a time, which may die between any two steps, a history whose
\* audits are all processed is what Mist holds: a change that a writer did not see
\* leaves a receipt that another attempt answers (AuditVersioningService.apply,
\* `_tombstone`, _RECORD_ATTEMPTS).  Two writers break it, as the run
\* `history_overlap` shows.
THEOREM HistoryFollowsMist ==
    ASSUME \A v, w \in Workers : v = w, Absent \notin Configs, RecordAttempts \in Nat \ {0}
    PROVE  Spec => []SettledIsCurrent
<1>0. Alone
  BY DEF Alone
<1>1. Init => FollowInv
  BY FollowInit
<1>2. FollowInv /\ [Next]_vars => FollowInv'
  BY <1>0, FollowStep
<1>3. FollowInv => SettledIsCurrent
  BY DEF FollowInv, HistoryOK, SettledIsCurrent, Settled, Current, Owed
<1>. QED BY <1>1, <1>2, <1>3, PTL DEF Spec

\* Under the same hypotheses a recorded deletion reaches the summary, though the
\* worker that recorded it, or the restore that made it, died before it saved:
\* `_tombstone` finds the deletion and goes on to the summary.
THEOREM DeletionsReachTheSummary ==
    ASSUME \A v, w \in Workers : v = w, Absent \notin Configs, RecordAttempts \in Nat \ {0}
    PROVE  Spec => []DeletionIsSummarized
<1>0. Alone
  BY DEF Alone
<1>1. Init => FollowInv
  BY FollowInit
<1>2. FollowInv /\ [Next]_vars => FollowInv'
  BY <1>0, FollowStep
<1>3. FollowInv => DeletionIsSummarized
  BY DEF FollowInv, HistoryOK, DeletionIsSummarized, Settled, Gone, Owed
<1>. QED BY <1>1, <1>2, <1>3, PTL DEF Spec
=============================================================================
