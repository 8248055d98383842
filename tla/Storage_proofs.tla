---------------------------- MODULE Storage_proofs ----------------------------
(***************************************************************************)
(* What holds of the JSON storage strategy, for any number of units of     *)
(* work, entities and operations, and of its reader-writer lock, for any   *)
(* number of threads.                                                      *)
(***************************************************************************)
EXTENDS RWLock, JsonStore, FiniteSetTheorems, TLAPS

-----------------------------------------------------------------------------
(* ReaderWriterLock *)

(* Each condition's RLock is held by exactly the thread that is between    *)
(* the two ends of its "with" block.                                       *)
Ownership ==
    \A t \in Thread :
        /\ at[t] \in {"readTest", "readInc"} <=> readOwner = t
        /\ at[t] \in {"writeTestWriters", "writeTestReaders", "writeInc",
                      "writeNotify"} <=> writeOwner = t

(* A writer that has seen _writers = 0 can rely on it until it lets go of  *)
(* _write_ready: this is what makes test and increment one step for other  *)
(* writers (and there is no such fact about _readers).                     *)
TestStillTrue ==
    \A t \in Thread :
        at[t] \in {"writeTestReaders", "writeInc", "writeNotify"} => Writing = {}

LockInv == LockTypeOK /\ Ownership /\ TestStillTrue /\ OneWriter
        /\ CountersExact /\ NoStrandedReader

LEMMA InsideFinite == IsFiniteSet(Reading) /\ IsFiniteSet(Writing)
  BY RWLockAssumption, FS_Subset DEF Reading, Writing

LEMMA InsideFiniteNext == IsFiniteSet(Reading') /\ IsFiniteSet(Writing')
  BY RWLockAssumption, FS_Subset DEF Reading, Writing

(* _writers tells whether a writer is inside. *)
LEMMA WritersTells ==
  ASSUME CountersExact
  PROVE  /\ writers > 0 <=> Writing # {}
         /\ writers = 0 <=> Writing = {}
  BY InsideFinite, FS_EmptySet, FS_CardinalityType DEF CountersExact

LEMMA LockInitInv == LockInit => LockInv
  <1> SUFFICES ASSUME LockInit PROVE LockInv
    OBVIOUS
  <1>1. LockTypeOK
    BY DEF LockInit, LockTypeOK, Location
  <1>2. Reading = {} /\ Writing = {}
    BY DEF LockInit, Reading, Writing
  <1>3. CountersExact
    BY <1>2, FS_EmptySet DEF LockInit, CountersExact
  <1>4. Ownership /\ TestStillTrue /\ OneWriter /\ NoStrandedReader
    BY <1>2, RWLockAssumption DEF LockInit, Ownership, TestStillTrue, OneWriter, NoStrandedReader
  <1> QED BY <1>1, <1>3, <1>4 DEF LockInv

(* The steps that move no thread into or out of the lock. *)
LEMMA OutsideStep ==
  ASSUME LockInv, NEW t \in Thread,
         \/ CallAcquireRead(t) \/ EnterRead(t) \/ WaitForWriter(t) \/ SeeNoWriter(t)
         \/ CallAcquireWrite(t) \/ EnterWrite(t) \/ SeeOtherWriter(t)
         \/ SeeNoReader(t) \/ WaitForAccess(t) \/ NotifyReaders(t)
  PROVE  LockInv'
  <1> USE DEF LockInv
  <1>1. LockTypeOK'
    BY DEF LockTypeOK, Location, CallAcquireRead, EnterRead, WaitForWriter, SeeNoWriter,
           CallAcquireWrite, EnterWrite, SeeOtherWriter, SeeNoReader, WaitForAccess,
           NotifyReaders, Go, Woken
  <1>2. Ownership'
    BY RWLockAssumption
       DEF LockTypeOK, Ownership, CallAcquireRead, EnterRead, WaitForWriter, SeeNoWriter,
           CallAcquireWrite, EnterWrite, SeeOtherWriter, SeeNoReader, WaitForAccess,
           NotifyReaders, Go, Woken
  <1>3. Reading' = Reading /\ Writing' = Writing
    BY DEF LockTypeOK, Reading, Writing, CallAcquireRead, EnterRead, WaitForWriter, SeeNoWriter,
           CallAcquireWrite, EnterWrite, SeeOtherWriter, SeeNoReader, WaitForAccess,
           NotifyReaders, Go, Woken
  <1>4. readers' = readers /\ writers' = writers
    BY DEF CallAcquireRead, EnterRead, WaitForWriter, SeeNoWriter,
           CallAcquireWrite, EnterWrite, SeeOtherWriter, SeeNoReader, WaitForAccess,
           NotifyReaders
  <1>5. OneWriter' /\ CountersExact'
    BY <1>3, <1>4 DEF OneWriter, CountersExact
  <1>6. TestStillTrue'
    <2>1. CASE SeeOtherWriter(t)
      BY <2>1, <1>3, WritersTells DEF LockTypeOK, TestStillTrue, SeeOtherWriter, Go
    <2>2. CASE ~SeeOtherWriter(t)
      BY <2>2, <1>3
         DEF LockTypeOK, TestStillTrue, CallAcquireRead, EnterRead, WaitForWriter, SeeNoWriter,
             CallAcquireWrite, EnterWrite, SeeNoReader, WaitForAccess,
             NotifyReaders, Go, Woken
    <2> QED BY <2>1, <2>2
  <1>7. NoStrandedReader'
    <2>1. CASE NotifyReaders(t)
      BY <2>1 DEF LockTypeOK, NoStrandedReader, NotifyReaders, Woken
    <2>2. CASE WaitForWriter(t)
      BY <2>2 DEF LockTypeOK, NoStrandedReader, WaitForWriter
    <2>3. CASE ~NotifyReaders(t) /\ ~WaitForWriter(t)
      BY <2>3, <1>4
         DEF LockTypeOK, NoStrandedReader, CallAcquireRead, EnterRead, SeeNoWriter,
             CallAcquireWrite, EnterWrite, SeeOtherWriter, SeeNoReader, WaitForAccess, Go
    <2> QED BY <2>1, <2>2, <2>3
  <1> QED BY <1>1, <1>2, <1>5, <1>6, <1>7

LEMMA StartReadingStep ==
  ASSUME LockInv, NEW t \in Thread, StartReading(t)
  PROVE  LockInv'
  <1> USE DEF LockInv
  <1>1. LockTypeOK' /\ Ownership'
    BY RWLockAssumption DEF LockTypeOK, Location, Ownership, StartReading, Go
  <1>2. Reading' = Reading \cup {t} /\ t \notin Reading /\ Writing' = Writing
    BY DEF LockTypeOK, Reading, Writing, StartReading, Go
  <1>3. CountersExact'
    BY <1>2, InsideFinite, FS_AddElement DEF CountersExact, StartReading
  <1>4. TestStillTrue' /\ OneWriter' /\ NoStrandedReader'
    BY <1>2 DEF LockTypeOK, TestStillTrue, OneWriter, NoStrandedReader, StartReading, Go
  <1> QED BY <1>1, <1>3, <1>4

LEMMA ReleaseReadStep ==
  ASSUME LockInv, NEW t \in Thread, ReleaseRead(t)
  PROVE  LockInv'
  <1> USE DEF LockInv
  <1>0. readers > 0
    BY InsideFinite, FS_EmptySet, FS_CardinalityType DEF CountersExact, Reading, ReleaseRead
  <1>1. LockTypeOK' /\ Ownership'
    BY <1>0, RWLockAssumption DEF LockTypeOK, Location, Ownership, ReleaseRead, Woken
  <1>2. Reading' = Reading \ {t} /\ t \in Reading /\ Writing' = Writing
    BY DEF LockTypeOK, Reading, Writing, ReleaseRead, Woken
  <1>3. CountersExact'
    BY <1>2, InsideFinite, FS_RemoveElement DEF CountersExact, ReleaseRead
  <1>4. TestStillTrue' /\ OneWriter'
    BY <1>2 DEF LockTypeOK, TestStillTrue, OneWriter, ReleaseRead, Woken
  <1>5. NoStrandedReader'
    BY DEF LockTypeOK, NoStrandedReader, ReleaseRead, Woken
  <1> QED BY <1>1, <1>3, <1>4, <1>5

LEMMA StartWritingStep ==
  ASSUME LockInv, NEW t \in Thread, StartWriting(t)
  PROVE  LockInv'
  <1> USE DEF LockInv
  <1>1. LockTypeOK' /\ Ownership'
    BY RWLockAssumption DEF LockTypeOK, Location, Ownership, StartWriting, Go
  <1>2. Writing = {} /\ Writing' = {t} /\ Reading' = Reading
    BY DEF LockTypeOK, TestStillTrue, Reading, Writing, StartWriting, Go
  <1>3. CountersExact'
    <2>1. Cardinality(Writing) = 0 /\ Cardinality(Writing') = 1
      BY <1>2, FS_EmptySet, FS_Singleton
    <2>2. Cardinality(Reading') = Cardinality(Reading)
      BY <1>2
    <2> QED BY <2>1, <2>2 DEF CountersExact, StartWriting
  <1>4. TestStillTrue'
    \* t held _write_ready, so no other thread is past the test
    BY RWLockAssumption DEF LockTypeOK, Ownership, TestStillTrue, StartWriting, Go
  <1>5. OneWriter'
    BY <1>2 DEF OneWriter
  <1>6. NoStrandedReader'
    BY WritersTells, <1>2 DEF LockTypeOK, NoStrandedReader, StartWriting, Go
  <1> QED BY <1>1, <1>3, <1>4, <1>5, <1>6

LEMMA ReleaseWriteStep ==
  ASSUME LockInv, NEW t \in Thread, ReleaseWrite(t)
  PROVE  LockInv'
  <1> USE DEF LockInv
  <1>0. writers > 0
    BY InsideFinite, FS_EmptySet, FS_CardinalityType DEF CountersExact, Writing, ReleaseWrite
  <1>1. LockTypeOK' /\ Ownership'
    <2>1. LockTypeOK'
      BY <1>0 DEF LockTypeOK, Location, ReleaseWrite, Woken
    <2>2. Ownership'
      BY RWLockAssumption DEF LockTypeOK, Ownership, ReleaseWrite, Woken
    <2> QED BY <2>1, <2>2
  <1>2. Writing = {t} /\ Writing' = {} /\ Reading' = Reading
    BY DEF LockTypeOK, OneWriter, Reading, Writing, ReleaseWrite, Woken
  <1>3. CountersExact'
    <2>1. Cardinality(Writing) = 1 /\ Cardinality(Writing') = 0
      BY <1>2, FS_EmptySet, FS_Singleton
    <2>2. Cardinality(Reading') = Cardinality(Reading)
      BY <1>2
    <2> QED BY <2>1, <2>2 DEF CountersExact, ReleaseWrite
  <1>4. TestStillTrue' /\ OneWriter'
    BY <1>2 DEF TestStillTrue, OneWriter
  <1>5. NoStrandedReader'
    BY DEF LockTypeOK, NoStrandedReader, ReleaseWrite, Woken
  <1> QED BY <1>1, <1>3, <1>4, <1>5

LEMMA LockNextInv == LockInv /\ [LockNext]_lockVars => LockInv'
  <1> SUFFICES ASSUME LockInv, [LockNext]_lockVars PROVE LockInv'
    OBVIOUS
  <1>1. CASE UNCHANGED lockVars
    BY <1>1 DEF lockVars, LockInv, LockTypeOK, Ownership, TestStillTrue, OneWriter, CountersExact,
                NoStrandedReader, Reading, Writing
  <1>2. CASE LockNext
    BY <1>2, OutsideStep, StartReadingStep, ReleaseReadStep, StartWritingStep,
       ReleaseWriteStep DEF LockNext, Step
  <1> QED BY <1>1, <1>2

(* The lock's data stay well typed, whatever the threads do. *)
THEOREM LockTypeCorrect == LockSpec => []LockTypeOK
  <1>1. LockInv => LockTypeOK
    BY DEF LockInv
  <1> QED BY LockInitInv, LockNextInv, <1>1, PTL DEF LockSpec

(* Writers exclude each other: any number of threads, any schedule. *)
THEOREM WritersExcludeEachOther == LockSpec => []OneWriter
  <1>1. LockInv => OneWriter
    BY DEF LockInv
  <1> QED BY LockInitInv, LockNextInv, <1>1, PTL DEF LockSpec

(* _readers and _writers always count the threads that are inside. *)
THEOREM CountersAreExact == LockSpec => []CountersExact
  <1>1. LockInv => CountersExact
    BY DEF LockInv
  <1> QED BY LockInitInv, LockNextInv, <1>1, PTL DEF LockSpec

(* A waiting reader always has a writer that will wake it. *)
THEOREM ReadersAreNotStranded == LockSpec => []NoStrandedReader
  <1>1. LockInv => NoStrandedReader
    BY DEF LockInv
  <1> QED BY LockInitInv, LockNextInv, <1>1, PTL DEF LockSpec
-----------------------------------------------------------------------------
(* JSONStorageStrategy: the types of its data                              *)

(* What an operation under way has: a call as its operation, entities to    *)
(* write once it has loaded, and a backup to restore while it recovers,     *)
(* which it does only without a valid cache.                                *)
Underway ==
    \A s \in Strategy :
        /\ pc[s] # "idle" => op[s] \in Calls
        /\ pc[s] \in {"backup", "write"} => work[s] \in Content
        /\ pc[s] = "recover" => ~valid[s]
        /\ valid[s] => cache[s] \in Content

StoreInv == TypeOK /\ Underway

(* The dictionaries that an operation makes, and the backups that are kept. *)

LEMMA CallType ==
  ASSUME NEW o \in Calls
  PROVE  o \in Op /\ o.keys \in BatchOf /\ o.keys \subseteq Key /\ o.data \in Value \cup {Absent}
  BY DEF Calls, Op

LEMMA EmptyType == Empty \in Content
  BY DEF Empty, Content

LEMMA ApplyType ==
  ASSUME NEW o \in Calls, NEW data \in Content
  PROVE  Apply(o, data) \in Content
  BY CallType DEF Apply, Content

LEMMA ParsedType ==
  ASSUME NEW content \in Content \cup {NoFile}
  PROVE  Parsed(content) \in Content
  BY EmptyType DEF Parsed

(* Whatever becomes of a backup, the backups are the data file, what is left *)
(* of a copy of it, and backups that were there.                            *)
LEMMA NewestType ==
  ASSUME NEW S, NEW files \in Seq(S)
  PROVE  /\ Newest(files) \in Seq(S)
         /\ Len(Newest(files)) \in 0 .. Len(files)
  <1> DEFINE n == IF Len(files) < BackupCount THEN Len(files) ELSE BackupCount
  <1>1. n \in 0 .. Len(files)
    BY JsonStoreAssumption
  <1>2. Newest(files) = SubSeq(files, 1, n)
    BY DEF Newest
  <1> HIDE DEF n
  <1>3. SubSeq(files, 1, n) \in Seq(S) /\ Len(SubSeq(files, 1, n)) = n
    BY <1>1
  <1> QED BY <1>1, <1>2, <1>3

LEMMA LeftOfType ==
  ASSUME NEW S, NEW files \in Seq(S), NEW left \in LeftOf(files)
  PROVE  left \in Seq(S)
  <1>1. PICK i \in Len(Newest(files)) + 1 .. Len(files) + 1 :
          left = Newest(files) \o SubSeq(files, i, Len(files))
    BY DEF LeftOf
  <1>2. Newest(files) \in Seq(S) /\ i \in 1 .. Len(files) + 1
    BY <1>1, NewestType
  <1>3. SubSeq(files, i, Len(files)) \in Seq(S)
    BY <1>2
  <1> QED BY <1>1, <1>2, <1>3

LEMMA InFrontType ==
  ASSUME NEW S, backups \in Seq(S), NEW content \in S, NEW files \in InFront(content)
  PROVE  files \in Seq(S)
  <1>1. PICK rest \in {backups} \cup IF backups = << >> THEN {} ELSE {Tail(backups)} :
          files = <<content>> \o rest
    BY DEF InFront
  <1>2. rest = backups \/ (backups # << >> /\ rest = Tail(backups))
    BY <1>1
  <1>3. rest \in Seq(S)
    BY <1>2
  <1> QED BY <1>1, <1>3

LEMMA BehindType ==
  ASSUME NEW S, backups \in Seq(S), NEW content \in S, NEW files \in Behind(content)
  PROVE  files \in Seq(S)
  <1>1. PICK i \in 1 .. Len(backups) :
          files = SubSeq(backups, 1, i) \o <<content>> \o SubSeq(backups, i + 1, Len(backups))
    BY DEF Behind
  <1>2. SubSeq(backups, 1, i) \in Seq(S) /\ SubSeq(backups, i + 1, Len(backups)) \in Seq(S)
    OBVIOUS
  <1> QED BY <1>1, <1>2

LEMMA BackupStopsType ==
  ASSUME NEW S, backups \in Seq(S), file # NoFile => file \in S, Torn \in S, Empty \in S,
         BackupStops
  PROVE  backups' \in Seq(S)
  <1>1. CASE \E cut \in {Torn, Empty} : backups' \in InFront(cut)
    BY <1>1, InFrontType
  <1>2. CASE \E files \in WithCopy : backups' \in LeftOf(files)
    <2>1. PICK files \in WithCopy : backups' \in LeftOf(files)
      BY <1>2
    <2>2. files \in Seq(S)
      BY <2>1, InFrontType, BehindType DEF BackupStops, WithCopy
    <2> QED BY <2>1, <2>2, LeftOfType
  <1> QED BY <1>1, <1>2 DEF BackupStops

LEMMA BackupsType ==
  ASSUME NEW S, backups \in Seq(S), file # NoFile => file \in S, Torn \in S, Empty \in S,
         NEW s \in Strategy, CreateBackup(s) \/ Crash(s)
  PROVE  backups' \in Seq(S)
  <1>1. CASE UNCHANGED backups
    BY <1>1
  <1>2. CASE file # NoFile /\ \E files \in WithCopy : backups' = Newest(files)
    <2>1. PICK files \in WithCopy : backups' = Newest(files)
      BY <1>2
    <2>2. files \in Seq(S)
      BY <1>2, <2>1, InFrontType, BehindType DEF WithCopy
    <2> QED BY <2>1, <2>2, NewestType
  <1>3. CASE BackupStops
    BY <1>3, BackupStopsType
  <1> QED BY <1>1, <1>2, <1>3 DEF CreateBackup, Crash, store

LEMMA InitStoreInv == Init => StoreInv
  BY EmptyType, JsonStoreAssumption
     DEF Init, StoreInv, TypeOK, Underway, Op, NoOp

(* An operation that has loaded its data returns, or has entities to write. *)
LEMMA ContinueStoreInv ==
  ASSUME StoreInv, NEW s \in Strategy, pc[s] = "load",
         NEW data \in Content, NEW isCached \in BOOLEAN, Continue(s, data, isCached),
         valid' = [valid EXCEPT ![s] = isCached],
         UNCHANGED <<store, ops>>
  PROVE  StoreInv'
  <1> USE DEF StoreInv
  <1>1. op[s] \in Calls /\ Apply(op[s], data) \in Content /\ NoOp \in Op
    BY ApplyType DEF Underway, NoOp, Op
  <1>2. CASE /\ Done(s)
             /\ work' = [work EXCEPT ![s] = NoData]
             /\ cache' = IF isCached THEN [cache EXCEPT ![s] = data] ELSE cache
             /\ UNCHANGED history
    <2>1. TypeOK'
      BY <1>1, <1>2 DEF TypeOK, Done, store, history
    <2>2. Underway'
      BY <1>1, <1>2 DEF TypeOK, Underway, Done
    <2> QED BY <2>1, <2>2
  <1>3. CASE /\ pc' = [pc EXCEPT ![s] = "backup"]
             /\ work' = [work EXCEPT ![s] = Apply(op[s], data)]
             /\ cache' = IF isCached THEN [cache EXCEPT ![s] = Apply(op[s], data)] ELSE cache
             /\ pending' = [k \in Key |-> IF k \in op[s].keys
                                         THEN pending[k] \cup {op[s].data} ELSE pending[k]]
             /\ UNCHANGED <<op, acked>>
    <2>1. pending' \in [Key -> SUBSET (Value \cup {Absent})]
      BY <1>1, <1>3, CallType DEF TypeOK
    <2>2. TypeOK'
      BY <1>1, <1>3, <2>1 DEF TypeOK, store
    <2>3. Underway'
      BY <1>1, <1>3 DEF TypeOK, Underway
    <2> QED BY <2>2, <2>3
  <1> QED BY <1>2, <1>3 DEF Continue

LEMMA LoadStoreInv ==
  ASSUME StoreInv, NEW s \in Strategy,
         LoadCached(s) \/ LoadFile(s) \/ StartEmpty(s)
  PROVE  StoreInv'
  <1>1. CASE LoadCached(s)
    <2>1. cache[s] \in Content /\ valid' = [valid EXCEPT ![s] = TRUE]
      BY <1>1 DEF LoadCached, StoreInv, Underway, TypeOK
    <2> QED BY <1>1, <2>1, ContinueStoreInv DEF LoadCached
  <1>2. CASE LoadFile(s)
    <2>1. Parsed(file) \in Content
      BY <1>2, ParsedType DEF LoadFile, StoreInv, TypeOK
    <2> QED BY <1>2, <2>1, ContinueStoreInv DEF LoadFile
  <1>3. CASE StartEmpty(s)
    <2>1. valid' = [valid EXCEPT ![s] = FALSE]
      BY <1>3 DEF StartEmpty, LoadFails, StoreInv, TypeOK
    <2>2. pc[s] = "load"
      BY <1>3 DEF StartEmpty, LoadFails
    <2> QED BY <1>3, <2>1, <2>2, EmptyType, ContinueStoreInv DEF StartEmpty
  <1> QED BY <1>1, <1>2, <1>3

LEMMA CallStoreInv ==
  ASSUME StoreInv, NEW s \in Strategy, NEW o \in Calls, Call(s, o)
  PROVE  StoreInv'
  <1>1. ops' \in 0 .. MaxOps
    BY JsonStoreAssumption DEF StoreInv, TypeOK, Call
  <1>2. TypeOK'
    BY <1>1, CallType DEF StoreInv, TypeOK, Call, store, memory, history
  <1>3. Underway'
    BY DEF StoreInv, TypeOK, Underway, Call, memory
  <1> QED BY <1>2, <1>3 DEF StoreInv

LEMMA RecoveryStoreInv ==
  ASSUME StoreInv, NEW s \in Strategy,
         StartRecovery(s) \/ EndRecovery(s) \/ RecursionLimit(s)
  PROVE  StoreInv'
  <1> USE DEF StoreInv
  <1>1. CASE StartRecovery(s)
    <2>1. Head(backups) \in Content \cup {Torn}
      BY <1>1 DEF StartRecovery, TypeOK
    <2>2. TypeOK'
      BY <1>1, <2>1, EmptyType DEF TypeOK, StartRecovery, history
    <2>3. Underway'
      BY <1>1 DEF TypeOK, Underway, StartRecovery, LoadFails
    <2> QED BY <2>2, <2>3
  <1>2. CASE EndRecovery(s)
    <2>1. TypeOK'
      BY <1>2 DEF TypeOK, EndRecovery, history
    <2>2. Underway'
      BY <1>2 DEF TypeOK, Underway, EndRecovery
    <2> QED BY <2>1, <2>2
  <1>3. CASE RecursionLimit(s)
    <2>1. NoOp \in Op
      BY DEF NoOp, Op
    <2>2. TypeOK'
      BY <1>3, <2>1 DEF TypeOK, RecursionLimit, Raise, Done, store, history
    <2>3. Underway'
      BY <1>3 DEF TypeOK, Underway, RecursionLimit, Raise, Done
    <2> QED BY <2>2, <2>3
  <1> QED BY <1>1, <1>2, <1>3

LEMMA CreateBackupStoreInv ==
  ASSUME StoreInv, NEW s \in Strategy, CreateBackup(s)
  PROVE  StoreInv'
  <1>1. backups' \in Seq(Content \cup {Torn})
    BY EmptyType, BackupsType DEF StoreInv, TypeOK
  <1>2. TypeOK'
    BY <1>1 DEF StoreInv, TypeOK, CreateBackup, memory, history
  <1>3. Underway'
    BY DEF StoreInv, TypeOK, Underway, CreateBackup, memory
  <1> QED BY <1>2, <1>3 DEF StoreInv

LEMMA WriteStoreInv ==
  ASSUME StoreInv, NEW s \in Strategy,
         WriteFile(s) \/ WriteFails(s) \/ NewUnit(s) \/ Crash(s)
  PROVE  StoreInv'
  <1> USE DEF StoreInv
  <1>0. NoOp \in Op
    BY DEF NoOp, Op
  <1>1. CASE WriteFile(s)
    <2>1. op[s] \in Calls /\ work[s] \in Content
      BY <1>1 DEF Underway, WriteFile
    <2>2. acked' \in Content /\ pending' \in [Key -> SUBSET (Value \cup {Absent})]
      BY <1>1, <2>1, ApplyType DEF TypeOK, WriteFile
    <2>3. TypeOK'
      BY <1>0, <1>1, <2>1, <2>2 DEF TypeOK, WriteFile, Done
    <2>4. Underway'
      BY <1>1, <2>1 DEF TypeOK, Underway, WriteFile, Done
    <2> QED BY <2>3, <2>4
  <1>2. CASE WriteFails(s)
    <2>1. TypeOK'
      BY <1>0, <1>2 DEF TypeOK, WriteFails, Raise, Done, store, history
    <2>2. Underway'
      BY <1>2 DEF TypeOK, Underway, WriteFails, Raise, Done
    <2> QED BY <2>1, <2>2
  <1>3. CASE NewUnit(s)
    <2>1. TypeOK'
      BY <1>3 DEF TypeOK, NewUnit, store, history
    <2>2. Underway'
      BY <1>3 DEF TypeOK, Underway, NewUnit
    <2> QED BY <2>1, <2>2
  <1>4. CASE Crash(s)
    <2>1. file' \in Content \cup {NoFile, Torn}
      BY <1>4 DEF TypeOK, Underway, Crash, store
    <2>2. backups' \in Seq(Content \cup {Torn})
      BY <1>4, EmptyType, BackupsType DEF TypeOK
    <2>3. TypeOK'
      BY <1>0, <1>4, <2>1, <2>2 DEF TypeOK, Crash, Done
    <2>4. Underway'
      BY <1>4 DEF TypeOK, Underway, Crash, Done
    <2> QED BY <2>3, <2>4
  <1> QED BY <1>1, <1>2, <1>3, <1>4

LEMMA NextStoreInv == StoreInv /\ [Next]_vars => StoreInv'
  <1> SUFFICES ASSUME StoreInv, [Next]_vars PROVE StoreInv'
    OBVIOUS
  <1>1. CASE UNCHANGED vars
    BY <1>1 DEF vars, StoreInv, TypeOK, Underway
  <1>2. CASE Next
    BY <1>2, CallStoreInv, LoadStoreInv, RecoveryStoreInv, CreateBackupStoreInv, WriteStoreInv
       DEF Next
  <1> QED BY <1>1, <1>2

(* The file, the backups and every unit's memory keep their types, whatever *)
(* races, fails or crashes.                                                 *)
THEOREM StoreTypeCorrect == Spec => []TypeOK
  <1>1. StoreInv => TypeOK
    BY DEF StoreInv
  <1> QED BY InitStoreInv, NextStoreInv, <1>1, PTL DEF Spec
-----------------------------------------------------------------------------
(* Batches stay whole                                                      *)

(* No dictionary on its way to the file splits ids that are named together. *)
WholeInMemory ==
    \A s \in Strategy :
        /\ work[s] \in Content => Whole(work[s])
        /\ cache[s] \in Content => Whole(cache[s])

WholeInv == StoreInv /\ BatchAllOrNothing /\ WholeInMemory

LEMMA EmptyWhole == Whole(Empty)
  BY DEF Whole, Empty

LEMMA ApplyWhole ==
  ASSUME NEW o \in Calls, NEW data \in Content, Whole(data)
  PROVE  Whole(Apply(o, data))
  BY CallType DEF Whole, NamedTogether, Apply

(* What a process reads is whole, the data file or one that is not there. *)
LEMMA ParsedWhole ==
  ASSUME WholeInv
  PROVE  file # Torn => Whole(Parsed(file))
  BY DEF WholeInv, BatchAllOrNothing

LEMMA InitWholeInv == Init => WholeInv
  <1> SUFFICES ASSUME Init PROVE WholeInv
    OBVIOUS
  <1>1. BatchAllOrNothing
    BY EmptyWhole DEF Init, BatchAllOrNothing, Parsed
  <1>2. WholeInMemory
    BY JsonStoreAssumption DEF Init, WholeInMemory
  <1> QED BY <1>1, <1>2, InitStoreInv DEF WholeInv

(* What an operation makes of whole data is whole. *)
LEMMA ContinueWhole ==
  ASSUME WholeInv, NEW s \in Strategy, pc[s] = "load",
         NEW data \in Content, Whole(data), NEW isCached \in BOOLEAN,
         Continue(s, data, isCached)
  PROVE  WholeInMemory'
  <1>1. op[s] \in Calls
    BY DEF WholeInv, StoreInv, Underway
  <1>2. Whole(Apply(op[s], data))
    BY <1>1, ApplyWhole
  <1>3. NoData \notin Content
    BY JsonStoreAssumption
  <1>4. PICK d : d \in {data, Apply(op[s], data)} /\ cache' \in {cache, [cache EXCEPT ![s] = d]}
    BY DEF Continue
  <1>5. PICK e : e \in {NoData, Apply(op[s], data)} /\ work' = [work EXCEPT ![s] = e]
    BY DEF Continue
  <1> QED
    BY <1>2, <1>3, <1>4, <1>5 DEF WholeInv, StoreInv, TypeOK, WholeInMemory

LEMMA LoadWhole ==
  ASSUME WholeInv, NEW s \in Strategy,
         LoadCached(s) \/ LoadFile(s) \/ StartEmpty(s)
  PROVE  BatchAllOrNothing' /\ WholeInMemory'
  <1>1. BatchAllOrNothing'
    BY DEF WholeInv, BatchAllOrNothing, LoadCached, LoadFile, StartEmpty, store
  <1>2. CASE LoadCached(s)
    <2>1. cache[s] \in Content /\ Whole(cache[s])
      BY <1>2 DEF WholeInv, StoreInv, Underway, WholeInMemory, LoadCached
    <2> QED BY <1>1, <1>2, <2>1, ContinueWhole DEF LoadCached
  <1>3. CASE LoadFile(s)
    <2>1. Parsed(file) \in Content
      BY <1>3, ParsedType DEF WholeInv, StoreInv, TypeOK, LoadFile
    <2> QED BY <1>1, <1>3, <2>1, ParsedWhole, ContinueWhole DEF LoadFile
  <1>4. CASE StartEmpty(s)
    BY <1>1, <1>4, EmptyType, EmptyWhole, ContinueWhole DEF StartEmpty, LoadFails
  <1> QED BY <1>2, <1>3, <1>4

(* Every file a step writes, the data file or a backup, is one that was      *)
(* there, one in memory, empty or torn.                                     *)
WholeFile(content) ==
    \/ content \in {NoFile, Torn}
    \/ content \in Content /\ Whole(content)

LEMMA WholeFiles ==
  ASSUME WholeInv
  PROVE  /\ WholeFile(file)
         /\ \A i \in 1 .. Len(backups) : WholeFile(backups[i])
         /\ WholeFile(Empty)
  BY EmptyType, EmptyWhole, JsonStoreAssumption
     DEF WholeInv, StoreInv, TypeOK, BatchAllOrNothing, WholeFile, Parsed

LEMMA FilesWhole ==
  ASSUME WholeFile(file'),
         \A i \in 1 .. Len(backups') : backups'[i] # Torn => Whole(backups'[i])
  PROVE  BatchAllOrNothing'
  BY EmptyWhole, JsonStoreAssumption DEF WholeFile, BatchAllOrNothing, Parsed

LEMMA RecoveryWhole ==
  ASSUME WholeInv, NEW s \in Strategy,
         StartRecovery(s) \/ EndRecovery(s) \/ RecursionLimit(s)
  PROVE  BatchAllOrNothing' /\ WholeInMemory'
  <1> USE DEF WholeInv
  <1>1. NoData \notin Content
    BY JsonStoreAssumption
  <1>2. \A i \in 1 .. Len(backups) : backups[i] # Torn => Whole(backups[i])
    BY DEF BatchAllOrNothing
  <1>3. CASE StartRecovery(s)
    <2>1. WholeFile(file')
      BY <1>3, WholeFiles DEF StartRecovery, WholeFile
    <2>2. BatchAllOrNothing'
      BY <1>2, <1>3, <2>1, FilesWhole DEF StartRecovery
    <2>3. Head(backups) = backups[1] /\ 1 \in 1 .. Len(backups)
      BY <1>3 DEF StartRecovery, StoreInv, TypeOK
    <2>4. Head(backups) \in Content => Whole(Head(backups))
      BY <1>2, <2>3, JsonStoreAssumption
    <2>5. WholeInMemory'
      BY <1>3, <2>4 DEF StartRecovery, StoreInv, TypeOK, WholeInMemory
    <2> QED BY <2>2, <2>5
  <1>4. CASE EndRecovery(s)
    <2>1. WholeFile(file')
      BY <1>4, WholeFiles DEF EndRecovery, StoreInv, TypeOK, WholeInMemory, WholeFile
    <2>2. BatchAllOrNothing'
      BY <1>2, <1>4, <2>1, FilesWhole DEF EndRecovery
    <2>3. WholeInMemory'
      BY <1>1, <1>4 DEF EndRecovery, StoreInv, TypeOK, WholeInMemory
    <2> QED BY <2>2, <2>3
  <1>5. CASE RecursionLimit(s)
    BY <1>1, <1>5 DEF RecursionLimit, Raise, store, StoreInv, TypeOK, WholeInMemory, BatchAllOrNothing
  <1> QED BY <1>3, <1>4, <1>5

(* Torn or whole: what a backup may be. *)
TornOrWhole == {content \in Content \cup {Torn} : content # Torn => Whole(content)}

(* A step that makes a backup leaves every backup torn or whole. *)
LEMMA BackupsWhole ==
  ASSUME WholeInv, NEW s \in Strategy, CreateBackup(s) \/ Crash(s)
  PROVE  \A i \in 1 .. Len(backups') : backups'[i] # Torn => Whole(backups'[i])
  <1>1. backups \in Seq(TornOrWhole)
    BY DEF WholeInv, StoreInv, TypeOK, BatchAllOrNothing, TornOrWhole
  <1>2. file # NoFile => file \in TornOrWhole
    BY DEF WholeInv, StoreInv, TypeOK, BatchAllOrNothing, TornOrWhole, Parsed
  <1>3. Torn \in TornOrWhole /\ Empty \in TornOrWhole
    BY EmptyType, EmptyWhole DEF TornOrWhole
  <1>4. backups' \in Seq(TornOrWhole)
    BY <1>1, <1>2, <1>3, BackupsType
  <1> QED BY <1>4 DEF TornOrWhole

LEMMA CreateBackupWhole ==
  ASSUME WholeInv, NEW s \in Strategy, CreateBackup(s)
  PROVE  BatchAllOrNothing' /\ WholeInMemory'
  <1> USE DEF WholeInv
  <1>1. \A i \in 1 .. Len(backups') : backups'[i] # Torn => Whole(backups'[i])
    BY BackupsWhole DEF WholeInv
  <1>2. BatchAllOrNothing'
    BY <1>1, WholeFiles, FilesWhole DEF CreateBackup
  <1>3. WholeInMemory'
    BY DEF CreateBackup, memory, WholeInMemory
  <1> QED BY <1>2, <1>3

LEMMA WriteWhole ==
  ASSUME WholeInv, NEW s \in Strategy,
         WriteFile(s) \/ WriteFails(s) \/ NewUnit(s) \/ Crash(s)
  PROVE  BatchAllOrNothing' /\ WholeInMemory'
  <1> USE DEF WholeInv
  <1>1. NoData \notin Content
    BY JsonStoreAssumption
  <1>2. \A i \in 1 .. Len(backups) : backups[i] # Torn => Whole(backups[i])
    BY DEF BatchAllOrNothing
  <1>3. pc[s] = "write" => WholeFile(work[s])
    BY DEF StoreInv, Underway, WholeInMemory, WholeFile
  <1>4. CASE WriteFile(s)
    <2>1. BatchAllOrNothing'
      BY <1>2, <1>3, <1>4, FilesWhole DEF WriteFile
    <2>2. WholeInMemory'
      BY <1>1, <1>3, <1>4 DEF WriteFile, StoreInv, TypeOK, Underway, WholeInMemory
    <2> QED BY <2>1, <2>2
  <1>5. CASE WriteFails(s)
    BY <1>1, <1>5 DEF WriteFails, Raise, store, StoreInv, TypeOK, WholeInMemory, BatchAllOrNothing
  <1>6. CASE NewUnit(s)
    BY <1>1, <1>6 DEF NewUnit, store, StoreInv, TypeOK, WholeInMemory, BatchAllOrNothing
  <1>7. CASE Crash(s)
    <2>1. WholeFile(file')
      BY <1>3, <1>7, WholeFiles DEF Crash, store
    <2>2. \A i \in 1 .. Len(backups') : backups'[i] # Torn => Whole(backups'[i])
      BY <1>7, BackupsWhole DEF WholeInv
    <2>3. WholeInMemory'
      BY <1>1, <1>7 DEF Crash, StoreInv, TypeOK, WholeInMemory
    <2> QED BY <2>1, <2>2, <2>3, FilesWhole
  <1> QED BY <1>4, <1>5, <1>6, <1>7

LEMMA NextWholeInv == WholeInv /\ [Next]_vars => WholeInv'
  <1> SUFFICES ASSUME WholeInv, [Next]_vars PROVE BatchAllOrNothing' /\ WholeInMemory'
    BY NextStoreInv DEF WholeInv
  <1>1. CASE UNCHANGED vars
    BY <1>1 DEF vars, WholeInv, BatchAllOrNothing, WholeInMemory
  <1>2. ASSUME NEW s \in Strategy, NEW o \in Calls, Call(s, o)
        PROVE  BatchAllOrNothing' /\ WholeInMemory'
    BY <1>2 DEF Call, store, memory, WholeInv, BatchAllOrNothing, WholeInMemory
  <1> QED
    BY <1>1, <1>2, LoadWhole, RecoveryWhole, CreateBackupWhole, WriteWhole DEF Next

(* save_batch and delete_batch are all or nothing, in the file and in its   *)
(* backups: any number of units that race, every fault.                     *)
THEOREM BatchesStayWhole == Spec => []BatchAllOrNothing
  <1>1. WholeInv => BatchAllOrNothing
    BY DEF WholeInv
  <1> QED BY InitWholeInv, NextWholeInv, <1>1, PTL DEF Spec
-----------------------------------------------------------------------------
(* A unit of work is under way from its first operation until it ends, its  *)
(* strategy with it.  Units that do not overlap: any number of them, in any *)
(* processes, one after the other.                                          *)
InUnit(s) == pc[s] # "idle" \/ cache[s] # NoData

OneUnitAtATime == \A s, t \in Strategy : InUnit(s) /\ InUnit(t) => s = t

(* While one is at work, no other does or remembers anything. *)
LEMMA Alone ==
  ASSUME OneUnitAtATime, StoreInv, NEW s \in Strategy, pc[s] # "idle"
  PROVE  \A t \in Strategy : t # s => pc[t] = "idle" /\ ~valid[t]
  BY JsonStoreAssumption DEF OneUnitAtATime, InUnit, StoreInv, TypeOK, Underway

(* A valid cache is what the file holds. *)

MatchInv == StoreInv /\ CacheMatchesFile

LEMMA NextMatchInv ==
  ASSUME OneUnitAtATime, "write" \notin Faults
  PROVE  MatchInv /\ [Next]_vars => MatchInv'
  <1> SUFFICES ASSUME MatchInv, [Next]_vars PROVE CacheMatchesFile'
    BY NextStoreInv DEF MatchInv
  <1> USE DEF MatchInv, StoreInv, CacheMatchesFile
  <1>1. CASE UNCHANGED vars
    BY <1>1 DEF vars
  <1>2. ASSUME NEW s \in Strategy, NEW o \in Calls, Call(s, o)
        PROVE  CacheMatchesFile'
    BY <1>2 DEF TypeOK, Call, store, memory
  <1>3. ASSUME NEW s \in Strategy, LoadCached(s)
        PROVE  CacheMatchesFile'
    BY <1>3, Alone DEF TypeOK, LoadCached, Continue, Done, store
  <1>4. ASSUME NEW s \in Strategy, LoadFile(s)
        PROVE  CacheMatchesFile'
    BY <1>4, Alone DEF TypeOK, LoadFile, Continue, Done, store
  <1>5. ASSUME NEW s \in Strategy,
               StartRecovery(s) \/ EndRecovery(s) \/ RecursionLimit(s) \/ StartEmpty(s)
        PROVE  CacheMatchesFile'
    \* nobody recovers, or gives up, with a valid cache
    BY <1>5, Alone DEF TypeOK, Underway, StartRecovery, EndRecovery, RecursionLimit, StartEmpty,
                LoadFails, Raise, store
  <1>6. ASSUME NEW s \in Strategy, CreateBackup(s) \/ WriteFile(s) \/ WriteFails(s)
        PROVE  CacheMatchesFile'
    BY <1>6, Alone DEF TypeOK, CreateBackup, WriteFile, WriteFails, memory
  <1>7. ASSUME NEW s \in Strategy, NewUnit(s)
        PROVE  CacheMatchesFile'
    BY <1>7 DEF TypeOK, NewUnit, store
  <1>8. ASSUME NEW s \in Strategy, Crash(s)
        PROVE  CacheMatchesFile'
    <2>1. \A t \in Strategy : t # s => ~valid[t]
      BY <1>8, Alone DEF Crash
    <2> QED BY <1>8, <2>1 DEF TypeOK, Crash
  <1> QED BY <1>1, <1>2, <1>3, <1>4, <1>5, <1>6, <1>7, <1>8 DEF Next

LEMMA InitMatchInv == Init => MatchInv
  BY InitStoreInv DEF Init, MatchInv, CacheMatchesFile

(* Reads are answered with stored data only, as long as units do not overlap *)
(* and no write fails: reads, backups and processes may.                    *)
THEOREM CachesMatch ==
  ASSUME "write" \notin Faults
  PROVE  Spec /\ []OneUnitAtATime => []CacheMatchesFile
  <1>1. OneUnitAtATime /\ MatchInv /\ [Next]_vars => MatchInv'
    BY NextMatchInv
  <1>2. MatchInv => CacheMatchesFile
    BY DEF MatchInv
  <1> QED BY InitMatchInv, <1>1, <1>2, PTL DEF Spec

-----------------------------------------------------------------------------
(* Nothing acknowledged is lost                                            *)

(* The data of each id as the last operation that returned left it, or as    *)
(* one left it of which the caller does not know whether it is done.        *)
Recent(data) == \A k \in Key : data[k] \in {acked[k]} \cup pending[k]

RecentInMemory ==
    \A s \in Strategy :
        /\ pc[s] # "recover"
        /\ valid[s] => Recent(cache[s])
        /\ pc[s] \in {"backup", "write"} =>
              Recent(work[s]) /\ \A k \in op[s].keys : work[s][k] = op[s].data

AckedInv == StoreInv /\ file # Torn /\ NothingAckedIsLost /\ RecentInMemory

LEMMA InitAckedInv == Init => AckedInv
  <1> SUFFICES ASSUME Init PROVE AckedInv
    OBVIOUS
  <1>1. file # Torn
    BY JsonStoreAssumption DEF Init
  <1>2. NothingAckedIsLost /\ RecentInMemory
    BY DEF Init, NothingAckedIsLost, RecentInMemory, Parsed
  <1> QED BY <1>1, <1>2, InitStoreInv DEF AckedInv

LEMMA ReadsRecent ==
  ASSUME AckedInv
  PROVE  Recent(Parsed(file))
  BY DEF AckedInv, NothingAckedIsLost, Recent

(* An operation changes its ids only, and what it is about to write to them  *)
(* is pending.                                                              *)
LEMMA ContinueAcked ==
  ASSUME OneUnitAtATime, AckedInv, NEW s \in Strategy, pc[s] = "load",
         NEW data \in Content, Recent(data), Continue(s, data, TRUE),
         valid' = [valid EXCEPT ![s] = TRUE], UNCHANGED store
  PROVE  file' # Torn /\ NothingAckedIsLost' /\ RecentInMemory'
  <1> USE DEF AckedInv
  <1>1. file' # Torn
    BY DEF store
  <1>2. \A t \in Strategy : t # s => pc[t] = "idle" /\ ~valid'[t]
    BY Alone DEF StoreInv, TypeOK
  <1>3. CASE /\ Done(s)
             /\ cache' = [cache EXCEPT ![s] = data]
             /\ UNCHANGED history
    <2>1. NothingAckedIsLost'
      BY <1>3 DEF NothingAckedIsLost, store, history
    <2>2. Recent(data)'
      BY <1>3 DEF Recent, history
    <2>3. \A t \in Strategy : pc'[t] = "idle"
      BY <1>2, <1>3 DEF StoreInv, TypeOK, Done
    <2>4. cache'[s] = data
      BY <1>3 DEF StoreInv, TypeOK
    <2>5. RecentInMemory'
      BY <1>2, <2>2, <2>3, <2>4 DEF RecentInMemory
    <2> QED BY <1>1, <2>1, <2>5
  <1>4. CASE /\ pc' = [pc EXCEPT ![s] = "backup"]
             /\ work' = [work EXCEPT ![s] = Apply(op[s], data)]
             /\ cache' = [cache EXCEPT ![s] = Apply(op[s], data)]
             /\ pending' = [k \in Key |-> IF k \in op[s].keys
                                         THEN pending[k] \cup {op[s].data} ELSE pending[k]]
             /\ UNCHANGED <<op, acked>>
    <2>1. NothingAckedIsLost'
      BY <1>4 DEF NothingAckedIsLost, store
    <2>2. op[s].keys \subseteq Key
      BY CallType DEF StoreInv, Underway
    <2>3. Recent(Apply(op[s], data))' /\ \A k \in op[s].keys : Apply(op[s], data)[k] = op[s].data
      BY <1>4, <2>2 DEF Recent, Apply
    <2>4. /\ cache'[s] = Apply(op[s], data) /\ work'[s] = Apply(op[s], data)
          /\ pc'[s] = "backup" /\ op'[s] = op[s]
      BY <1>4 DEF StoreInv, TypeOK
    <2>5. \A t \in Strategy : t # s => pc'[t] = "idle"
      BY <1>2, <1>4 DEF StoreInv, TypeOK
    <2>6. RecentInMemory'
      BY <1>2, <2>3, <2>4, <2>5 DEF RecentInMemory, Recent, Apply
    <2> QED BY <1>1, <2>1, <2>6
  <1> QED BY <1>3, <1>4 DEF Continue

LEMMA WriteAcked ==
  ASSUME OneUnitAtATime, AckedInv, NEW s \in Strategy, WriteFile(s)
  PROVE  file' # Torn /\ NothingAckedIsLost' /\ RecentInMemory'
  <1> USE DEF AckedInv
  <1>1. work[s] \in Content /\ Recent(work[s]) /\ \A k \in op[s].keys : work[s][k] = op[s].data
    BY DEF StoreInv, Underway, RecentInMemory, WriteFile
  <1>2. file' # Torn /\ Parsed(file') = work[s]
    BY <1>1, JsonStoreAssumption DEF WriteFile, Parsed
  <1>3. NothingAckedIsLost'
    BY <1>1, <1>2 DEF NothingAckedIsLost, Recent, WriteFile, Apply
  <1>4. RecentInMemory'
    BY Alone DEF StoreInv, TypeOK, RecentInMemory, WriteFile, Done
  <1> QED BY <1>2, <1>3, <1>4

LEMMA NextAckedInv ==
  ASSUME OneUnitAtATime, "read" \notin Faults
  PROVE  AckedInv /\ [Next]_vars => AckedInv'
  <1> SUFFICES ASSUME AckedInv, [Next]_vars
               PROVE  file' # Torn /\ NothingAckedIsLost' /\ RecentInMemory'
    BY NextStoreInv DEF AckedInv
  <1> DEFINE Goal == file' # Torn /\ NothingAckedIsLost' /\ RecentInMemory'
  <1> USE DEF AckedInv
  <1>1. CASE UNCHANGED vars
    BY <1>1 DEF vars, NothingAckedIsLost, RecentInMemory, Recent
  <1>2. ASSUME NEW s \in Strategy, NEW o \in Calls, Call(s, o)
        PROVE  Goal
    BY <1>2 DEF Call, store, memory, history, StoreInv, TypeOK, NothingAckedIsLost, RecentInMemory,
                Recent
  <1>3. ASSUME NEW s \in Strategy, LoadCached(s)
        PROVE  Goal
    <2>1. /\ cache[s] \in Content /\ Recent(cache[s])
          /\ valid' = [valid EXCEPT ![s] = TRUE]
      BY <1>3 DEF StoreInv, TypeOK, Underway, RecentInMemory, LoadCached
    <2> QED BY <1>3, <2>1, ContinueAcked DEF LoadCached
  <1>4. ASSUME NEW s \in Strategy, LoadFile(s)
        PROVE  Goal
    <2>1. Parsed(file) \in Content
      BY ParsedType DEF StoreInv, TypeOK
    <2> QED BY <1>4, <2>1, ReadsRecent, ContinueAcked DEF LoadFile
  <1>5. ASSUME NEW s \in Strategy,
               StartRecovery(s) \/ EndRecovery(s) \/ RecursionLimit(s) \/ StartEmpty(s)
        PROVE  FALSE
    \* the file is never torn and never fails to be read
    BY <1>5 DEF StartRecovery, EndRecovery, RecursionLimit, StartEmpty, LoadFails, RecentInMemory
  <1>6. ASSUME NEW s \in Strategy, CreateBackup(s)
        PROVE  Goal
    BY <1>6 DEF CreateBackup, memory, history, StoreInv, TypeOK, NothingAckedIsLost, RecentInMemory,
                Recent
  <1>7. ASSUME NEW s \in Strategy, WriteFails(s) \/ NewUnit(s)
        PROVE  Goal
    <2>1. CASE WriteFails(s)
      BY <2>1 DEF WriteFails, Raise, Done, store, history, StoreInv, TypeOK,
                  NothingAckedIsLost, RecentInMemory, Recent
    <2>2. CASE NewUnit(s)
      BY <2>2 DEF NewUnit, store, history, StoreInv, TypeOK, NothingAckedIsLost, RecentInMemory,
                  Recent
    <2> QED BY <1>7, <2>1, <2>2
  <1>8. ASSUME NEW s \in Strategy, Crash(s)
        PROVE  Goal
    <2>1. pc[s] = "write" => work[s] \in Content /\ Recent(work[s])
      BY DEF StoreInv, Underway, RecentInMemory
    <2>2. file' # Torn /\ Recent(Parsed(file'))
      BY <1>8, <2>1, ReadsRecent, JsonStoreAssumption DEF Crash, store, Parsed
    <2>3. NothingAckedIsLost'
      BY <1>8, <2>2 DEF NothingAckedIsLost, Recent, Crash
    <2>4. RecentInMemory'
      BY <1>8, Alone DEF StoreInv, TypeOK, RecentInMemory, Crash, Done
    <2> QED BY <2>2, <2>3, <2>4
  <1> QED BY <1>1, <1>2, <1>3, <1>4, <1>5, <1>6, <1>7, <1>8, WriteAcked DEF Next

(* What an operation that returned has stored stays in the file until it is  *)
(* changed again, through failing writes and backups, crashes and restarts: *)
(* for units of work that do not overlap, while the file can be read.       *)
THEOREM AcknowledgedStays ==
  ASSUME "read" \notin Faults
  PROVE  Spec /\ []OneUnitAtATime => []NothingAckedIsLost
  <1>1. OneUnitAtATime /\ AckedInv /\ [Next]_vars => AckedInv'
    BY NextAckedInv
  <1>2. AckedInv => NothingAckedIsLost
    BY DEF AckedInv
  <1> QED BY InitAckedInv, <1>1, <1>2, PTL DEF Spec
-----------------------------------------------------------------------------
(* JsonStore implements EntityStore                                        *)

(* What an operation is about to write is that operation on what the file   *)
(* holds: nobody changed the file since it was read.                        *)
AppliesToFile ==
    \A s \in Strategy :
        /\ pc[s] # "recover"
        /\ pc[s] \in {"backup", "write"} => work[s] = Apply(op[s], Parsed(file))

OneOpInv == StoreInv /\ file # Torn /\ CacheMatchesFile /\ AppliesToFile

LEMMA InitOneOpInv == Init => OneOpInv
  BY InitMatchInv, JsonStoreAssumption DEF Init, OneOpInv, MatchInv, AppliesToFile

LEMMA ContinueApplies ==
  ASSUME OneUnitAtATime, OneOpInv, NEW s \in Strategy, pc[s] = "load",
         Continue(s, Parsed(file), TRUE), UNCHANGED store
  PROVE  AppliesToFile'
  BY Alone DEF OneOpInv, StoreInv, TypeOK, AppliesToFile, Continue, Done, store

(* A step of the file is one operation on it, or leaves it as it is. *)
LEMMA WriteIsOneChange ==
  ASSUME OneOpInv, NEW s \in Strategy, pc[s] = "write", file' = work[s]
  PROVE  file' # Torn /\ Entities!Next
  <1>1. /\ op[s] \in Calls
        /\ work[s] \in Content
        /\ work[s] = Apply(op[s], Parsed(file))
    BY DEF OneOpInv, StoreInv, Underway, AppliesToFile
  <1>2. file' # Torn /\ Parsed(file') = Apply(op[s], Parsed(file))
    BY <1>1, JsonStoreAssumption DEF Parsed
  <1>3. op[s].keys \in BatchOf /\ op[s].data \in Value \cup {Absent}
    BY <1>1, CallType
  <1>4. Entities!Change(op[s].keys, op[s].data)
    BY <1>2 DEF Entities!Change, Apply
  <1> QED BY <1>2, <1>3, <1>4 DEF Entities!Next

LEMMA NextOneOpInv ==
  ASSUME OneUnitAtATime, {"read", "write"} \cap Faults = {}
  PROVE  OneOpInv /\ [Next]_vars => OneOpInv' /\ [Entities!Next]_(Parsed(file))
  <1> SUFFICES ASSUME OneOpInv, [Next]_vars
               PROVE  /\ file' # Torn /\ AppliesToFile'
                      /\ Entities!Next \/ UNCHANGED Parsed(file)
    BY NextStoreInv, NextMatchInv DEF OneOpInv, MatchInv
  <1> DEFINE Goal == /\ file' # Torn /\ AppliesToFile'
                     /\ Entities!Next \/ UNCHANGED Parsed(file)
  <1> USE DEF OneOpInv
  <1>1. CASE UNCHANGED vars
    BY <1>1 DEF vars, AppliesToFile, Parsed
  <1>2. ASSUME NEW s \in Strategy, NEW o \in Calls, Call(s, o)
        PROVE  Goal
    BY <1>2 DEF Call, store, memory, StoreInv, TypeOK, AppliesToFile, Parsed
  <1>3. ASSUME NEW s \in Strategy, LoadCached(s) \/ LoadFile(s)
        PROVE  Goal
    <2>1. pc[s] = "load" /\ Continue(s, Parsed(file), TRUE) /\ UNCHANGED store
      BY <1>3 DEF LoadCached, LoadFile, CacheMatchesFile
    <2>2. AppliesToFile'
      BY <2>1, ContinueApplies
    <2> QED BY <2>1, <2>2 DEF store, Parsed
  <1>4. ASSUME NEW s \in Strategy,
               StartRecovery(s) \/ EndRecovery(s) \/ RecursionLimit(s) \/ StartEmpty(s)
        PROVE  FALSE
    BY <1>4 DEF StartRecovery, EndRecovery, RecursionLimit, StartEmpty, LoadFails, AppliesToFile
  <1>5. ASSUME NEW s \in Strategy, CreateBackup(s)
        PROVE  Goal
    BY <1>5 DEF CreateBackup, memory, StoreInv, TypeOK, AppliesToFile, Parsed
  <1>6. ASSUME NEW s \in Strategy, WriteFile(s)
        PROVE  Goal
    <2>1. AppliesToFile'
      BY <1>6, Alone DEF StoreInv, TypeOK, AppliesToFile, WriteFile, Done
    <2> QED BY <1>6, <2>1, WriteIsOneChange DEF WriteFile
  <1>7. ASSUME NEW s \in Strategy, WriteFails(s)
        PROVE  FALSE
    BY <1>7 DEF WriteFails
  <1>8. ASSUME NEW s \in Strategy, NewUnit(s)
        PROVE  Goal
    BY <1>8 DEF NewUnit, store, AppliesToFile, Parsed
  <1>9. ASSUME NEW s \in Strategy, Crash(s)
        PROVE  Goal
    <2>1. AppliesToFile'
      BY <1>9, Alone DEF StoreInv, TypeOK, AppliesToFile, Crash, Done
    <2>2. CASE file' = file
      BY <2>1, <2>2 DEF Parsed
    <2>3. CASE pc[s] = "write" /\ file' = work[s]
      BY <2>1, <2>3, WriteIsOneChange
    <2> QED BY <1>9, <2>2, <2>3 DEF Crash, store
  <1> QED BY <1>1, <1>2, <1>3, <1>4, <1>5, <1>6, <1>7, <1>8, <1>9 DEF Next

(* The JSON strategy keeps the promise of StoragePort: every change of what  *)
(* is stored is one save, save_batch, delete or delete_batch on what was    *)
(* there, done at the rename; crashes and failing backups included, for     *)
(* units that do not overlap, while the file can be read and written.       *)
THEOREM ImplementsEntityStore ==
  ASSUME {"read", "write"} \cap Faults = {}
  PROVE  Spec /\ []OneUnitAtATime => EveryChangeIsOneOperation
  <1>1. Init => Entities!Init
    BY DEF Init, Entities!Init, Parsed, Empty
  <1>2. OneUnitAtATime /\ OneOpInv /\ [Next]_vars => OneOpInv' /\ [Entities!Next]_(Parsed(file))
    BY NextOneOpInv
  <1> QED BY InitOneOpInv, <1>1, <1>2, PTL DEF Spec, EveryChangeIsOneOperation, Entities!Spec
=============================================================================
