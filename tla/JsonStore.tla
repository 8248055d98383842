------------------------------ MODULE JsonStore ------------------------------
(***************************************************************************)
(* JSONStorageStrategy (persistence/json/strategy.py) over FileManager     *)
(* (persistence/components/file_manager.py).                               *)
(*                                                                         *)
(* A unit of work builds a strategy object of its own, with its own cache  *)
(* and its own lock (json/unit_of_work.py), and units run in several       *)
(* processes; so the strategies below share nothing but the data file and  *)
(* its backups, and the lock of a strategy orders only that strategy's own *)
(* operations: each is at one place, pc, at a time.                        *)
(***************************************************************************)
EXTENDS Integers, Sequences

CONSTANTS
    Strategy,     \* JSONStorageStrategy objects on one data file
    Key, Value,   \* entity ids and entity data
    BatchOf,      \* the sets of entity ids that one operation may name
    BackupCount,  \* FileManager.backup_count
    MaxOps,       \* bound on the operations that change data
    Faults        \* what may fail: subset of {"read", "write", "backup", "crash"}

CONSTANTS
    Absent,       \* no entity under this id
    NoFile,       \* the data file does not exist
    Torn,         \* a file cut short, which does not parse as JSON
    NoData        \* self._data_cache is None

Content == [Key -> Value \cup {Absent}]
Empty == [k \in Key |-> Absent]

ASSUME JsonStoreAssumption ==
    /\ Absent \notin Value
    /\ {NoFile, Torn, NoData} \cap Content = {}
    /\ Torn \notin {NoFile, NoData}
    /\ BatchOf \subseteq SUBSET Key
    /\ BackupCount \in Nat \ {0}
    /\ MaxOps \in Nat

VARIABLES
    file,     \* the data file
    backups,  \* its backup files, newest first
    pc,       \* where the current operation of each strategy is
    op,       \* that operation
    work,     \* all_data, the dictionary it works on
    cache,    \* self._data_cache
    valid,    \* self._cache_valid
    ops,      \* how many changing operations were called (bound only)
    acked,    \* history: the entities as the operations that returned left them
    pending   \* history: per entity, the data of operations not yet known to be done

store == <<file, backups>>
memory == <<work, cache, valid>>
history == <<acked, pending>>
vars == <<file, backups, pc, op, work, cache, valid, ops, acked, pending>>

Op == [kind : {"none", "save", "delete", "delete_batch", "find"},
       keys : SUBSET Key, data : Value \cup {Absent}]
NoOp == [kind |-> "none", keys |-> {}, data |-> Absent]

Init ==
    /\ file = NoFile
    /\ backups = << >>
    /\ pc = [s \in Strategy |-> "idle"]
    /\ op = [s \in Strategy |-> NoOp]
    /\ work = [s \in Strategy |-> NoData]
    /\ cache = [s \in Strategy |-> NoData]
    /\ valid = [s \in Strategy |-> FALSE]
    /\ ops = 0
    /\ acked = Empty
    /\ pending = [k \in Key |-> {}]

-----------------------------------------------------------------------------
(* The effect of an operation on the dictionary, and what a file reads as.  *)

Apply(o, data) == [k \in Key |-> IF k \in o.keys THEN o.data ELSE data[k]]

(* read_file and deserialize: a missing file reads as no entities.          *)
Parsed(content) == IF content = NoFile THEN Empty ELSE content

(* _cleanup_old_backups: the newest BackupCount files are kept.  When it    *)
(* stops on the way or cannot remove a file, older ones are left.           *)
Newest(files) == SubSeq(files, 1, IF Len(files) < BackupCount THEN Len(files) ELSE BackupCount)
LeftOf(files) ==
    {Newest(files) \o SubSeq(files, i, Len(files)) : i \in Len(Newest(files)) + 1 .. Len(files) + 1}

(* The backups and a new one, by time.  A copy has the time of the data     *)
(* file, so one that was cut short later, and has its own, sorts before it. *)
(* A backup made within the second of another has its name and replaces it. *)
InFront(content) ==
    {<<content>> \o rest : rest \in {backups} \cup IF backups = << >> THEN {} ELSE {Tail(backups)}}
Behind(content) ==
    {SubSeq(backups, 1, i) \o <<content>> \o SubSeq(backups, i + 1, Len(backups)) :
        i \in 1 .. Len(backups)}
WithCopy == InFront(file) \cup Behind(file)

(* Where a finished operation leaves its strategy. *)
Done(s) ==
    /\ pc' = [pc EXCEPT ![s] = "idle"]
    /\ op' = [op EXCEPT ![s] = NoOp]

(* The operation goes on with data, which it changes in place: data is the  *)
(* cached dictionary itself when isCached.  delete of an entity that is not *)
(* there returns, find returns what it found.                               *)
Continue(s, data, isCached) ==
    LET result == Apply(op[s], data)
        returns == \/ op[s].kind = "find"
                   \/ op[s].kind = "delete" /\ \E k \in op[s].keys : data[k] = Absent
    IN IF returns
       THEN /\ Done(s)
            /\ work' = [work EXCEPT ![s] = NoData]
            /\ cache' = IF isCached THEN [cache EXCEPT ![s] = data] ELSE cache
            /\ UNCHANGED history
       ELSE /\ pc' = [pc EXCEPT ![s] = "backup"]
            /\ work' = [work EXCEPT ![s] = result]
            /\ cache' = IF isCached THEN [cache EXCEPT ![s] = result] ELSE cache
            /\ pending' = [k \in Key |-> IF k \in op[s].keys
                                         THEN pending[k] \cup {op[s].data} ELSE pending[k]]
            /\ UNCHANGED <<op, acked>>

(* Raising PersistenceError leaves memory as it is.                         *)
Raise(s) ==
    /\ Done(s)
    /\ work' = [work EXCEPT ![s] = NoData]
    /\ UNCHANGED <<cache, valid>>

-----------------------------------------------------------------------------
(* Operations *)

(* save, save_batch, delete, delete_batch, find_by_id and the other reads   *)
Call(s, o) ==
    /\ pc[s] = "idle"
    /\ o.kind # "find" => ops < MaxOps /\ ops' = ops + 1
    /\ o.kind = "find" => UNCHANGED ops
    /\ pc' = [pc EXCEPT ![s] = "load"]
    /\ op' = [op EXCEPT ![s] = o]
    /\ UNCHANGED <<store, memory, history>>

Calls ==
    {o \in Op : /\ o.keys \in BatchOf /\ o.keys # {}
                /\ \/ o.kind = "save" /\ o.data # Absent
                   \/ o.kind \in {"delete", "delete_batch", "find"} /\ o.data = Absent
                /\ o.kind = "delete" => \E k \in Key : o.keys = {k}}

(* _load_data answers from the cache *)
LoadCached(s) ==
    /\ pc[s] = "load"
    /\ valid[s]
    /\ Continue(s, cache[s], TRUE)
    /\ UNCHANGED <<store, valid, ops>>

(* _load_data reads the file and caches what it read *)
LoadFile(s) ==
    /\ pc[s] = "load"
    /\ ~valid[s]
    /\ file # Torn
    /\ Continue(s, Parsed(file), TRUE)
    /\ valid' = [valid EXCEPT ![s] = TRUE]
    /\ UNCHANGED <<store, ops>>

LoadFails(s) == pc[s] = "load" /\ ~valid[s] /\ (file = Torn \/ "read" \in Faults)

(* recover_from_backup copies the newest backup over the data file: the     *)
(* copy truncates it first, so until the copy ends it is empty or does not  *)
(* parse                                                                    *)
StartRecovery(s) ==
    /\ LoadFails(s)
    /\ backups # << >>
    /\ file' \in {Torn, Empty}
    /\ work' = [work EXCEPT ![s] = Head(backups)]
    /\ pc' = [pc EXCEPT ![s] = "recover"]
    /\ UNCHANGED <<backups, op, cache, valid, ops, history>>

(* Fault: the copy goes to the data file of now, not the one it opened      *)
EndRecovery_StillWrites(s) ==
    /\ pc[s] = "recover"
    /\ file' = work[s]
    /\ work' = [work EXCEPT ![s] = NoData]
    /\ pc' = [pc EXCEPT ![s] = "load"]
    /\ UNCHANGED <<backups, op, cache, valid, ops, history>>

(* The copy ends, and _load_data starts again.  A file renamed over the     *)
(* data file meanwhile is not the one the copy writes to (see WriteFile)    *)
EndRecovery(s) ==
    /\ pc[s] = "recover"
    /\ file' = IF work[s] = NoData THEN file ELSE work[s]
    /\ work' = [work EXCEPT ![s] = NoData]
    /\ pc' = [pc EXCEPT ![s] = "load"]
    /\ UNCHANGED <<backups, op, cache, valid, ops, history>>

(* Reading fails again and again, after every recovery: _load_data recurses *)
(* until the interpreter refuses, and the operation fails                   *)
RecursionLimit(s) ==
    /\ LoadFails(s)
    /\ backups # << >> /\ file = Head(backups)
    /\ Raise(s)
    /\ UNCHANGED <<store, ops, history>>

(* "No backup available, starting with empty data", which is not cached:    *)
(* there is no backup, copying it fails as well, or recover_from_backup     *)
(* itself runs into the recursion limit and takes it for a failed copy      *)
StartEmpty(s) ==
    /\ LoadFails(s)
    /\ ~(backups # << >> /\ Head(backups) # file /\ "backup" \notin Faults)
    /\ Continue(s, Empty, FALSE)
    /\ UNCHANGED <<store, valid, ops>>

(* Fault: the data file is moved to the backup, not copied                  *)
CreateBackup_Moves(s) ==
    /\ pc[s] = "backup"
    /\ \/ file = NoFile /\ UNCHANGED backups
       \/ file # NoFile /\ \E files \in WithCopy : backups' = Newest(files)
    /\ file' = NoFile
    /\ pc' = [pc EXCEPT ![s] = "write"]
    /\ UNCHANGED <<op, memory, ops, history>>

(* create_backup does not get to its end: the copy is cut short, empty or   *)
(* not a JSON document, or it is made and the cleanup is not, or not all    *)
BackupStops ==
    /\ file # NoFile
    /\ \/ \E cut \in {Torn, Empty} : backups' \in InFront(cut)
       \/ \E files \in WithCopy : backups' \in LeftOf(files)

(* create_backup, whose errors are only logged                              *)
CreateBackup(s) ==
    /\ pc[s] = "backup"
    /\ \/ file = NoFile /\ UNCHANGED backups
       \/ file # NoFile /\ \E files \in WithCopy : backups' = Newest(files)
       \/ "backup" \in Faults /\ (UNCHANGED backups \/ BackupStops)
    /\ pc' = [pc EXCEPT ![s] = "write"]
    /\ UNCHANGED <<file, op, memory, ops, history>>

(* Fault: save_batch writes the entities one by one and keeps the cache     *)
WriteFile_OneOfBatch(s) ==
    /\ pc[s] = "write"
    /\ \E k \in op[s].keys : file' = Apply([op[s] EXCEPT !.keys = {k}], Parsed(file))
    /\ valid' = [valid EXCEPT ![s] = TRUE]
    /\ work' = [work EXCEPT ![s] = NoData]
    /\ Done(s)
    /\ UNCHANGED <<backups, cache, ops, history>>

(* write_file renames a complete temporary file over the data file, which   *)
(* takes it from under a recovery that is still copying; the operation      *)
(* invalidates the cache and returns                                        *)
WriteFile(s) ==
    /\ pc[s] = "write"
    /\ file' = work[s]
    /\ cache' = [cache EXCEPT ![s] = work[s]]
    /\ valid' = [valid EXCEPT ![s] = FALSE]
    /\ work' = [t \in Strategy |-> IF t = s \/ pc[t] = "recover" THEN NoData ELSE work[t]]
    /\ Done(s)
    /\ acked' = Apply(op[s], acked)
    /\ pending' = [k \in Key |-> IF k \in op[s].keys THEN {} ELSE pending[k]]
    /\ UNCHANGED <<backups, ops>>

(* The write fails and the temporary file is removed: the cache keeps the   *)
(* dictionary that was already changed, and stays valid if it was           *)
WriteFails(s) ==
    /\ pc[s] = "write"
    /\ "write" \in Faults
    /\ Raise(s)
    /\ UNCHANGED <<store, ops, history>>

(* The unit of work ends: the next one has a new strategy                   *)
NewUnit(s) ==
    /\ pc[s] = "idle"
    /\ cache[s] # NoData
    /\ cache' = [cache EXCEPT ![s] = NoData]
    /\ valid' = [valid EXCEPT ![s] = FALSE]
    /\ UNCHANGED <<store, pc, op, work, ops, history>>

(* Fault: the data file is written in place, so a crash cuts it short       *)
Crash_InPlace(s) ==
    /\ "crash" \in Faults
    /\ pc[s] = "write"
    /\ file' \in {Torn, Empty}
    /\ Done(s)
    /\ work' = [work EXCEPT ![s] = NoData]
    /\ cache' = [cache EXCEPT ![s] = NoData]
    /\ valid' = [valid EXCEPT ![s] = FALSE]
    /\ UNCHANGED <<backups, ops, history>>

(* The process stops: the copy or the recovery it was making stays as it    *)
(* is; between the rename and the return, the data is written               *)
Crash(s) ==
    /\ "crash" \in Faults
    /\ pc[s] # "idle"
    /\ \/ UNCHANGED store
       \/ pc[s] = "backup" /\ BackupStops /\ UNCHANGED file
       \/ /\ pc[s] = "write"
          /\ file' = work[s]
          /\ UNCHANGED backups
    /\ Done(s)
    /\ work' = [work EXCEPT ![s] = NoData]
    /\ cache' = [cache EXCEPT ![s] = NoData]
    /\ valid' = [valid EXCEPT ![s] = FALSE]
    /\ UNCHANGED <<ops, acked, pending>>

Next ==
    \E s \in Strategy :
        \/ \E o \in Calls : Call(s, o)
        \/ LoadCached(s) \/ LoadFile(s) \/ StartRecovery(s) \/ EndRecovery(s) \/ RecursionLimit(s) \/ StartEmpty(s)
        \/ CreateBackup(s) \/ WriteFile(s) \/ WriteFails(s)
        \/ NewUnit(s) \/ Crash(s)

Spec == Init /\ [][Next]_vars

-----------------------------------------------------------------------------
(* Properties *)

TypeOK ==
    /\ file \in Content \cup {NoFile, Torn}
    /\ backups \in Seq(Content \cup {Torn})
    /\ pc \in [Strategy -> {"idle", "load", "recover", "backup", "write"}]
    /\ op \in [Strategy -> Op]
    /\ work \in [Strategy -> Content \cup {Torn, NoData}]
    /\ cache \in [Strategy -> Content \cup {NoData}]
    /\ valid \in [Strategy -> BOOLEAN]
    /\ ops \in 0 .. MaxOps
    /\ acked \in Content
    /\ pending \in [Key -> SUBSET (Value \cup {Absent})]

(* The data file changes by whole operations: each change is one save,     *)
(* save_batch, delete or delete_batch applied to what the file held.  It   *)
(* is the "Each write operation is atomic at the file level" of the        *)
(* storage documentation, for units of work that run one after the other.  *)
Entities == INSTANCE EntityStore WITH entities <- Parsed(file)
EveryChangeIsOneOperation == Entities!Spec

(* What an operation that returned stored is in the file until another     *)
(* operation replaces it, through crashes, failed writes and new units.    *)
NothingAckedIsLost ==
    file # Torn => \A k \in Key : Parsed(file)[k] \in {acked[k]} \cup pending[k]

(* Ids that are only ever named together stay together, in the file and in *)
(* every backup: save_batch and delete_batch are all or nothing even when  *)
(* units race, crash and recover.                                          *)
NamedTogether(k, l) == \A keys \in BatchOf : k \in keys <=> l \in keys

Whole(content) == \A k, l \in Key : NamedTogether(k, l) => content[k] = content[l]

BatchAllOrNothing ==
    /\ file # Torn => Whole(Parsed(file))
    /\ \A i \in 1 .. Len(backups) : backups[i] # Torn => Whole(backups[i])

(* A valid cache is what the file holds, so reads see stored data only.    *)
CacheMatchesFile ==
    \A s \in Strategy : valid[s] /\ pc[s] \in {"idle", "load"} => cache[s] = Parsed(file)
=============================================================================
