------------------------------ MODULE AMICache ------------------------------
(***************************************************************************)
(* The resolution of image parameters to AMIs                              *)
(* (providers/aws/infrastructure/template/caching_ami_resolver.py) and its *)
(* cache in memory and in a file (ami_cache.py), in several processes:     *)
(* every command of the plugin is one, and all share the working directory.*)
(*                                                                         *)
(* A save writes the whole memory to <file>.tmp and renames that to <file>:*)
(* all processes use the same two names.  An open file outlives its names, *)
(* so what a handle refers to is tracked: the file named .tmp, the file    *)
(* that has been renamed meanwhile, or one without a name, whose content   *)
(* nobody can read.  The content is written in two parts, as the buffer of *)
(* the file is filled.  Bytes of two writers in one file are no longer     *)
(* what either of them wrote: the parts meet anywhere, also inside an      *)
(* entry.                                                                  *)
(***************************************************************************)
EXTENDS Integers, FiniteSets

CONSTANTS
    Process,
    Param,    \* the SSM parameters the templates name
    Image,    \* AMI ids
    Published, \* [Param -> SUBSET Image]: what SSM may answer for a parameter
    TTL,      \* _ttl_seconds
    Garbled,  \* what may be read from a file with bytes of two writers
    NoEntry, NoParam, Unwritten, Mixed, Absent,
    MaxTime,   \* bound on the clock
    MaxAnswers \* bound on the answers of SSM

Entry  == [image : Image, at : Nat]
Memory == [Param -> Entry \union {NoEntry}]
Empty  == [q \in Param |-> NoEntry]

Answer  == [param : Param, image : Image, at : Nat]

(* A file is empty, has the first part of what a process writes, has all   *)
(* of what one process wrote, or bytes of several.                         *)
Content == {Unwritten, Mixed} \union Process \union Memory
Handle  == {"none", "tmp", "file", "unnamed"}

ASSUME AMICacheAssumption ==
    /\ TTL \in Nat /\ MaxTime \in Nat /\ MaxAnswers \in Nat
    /\ Published \in [Param -> SUBSET Image]
    /\ Garbled \subseteq Memory
    /\ NoEntry \notin Entry
    /\ NoParam \notin Param
    /\ \A p \in Process : p \notin Memory
    /\ {Unwritten, Mixed} \cap Process = {} /\ Unwritten # Mixed
    /\ Unwritten \notin Memory /\ Mixed \notin Memory /\ Absent \notin Content

VARIABLES
    now,      \* time.time()
    file,     \* the content of the persistent file
    tmp,      \* the content of the file named .tmp
    pc,       \* where each process is
    mem,      \* RuntimeAMICache._cache with its metadata
    arg,      \* the parameter it looks up, NoParam when it has an answer
    handle,   \* what its open file is
    \* what happened
    answers,  \* what SSM answered, and when
    shared,   \* two processes have run at the same time
    garbled,  \* something was read from a file with bytes of two writers
    faulty    \* a save has failed or was interrupted

disk    == <<file, tmp>>
process == <<pc, mem, arg, handle>>
history == <<answers, shared, garbled, faulty>>
vars    == <<now, disk, process, history>>

Place == {"off", "idle", "lookup", "ask", "open", "write", "writeRest", "rename"}

Init ==
    /\ now = 0
    /\ file = Absent /\ tmp = Absent
    /\ pc = [p \in Process |-> "off"]
    /\ mem = [p \in Process |-> Empty]
    /\ arg = [p \in Process |-> NoParam]
    /\ handle = [p \in Process |-> "none"]
    /\ answers = {}
    /\ shared = FALSE /\ garbled = FALSE /\ faulty = FALSE

Goto(p, place) == pc' = [pc EXCEPT ![p] = place]

-----------------------------------------------------------------------------
(* Plausible faults of the code, each in place of the operation it names.  *)

(* _load_from_persistent_cache: < for <= *)
Loaded_YoungerOnly(m) == [q \in Param |->
    IF m[q] # NoEntry /\ now - m[q].at < TTL THEN m[q] ELSE NoEntry]

(* get: an entry lives one unit longer than the file's *)
Expired_OneLater(e) == e # NoEntry /\ now - e.at > TTL + 1

(* _save_to_persistent_cache: the data go to the file itself *)
Open_InPlace(p) ==
    /\ pc[p] = "open"
    /\ file' = Unwritten
    /\ handle' = [handle EXCEPT ![p] = "file"]
    /\ Goto(p, "write")
    /\ UNCHANGED <<now, tmp, mem, arg, history>>

(* The part after `before` is written through the handle of p, and makes   *)
(* the content what `after` says if nobody else has written meanwhile.     *)
Write(p, before, after) ==
    /\ tmp' = IF handle[p] # "tmp" THEN tmp ELSE IF tmp = before THEN after ELSE Mixed
    /\ file' = IF handle[p] # "file" THEN file ELSE IF file = before THEN after ELSE Mixed

(* _save_to_persistent_cache: the file is not closed before the rename *)
WriteRest_StaysOpen(p) ==
    /\ pc[p] = "writeRest"
    /\ Write(p, p, mem[p])
    /\ Goto(p, "rename")
    /\ UNCHANGED <<now, mem, arg, handle, history>>

-----------------------------------------------------------------------------
(* The filter of the entries of a file that could be parsed *)
Loaded(m) == [q \in Param |->
    IF m[q] # NoEntry /\ now - m[q].at <= TTL THEN m[q] ELSE NoEntry]

Whole(c) == c \in Memory

(* What json.load may find: nothing where it cannot parse the content, as  *)
(* a part or a torn file, unless the bytes of two writers happen to fit:   *)
(* then a parameter may have the image or the time of another, or a time   *)
(* nobody wrote.                                                           *)
Readings(c) ==
    IF c # Absent /\ Whole(c) THEN {c}
    ELSE IF c = Mixed THEN {Empty} \union Garbled
    ELSE {Empty}

(* RuntimeAMICache() in a new process *)
Start(p) ==
    /\ pc[p] = "off"
    /\ \E m \in Readings(file) :
         /\ mem' = [mem EXCEPT ![p] = Loaded(m)]
         /\ garbled' = (garbled \/ (file = Mixed /\ m # Empty))
    /\ Goto(p, "idle")
    /\ shared' = (shared \/ \E u \in Process : pc[u] # "off")
    /\ UNCHANGED <<now, disk, arg, handle, answers, faulty>>

(* _batch_resolve_amis: the parameters of the templates, in any order *)
Take(p, q) ==
    /\ pc[p] = "idle"
    /\ arg' = [arg EXCEPT ![p] = q]
    /\ Goto(p, "lookup")
    /\ UNCHANGED <<now, disk, mem, handle, history>>

Expired(e) == e # NoEntry /\ now - e.at > TTL

Cached(p) == mem[p][arg[p]]

Finish(p) == arg' = [arg EXCEPT ![p] = NoParam]

(* resolve_with_fallback: the cache has it *)
Hit(p) ==
    /\ pc[p] = "lookup"
    /\ Cached(p) # NoEntry
    /\ ~Expired(Cached(p))
    /\ Finish(p)
    /\ Goto(p, "idle")
    /\ UNCHANGED <<now, disk, mem, handle, history>>

(* get: the entry has expired, is removed, and that is saved *)
RemoveExpired(p) ==
    /\ pc[p] = "lookup"
    /\ Expired(Cached(p))
    /\ mem' = [mem EXCEPT ![p][arg[p]] = NoEntry]
    /\ Goto(p, "open")
    /\ UNCHANGED <<now, disk, arg, handle, history>>

(* A parameter that failed before is asked for like any other. *)
Unknown(p) ==
    /\ pc[p] = "lookup"
    /\ Cached(p) = NoEntry
    /\ Goto(p, "ask")
    /\ UNCHANGED <<now, disk, mem, arg, handle, history>>

(* SSM has an image for the parameter: set *)
Answered(p, i) ==
    /\ pc[p] = "ask"
    /\ i \in Published[arg[p]]
    /\ Cardinality(answers) < MaxAnswers
    /\ answers' = answers \union {[param |-> arg[p], image |-> i, at |-> now]}
    /\ mem' = [mem EXCEPT ![p][arg[p]] = [image |-> i, at |-> now]]
    /\ Finish(p)
    /\ Goto(p, "open")
    /\ UNCHANGED <<now, disk, handle, shared, garbled, faulty>>

(* SSM fails, or has no AMI there: mark_failed saves too, and the template *)
(* keeps the parameter (fallback_on_failure), or nobody is answered.       *)
NoAnswer(p) ==
    /\ pc[p] = "ask"
    /\ Finish(p)
    /\ Goto(p, "open")
    /\ UNCHANGED <<now, disk, mem, handle, history>>

-----------------------------------------------------------------------------
AfterSave(p) == Goto(p, IF arg[p] = NoParam THEN "idle" ELSE "lookup")

(* open(tmp, "w") makes the file, or empties the one that has the name *)
Open(p) ==
    /\ pc[p] = "open"
    /\ tmp' = Unwritten
    /\ handle' = [handle EXCEPT ![p] = "tmp"]
    /\ Goto(p, "write")
    /\ UNCHANGED <<now, file, mem, arg, history>>

(* json.dump: the buffer is full *)
WriteFirst(p) ==
    /\ pc[p] = "write"
    /\ Write(p, Unwritten, p)
    /\ Goto(p, "writeRest")
    /\ UNCHANGED <<now, mem, arg, handle, history>>

(* the rest, and the file is closed *)
WriteRest(p) ==
    /\ pc[p] = "writeRest"
    /\ Write(p, p, mem[p])
    /\ handle' = [handle EXCEPT ![p] = "none"]
    /\ Goto(p, "rename")
    /\ UNCHANGED <<now, mem, arg, history>>

(* os.rename: whatever has the name .tmp becomes the file, and those who   *)
(* write to it write to the file from now on.  If another process renamed  *)
(* it, that is an error nobody hears of.                                   *)
Rename(p) ==
    /\ pc[p] = "rename"
    /\ IF tmp = Absent THEN UNCHANGED <<disk, handle>>
       ELSE /\ file' = tmp
            /\ tmp' = Absent
            /\ handle' = [u \in Process |->
                    CASE handle[u] = "tmp"  -> "file"
                      [] handle[u] = "file" -> "unnamed"
                      [] OTHER -> handle[u]]
    /\ AfterSave(p)
    /\ UNCHANGED <<now, mem, arg, history>>

(* The disk refuses: the save is given up without a word. *)
SaveFails(p) ==
    /\ pc[p] \in {"open", "write", "writeRest", "rename"}
    /\ handle' = [handle EXCEPT ![p] = "none"]
    /\ faulty' = TRUE
    /\ AfterSave(p)
    /\ UNCHANGED <<now, disk, mem, arg, answers, shared, garbled>>

(* The process ends after a batch, or is stopped anywhere. *)
End(p) ==
    /\ pc[p] # "off"
    /\ Goto(p, "off")
    /\ mem' = [mem EXCEPT ![p] = Empty]
    /\ Finish(p)
    /\ handle' = [handle EXCEPT ![p] = "none"]
    /\ faulty' = (faulty \/ pc[p] \in {"open", "write", "writeRest", "rename"})
    /\ UNCHANGED <<now, disk, answers, shared, garbled>>

-----------------------------------------------------------------------------
Tick == now < MaxTime /\ now' = now + 1 /\ UNCHANGED <<disk, process, history>>

Save(p) == Open(p) \/ WriteFirst(p) \/ WriteRest(p) \/ Rename(p) \/ SaveFails(p)

Resolve(p) ==
    \/ Hit(p) \/ RemoveExpired(p) \/ Unknown(p) \/ NoAnswer(p)
    \/ \E i \in Image : Answered(p, i)

Run(p) ==
    \/ Start(p)
    \/ \E q \in Param : Take(p, q)
    \/ Resolve(p) \/ Save(p) \/ End(p)

Next ==
    \/ \E p \in Process : Run(p)
    \/ Tick

Spec == Init /\ [][Next]_vars

-----------------------------------------------------------------------------
(* Every variable has its type; a handle is open only in the with block    *)
(* and refers to a file that exists.                                       *)
TypeOK ==
    /\ now \in Nat
    /\ file \in Content \union {Absent} /\ tmp \in Content \union {Absent}
    /\ pc \in [Process -> Place]
    /\ mem \in [Process -> Memory]
    /\ arg \in [Process -> Param \union {NoParam}]
    /\ handle \in [Process -> Handle]
    /\ answers \subseteq Answer
    /\ shared \in BOOLEAN /\ garbled \in BOOLEAN /\ faulty \in BOOLEAN
    /\ \A p \in Process :
         /\ handle[p] = "tmp" => tmp # Absent
         /\ handle[p] = "file" => file # Absent
         /\ handle[p] # "none" => pc[p] \in {"write", "writeRest"}
         /\ pc[p] \in {"lookup", "ask"} => arg[p] \in Param

(* The step in which p gives its template the cached AMI. *)
Serves(p) == pc[p] = "lookup" /\ pc'[p] = "idle"

(* Whatever other processes write to the same files at the same time, and  *)
(* wherever they stop: as long as no file with bytes of two writers was    *)
(* taken for a good one, an AMI that is given for a parameter is what SSM  *)
(* answered for this parameter at most TTL earlier                         *)
(* (RuntimeAMICache.get, _load_from_persistent_cache).                     *)
ServedIsFresh ==
    [][\A p \in Process : (Serves(p) /\ ~garbled) =>
         \E a \in answers :
             /\ a.param = arg[p] /\ a.image = Cached(p).image
             /\ a.at <= now /\ now - a.at <= TTL]_vars

(* As long as no two processes have run at the same time, the file is a    *)
(* whole one, wherever processes stopped and saves failed                  *)
(* (_save_to_persistent_cache: temporary file, then rename).               *)
WholeUnlessShared == (~shared /\ file # Absent) => Whole(file)

Asks(p) == pc[p] # "ask" /\ pc'[p] = "ask"

(* Commands that run one after the other, without a failing save, ask SSM  *)
(* for a parameter again only when its last answer is older than TTL: what *)
(* one has learned, the next ones know.                                    *)
SequentialRunsAskOnce ==
    [][\A p \in Process :
         (Asks(p) /\ ~shared /\ ~faulty) =>
             \A a \in answers : a.param = arg[p] => now - a.at > TTL]_vars

=============================================================================
