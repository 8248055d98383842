---------------------------- MODULE TemplateStore ----------------------------
(* The templates of the program: one file that the user edits and that the   *)
(* scheduler strategy reads, the cache every process keeps of its listing    *)
(* (TTLTemplateCacheService), and the edits of the persistence service, which *)
(* read the file, change one template and write the file anew in place.      *)
(*                                                                           *)
(* A load is two steps: the file is read first, then the AMI parameters of   *)
(* its templates are asked of SSM, which takes time, and only then is the    *)
(* listing cached and stamped.  The file may change in between.              *)
(*                                                                           *)
(* A listing says which version of each template is listed.  Time is kept as *)
(* ages that stop growing where they cease to matter, so it needs no bound;  *)
(* a load takes MaxLoad units of time at most.                               *)
(*                                                                           *)
(* The default scheduler reads templates in the form the program writes;     *)
(* the Host Factory scheduler reads the camelCase form of the user's file,   *)
(* and to it a template in the written form has no identifier.               *)
EXTENDS Integers

CONSTANTS Process, Template, Version, TTL,
          MaxLoad,  \* bound: how long a load may take
          None,     \* the template is not listed
          NoCache, NoLoad, NoEdit, NoAnswer, Nobody, Unknown,
          Absent,   \* there is no file
          Torn      \* the file does not parse

Listing  == [Template -> Version \union {None}]
Empty    == [t \in Template |-> None]
Contents == [entries : Listing, form : {"native", "hf"}]
Edits    == [at : {"opening", "writing"}, template : Template,
             entries : Listing, alone : BOOLEAN]
Took     == 0 .. MaxLoad
Loads    == [list : Listing, took : Took]

ASSUME TTLAssumption == TTL \in Nat \ {0}
ASSUME MaxLoadAssumption == MaxLoad \in Nat
ASSUME NamesAssumption ==
    /\ None \notin Version
    /\ Nobody \notin Process
    /\ Unknown \notin Listing
    /\ NoEdit \notin Edits
    /\ {Absent, Torn} \intersect Contents = {}

VARIABLES
    scheduler,  \* the strategy the configuration selects
    file,
    cache,      \* _cached_templates and their age, of every process, and how
                \* long it took to load them
    load,       \* the listing that a process has read and not yet answered
    edit,       \* the save or delete under way in a process
    answer,     \* of the listing that the last step answered: how long ago
                \* the file gave it up, and how long it took to load
    gone,       \* how long ago the file last had what a process caches or loads
    wanted,     \* the listing that the edits made so far add up to, Unknown
                \* when one of them met another or was interrupted
    author      \* the process that made the last complete edit of the file

vars == <<scheduler, file, cache, load, edit, answer, gone, wanted, author>>

Age  == 0 .. TTL - 1
Gone == 0 .. TTL + MaxLoad

OwnForm == IF scheduler = "default" THEN "native" ELSE "hf"

\* Mutant of Listed: no listing at all when the file cannot be read.
Listed_Nothing(f) ==
    IF f \in {Absent, Torn} THEN None
    ELSE IF f.form = OwnForm THEN f.entries ELSE Empty

\* What the scheduler's load_templates_from_path and the conversion to DTOs
\* make of a file: every failure is an empty listing.
Listed(f) ==
    IF f \in {Absent, Torn} THEN Empty
    ELSE IF f.form = OwnForm THEN f.entries ELSE Empty

UsersFiles == {Absent} \union [entries : Listing, form : {OwnForm}]

-----------------------------------------------------------------------------
\* Mutant of Valid: a listing is served for one more unit of time.
Valid_OneLater(age) == age <= TTL

\* _is_cache_valid, of a listing that was stamped so long ago.
Valid(age) == age < TTL

Cached(p)  == cache[p] # NoCache
Loading(p) == load[p] # NoLoad

\* The listing that p caches or loads is not the one of f.
Stale(p, f) ==
    \/ Cached(p) /\ cache[p].list # Listed(f)
    \/ Loading(p) /\ load[p].list # Listed(f)

FileBecomes(f) ==
    /\ file' = f
    /\ gone' = [p \in Process |-> IF Stale(p, f) THEN gone[p] ELSE 0]

Init ==
    /\ scheduler \in {"default", "hostfactory"}
    /\ file \in UsersFiles
    /\ cache = [p \in Process |-> NoCache]
    /\ load = [p \in Process |-> NoLoad]
    /\ edit = [p \in Process |-> NoEdit]
    /\ answer = NoAnswer
    /\ gone = [p \in Process |-> 0]
    /\ wanted = Listed(file)
    /\ author = Nobody

Idle(p)    == edit[p] = NoEdit
Free(p)    == Idle(p) /\ ~Loading(p)
Editing(p) == edit[p] # NoEdit
Writing(p) == Editing(p) /\ edit[p].at = "writing"

\* _load_templates_from_scheduler reads the file...
BeginLoad(p) ==
    /\ load' = [load EXCEPT ![p] = [list |-> Listed(file), took |-> 0]]
    /\ gone' = [gone EXCEPT ![p] = 0]
    /\ answer' = NoAnswer

\* get_or_load: the lock is held around the loader as well.
Load(p) ==
    /\ Free(p)
    /\ IF Cached(p)
       THEN /\ answer' = [gone |-> gone[p], took |-> cache[p].took]
            /\ UNCHANGED <<load, gone>>
       ELSE BeginLoad(p)
    /\ UNCHANGED <<scheduler, file, cache, edit, wanted, author>>

\* The template queries, GetTemplateHandler and ListTemplatesHandler, and the
\* refresh commands: handle_refresh_templates and POST /templates/refresh ask
\* the list query.
Get(p)     == Load(p)
Refresh(p) == Load(p)

\* load_templates(force_refresh=True): invalidate, then get_or_load.
Reload(p) ==
    /\ Free(p)
    /\ BeginLoad(p)
    /\ cache' = [cache EXCEPT ![p] = NoCache]
    /\ UNCHANGED <<scheduler, file, edit, wanted, author>>

\* ... and resolves the AMIs.  Then the listing is cached, stamped with the
\* time of now, and answered.
FinishLoad(p) ==
    /\ Loading(p)
    /\ cache' = [cache EXCEPT ![p] = [list |-> load[p].list, age |-> 0,
                                      took |-> load[p].took]]
    /\ load' = [load EXCEPT ![p] = NoLoad]
    /\ answer' = [gone |-> gone[p], took |-> load[p].took]
    /\ UNCHANGED <<scheduler, file, edit, gone, wanted, author>>

\* invalidate: clear_cache, the end of an edit, and a new process.
Forget(p) ==
    /\ cache' = [cache EXCEPT ![p] = NoCache]
    /\ answer' = NoAnswer

Clear(p) ==
    /\ Free(p)
    /\ Forget(p)
    /\ UNCHANGED <<scheduler, file, load, edit, gone, wanted, author>>

-----------------------------------------------------------------------------
\* Mutant of Changed: the file is not read first.
Changed_Alone(t, v) == [Empty EXCEPT ![t] = v]

\* save_template and delete_template read the file past the cache and change
\* one template of what they can read; what they cannot read is not kept.
Changed(t, v) == [Listed(file) EXCEPT ![t] = v]

BeginEdit(p, t, v) ==
    /\ Free(p)
    /\ edit' = [edit EXCEPT ![p] = [at |-> "opening", template |-> t,
                                    entries |-> Changed(t, v), alone |-> TRUE]]
    /\ wanted' = IF \A q \in Process : Idle(q) THEN wanted ELSE Unknown
    /\ answer' = NoAnswer
    /\ UNCHANGED <<scheduler, file, cache, load, gone, author>>

BeginSave(p, t, v) == BeginEdit(p, t, v)

\* "Template not found in source file" otherwise.
BeginDelete(p, t) == Listed(file)[t] # None /\ BeginEdit(p, t, None)

\* open(file_path, "w") empties the file.  Two writers see each other's
\* truncation and fragments from here on.
Open(p) ==
    /\ Editing(p) /\ edit[p].at = "opening"
    /\ FileBecomes(Torn)
    /\ edit' = [q \in Process |->
                  IF q = p
                  THEN [edit[p] EXCEPT !.at = "writing",
                                       !.alone = \A r \in Process : ~Writing(r)]
                  ELSE IF Writing(q) THEN [edit[q] EXCEPT !.alone = FALSE]
                  ELSE edit[q]]
    /\ answer' = NoAnswer
    /\ UNCHANGED <<scheduler, cache, load, wanted, author>>

\* Mutant of WriteDone: the cache is not invalidated.
WriteDone_KeepsCache(p) ==
    /\ Writing(p)
    /\ LET written == [entries |-> edit[p].entries, form |-> "native"] IN
       \E f \in IF edit[p].alone THEN {written} ELSE {written, Torn, file} :
           FileBecomes(f)
    /\ edit' = [edit EXCEPT ![p] = NoEdit]
    /\ LET t == edit[p].template IN
       wanted' = IF wanted = Unknown THEN Unknown
                 ELSE [wanted EXCEPT ![t] = edit[p].entries[t]]
    /\ author' = p
    /\ answer' = NoAnswer
    /\ UNCHANGED <<scheduler, cache, load>>

\* The rest of the write, the close and the invalidation of the cache.
WriteDone(p) ==
    /\ Writing(p)
    /\ LET written == [entries |-> edit[p].entries, form |-> "native"] IN
       \E f \in IF edit[p].alone THEN {written} ELSE {written, Torn, file} :
           FileBecomes(f)
    /\ edit' = [edit EXCEPT ![p] = NoEdit]
    /\ Forget(p)
    /\ LET t == edit[p].template IN
       wanted' = IF wanted = Unknown THEN Unknown
                 ELSE [wanted EXCEPT ![t] = edit[p].entries[t]]
    /\ author' = p
    /\ UNCHANGED <<scheduler, load>>

\* An edit ends before it is complete; once the file was opened it shows.
Interrupted(p) ==
    /\ edit' = [edit EXCEPT ![p] = NoEdit]
    /\ wanted' = IF Writing(p) THEN Unknown ELSE wanted
    /\ author' = IF Writing(p) THEN Nobody ELSE author

\* The open or the write raises: the cache is not invalidated.
EditFails(p) ==
    /\ Editing(p)
    /\ \E f \in IF Writing(p) THEN {file, Torn} ELSE {file} : FileBecomes(f)
    /\ Interrupted(p)
    /\ answer' = NoAnswer
    /\ UNCHANGED <<scheduler, cache, load>>

\* The process is stopped and started again.
Restart(p) ==
    /\ Interrupted(p)
    /\ Forget(p)
    /\ load' = [load EXCEPT ![p] = NoLoad]
    /\ UNCHANGED <<scheduler, file, gone>>

-----------------------------------------------------------------------------
\* The user replaces or removes the file.
UserEdit ==
    /\ \E f \in UsersFiles :
         /\ FileBecomes(f)
         /\ wanted' = IF \A p \in Process : Idle(p) THEN Listed(f) ELSE Unknown
    /\ edit' = [p \in Process |->
                  IF Writing(p) THEN [edit[p] EXCEPT !.alone = FALSE] ELSE edit[p]]
    /\ author' = Nobody
    /\ answer' = NoAnswer
    /\ UNCHANGED <<scheduler, cache, load>>

Longer(g) == IF g < TTL + MaxLoad THEN g + 1 ELSE g

\* A listing that expires leaves the cache: the code keeps it until the next
\* load, and does not look at it again.
Tick ==
    /\ \A p \in Process : Loading(p) => load[p].took < MaxLoad
    /\ cache' = [p \in Process |->
                   IF Cached(p) /\ Valid(cache[p].age + 1)
                   THEN [cache[p] EXCEPT !.age = @ + 1] ELSE NoCache]
    /\ load' = [p \in Process |->
                  IF Loading(p) THEN [load[p] EXCEPT !.took = @ + 1] ELSE NoLoad]
    /\ gone' = [p \in Process |-> IF Stale(p, file) THEN Longer(gone[p]) ELSE 0]
    /\ answer' = NoAnswer
    /\ UNCHANGED <<scheduler, file, edit, wanted, author>>

Query(p) ==
    \/ Get(p) \/ Refresh(p) \/ Reload(p) \/ FinishLoad(p) \/ Clear(p)

Persist(p) ==
    \/ \E t \in Template, v \in Version : BeginSave(p, t, v)
    \/ \E t \in Template : BeginDelete(p, t)
    \/ Open(p) \/ WriteDone(p) \/ EditFails(p) \/ Restart(p)

Next == (\E p \in Process : Query(p) \/ Persist(p)) \/ UserEdit \/ Tick

Spec == Init /\ [][Next]_vars

-----------------------------------------------------------------------------
\* The types of the state: ages stay within the time to live, no load is under
\* way for longer than its bound, and an edit is at one of its two steps.
TypeOK ==
    /\ scheduler \in {"default", "hostfactory"}
    /\ file \in {Absent, Torn} \union Contents
    /\ cache \in [Process -> {NoCache} \union [list : Listing, age : Age, took : Took]]
    /\ load \in [Process -> {NoLoad} \union Loads]
    /\ edit \in [Process -> {NoEdit} \union Edits]
    /\ answer \in {NoAnswer} \union [gone : Gone, took : Took]
    /\ gone \in [Process -> Gone]
    /\ wanted \in Listing \union {Unknown}
    /\ author \in Process \union {Nobody}

\* How old an answer may be: whoever edits the file, also while a process
\* loads it, the file had the listing that a query answers at some time within
\* the TTL of the cache and the time that this listing took to load.
ServedIsRecent == answer # NoAnswer => answer.gone < TTL + answer.took

\* A process sees its own edits at once: after it completed the last edit of
\* the file, what it has in its cache is what the file has.
OwnEditsAreSeen ==
    \A p \in Process :
        author = p /\ Idle(p) /\ Cached(p) /\ (\A q \in Process : ~Writing(q))
            => cache[p].list = Listed(file)

\* Edits made one after the other add up: under the default scheduler, when
\* no edit met another one or was cut short, the file lists every template in
\* the version last saved, and no save or delete took another template along.
EditsAreKept ==
    scheduler = "default" /\ wanted # Unknown /\ (\A p \in Process : ~Writing(p))
        => Listed(file) = wanted
=============================================================================
