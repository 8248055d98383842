---------------------------- MODULE Configuration ----------------------------
(* ConfigurationLoader and ConfigurationManager: a configuration is merged   *)
(* from the default file, the main file, the file of the command line and    *)
(* the environment, once, when it is first asked for; the manager keeps the  *)
(* merged dictionary, typed objects made from it and, apart from both, the   *)
(* AppConfig of a load of its own.                                           *)
(*                                                                           *)
(* A dictionary has sections; a section is a table of keys, or a value that  *)
(* is no table, or it is not there.                                          *)
EXTENDS Naturals

CONSTANTS Section, Key, Value,
          Unset,          \* the key or the section is not there
          Absent, Broken, \* no such file; a file that is not JSON
          NotLoaded,      \* nothing has been loaded or cached
          App,            \* the type AppConfig, made of all sections
          Written,        \* what the user may write into a file
          InitialDisks,   \* the files at the start
          Variables,      \* what each part of the environment may set
          MaxChanges      \* bound: edits of files, sets, updates and saves

Table == [Key -> Value \union {Unset}]
Conf  == [Section -> Table \union Value \union {Unset}]
File  == {"confdir/default", "confdir/main", "config/default", "config/main", "path"}

ASSUME ConstantsAssumption ==
    /\ Written \subseteq Conf
    /\ Variables \subseteq Conf
    /\ InitialDisks \subseteq [File -> Conf \union {Absent, Broken}]
    /\ MaxChanges \in Nat
ASSUME NamesAssumption ==
    /\ Unset \notin Value \union Table
    /\ Value \intersect Table = {}
    /\ {Absent, Broken, NotLoaded} \intersect Conf = {}
    /\ NotLoaded \notin Table
    /\ Absent # Broken
    /\ App \notin Section

VARIABLES
    confdir,   \* HF_PROVIDER_CONFDIR is set
    argument,  \* --config: "none", a "path" with a directory, the "name" of the main file
    direct,    \* what the variables of ENV_MAPPING set
    hfdirs,    \* what the HF_PROVIDER_*DIR and HF_TEMPLATE_* variables set
    disk,      \* the configuration files
    raw,       \* _raw_config
    app,       \* _app_config
    cache,     \* _config_cache
    loader,    \* _loader exists
    source,    \* the files that raw was loaded from
    wrote,     \* what set and update wrote since
    changes

environment == <<confdir, argument, direct, hfdirs>>
manager     == <<raw, app, cache, loader>>
vars == <<environment, disk, manager, source, wrote, changes>>

-----------------------------------------------------------------------------
\* _merge_config: tables are merged, anything else is replaced.
MergeNode(b, u) ==
    IF u = Unset THEN b
    ELSE IF b \in Table /\ u \in Table
         THEN [k \in Key |-> IF u[k] = Unset THEN b[k] ELSE u[k]]
         ELSE u

Merge(b, u) == [s \in Section |-> MergeNode(b[s], u[s])]

Nothing == [s \in Section |-> Unset]

\* _resolve_file_path: the provider's directory if the file is there, else
\* config/, whether it is there or not.
Default(d) == IF confdir /\ d["confdir/default"] # Absent
              THEN d["confdir/default"] ELSE d["config/default"]
Main(d)    == IF confdir /\ d["confdir/main"] # Absent
              THEN d["confdir/main"] ELSE d["config/main"]
Explicit(d) == IF argument = "path" THEN d["path"]
               ELSE IF argument = "name" THEN Main(d) ELSE Absent

Content(f) == IF f = Absent THEN Nothing ELSE f

\* Mutant of FromFiles: the main file is read last.
FromFiles_MainLast(d) ==
    Merge(Merge(Content(Default(d)), Content(Explicit(d))), Content(Main(d)))

FromFiles(d) == Merge(Merge(Content(Default(d)), Content(Main(d))), Content(Explicit(d)))

\* A variable for a key of a section that is no table cannot be stored.
Fits(c, e) == \A s \in Section : e[s] \in Table => c[s] \notin Value

\* ConfigurationLoader.load
Loads(d) ==
    /\ Broken \notin {Default(d), Main(d), Explicit(d)}
    /\ Fits(FromFiles(d), direct)
    /\ Fits(Merge(FromFiles(d), direct), hfdirs)

Loaded(d) == Merge(Merge(FromFiles(d), direct), hfdirs)

NoWrites == [s \in Section |-> [k \in Key |-> Unset]]

\* Mutant of Typed: a section that is no table is taken as it is.
Typed_AsItIs(c, type) == IF type = App THEN c ELSE c[type]

\* ConfigTypeConverter.get_typed: a section that is no table counts as empty.
Typed(c, type) ==
    IF type = App THEN c
    ELSE IF c[type] \in Table THEN c[type] ELSE [k \in Key |-> Unset]

NothingCached == [t \in Section \union {App} |-> NotLoaded]

-----------------------------------------------------------------------------
Init ==
    /\ confdir \in BOOLEAN
    /\ argument \in {"none", "path", "name"}
    /\ direct \in Variables /\ hfdirs \in Variables
    /\ disk \in InitialDisks
    /\ raw = NotLoaded /\ app = NotLoaded /\ cache = NothingCached
    /\ loader = FALSE
    /\ source = NotLoaded
    /\ wrote = NoWrites
    /\ changes = 0

\* _ensure_raw_config: what it answers, and what it does.  A load that raises
\* leaves all but the loader as it was.
Current == IF raw = NotLoaded THEN Loaded(disk) ELSE raw
Ensure ==
    /\ raw = NotLoaded => Loads(disk)
    /\ loader' = TRUE
    /\ source' = IF raw = NotLoaded THEN disk ELSE source

\* The first question finds files that cannot be loaded: it raises, and the
\* next one tries again.
LoadFails ==
    /\ raw = NotLoaded /\ ~Loads(disk)
    /\ loader' = TRUE
    /\ UNCHANGED <<environment, disk, raw, app, cache, source, wrote, changes>>

\* get, get_raw_config and the questions of the provider manager.
Get ==
    /\ Ensure /\ raw' = Current
    /\ UNCHANGED <<environment, disk, app, cache, wrote, changes>>

GetTyped(type) ==
    /\ cache[type] = NotLoaded
    /\ Ensure /\ raw' = Current
    /\ cache' = [cache EXCEPT ![type] = Typed(Current, type)]
    /\ UNCHANGED <<environment, disk, app, wrote, changes>>

\* app_config: a load of its own.
GetAppConfig ==
    /\ app = NotLoaded /\ Loads(disk)
    /\ app' = Loaded(disk)
    /\ loader' = TRUE
    /\ UNCHANGED <<environment, disk, raw, cache, source, wrote, changes>>

\* The bound on changes.
Change == changes < MaxChanges /\ changes' = changes + 1

\* set("section.key", v); where the section is no table it raises, which is Get.
SetKey(s, k, v) ==
    /\ Ensure
    /\ Current[s] \notin Value
    /\ raw' = [Current EXCEPT ![s] = [Typed(Current, s) EXCEPT ![k] = v]]
    /\ wrote' = [wrote EXCEPT ![s][k] = v]
    /\ cache' = NothingCached
    /\ Change
    /\ UNCHANGED <<environment, disk, app>>

\* Mutant of Update: the typed objects are kept.
Update_KeepsCache(s, k, v) ==
    LET table == [j \in Key |-> IF j = k THEN v ELSE Unset] IN
    /\ Ensure
    /\ raw' = Merge(Current, [Nothing EXCEPT ![s] = table])
    /\ wrote' = [wrote EXCEPT ![s][k] = v]
    /\ Change
    /\ UNCHANGED <<environment, disk, app, cache>>

\* update({"section": {"key": v}}) puts a table where there was none.
Update(s, k, v) ==
    LET table == [j \in Key |-> IF j = k THEN v ELSE Unset] IN
    /\ Ensure
    /\ raw' = Merge(Current, [Nothing EXCEPT ![s] = table])
    /\ wrote' = [wrote EXCEPT ![s][k] = v]
    /\ cache' = NothingCached
    /\ Change
    /\ UNCHANGED <<environment, disk, app>>

\* reload forgets everything; then it raises if there is a loader, which has
\* no reload method.
Reload ==
    /\ raw' = NotLoaded /\ app' = NotLoaded /\ cache' = NothingCached
    /\ source' = NotLoaded /\ wrote' = NoWrites
    /\ UNCHANGED <<environment, disk, loader, changes>>

\* save(path) writes the dictionary over a configuration file.
Save(f) ==
    /\ Ensure /\ raw' = Current
    /\ disk' = [disk EXCEPT ![f] = Current]
    /\ Change
    /\ UNCHANGED <<environment, app, cache, wrote>>

\* The user edits, breaks or removes a file.
Edit(f) ==
    /\ \E c \in Written \union {Absent, Broken} : disk' = [disk EXCEPT ![f] = c]
    /\ Change
    /\ UNCHANGED <<environment, manager, source, wrote>>

Next ==
    \/ LoadFails \/ Get \/ GetAppConfig \/ Reload
    \/ \E t \in Section \union {App} : GetTyped(t)
    \/ \E s \in Section, k \in Key, v \in Value : SetKey(s, k, v) \/ Update(s, k, v)
    \/ \E f \in File : Save(f) \/ Edit(f)

Spec == Init /\ [][Next]_vars

-----------------------------------------------------------------------------
\* The types of the state: what is loaded is a whole dictionary.
TypeOK ==
    /\ confdir \in BOOLEAN
    /\ argument \in {"none", "path", "name"}
    /\ direct \in Variables /\ hfdirs \in Variables
    /\ disk \in [File -> Conf \union {Absent, Broken}]
    /\ raw \in Conf \union {NotLoaded}
    /\ app \in Conf \union {NotLoaded}
    /\ cache \in [Section \union {App} -> Conf \union Table \union {NotLoaded}]
    /\ loader \in BOOLEAN
    /\ source \in [File -> Conf \union {Absent, Broken}] \union {NotLoaded}
    /\ wrote \in [Section -> Table]
    /\ changes \in 0 .. MaxChanges

\* What a dictionary answers for a key.
At(c, s, k) == IF c[s] \in Table THEN c[s][k] ELSE Unset

\* The sources in order, the highest first.
Sources(d) == <<hfdirs, direct, Content(Explicit(d)), Content(Main(d)), Content(Default(d))>>

\* A source decides a key when it has a value for it, or when it has a value
\* in the place of its whole section.
Decides(c, s, k) == c[s] \in Value \/ (c[s] \in Table /\ c[s][k] # Unset)

Effective(d, s, k) ==
    LET Deciding == {i \in 1 .. 5 : Decides(Sources(d)[i], s, k)} IN
    IF Deciding = {} THEN Unset
    ELSE At(Sources(d)[CHOOSE i \in Deciding : \A j \in Deciding : i <= j], s, k)

\* The order of precedence: a key has the value last written to it by set or
\* update, or else the one that the highest source deciding on it had when
\* the configuration was loaded: the environment before the file of the
\* command line, before the main file, before the defaults.
PrecedenceHolds ==
    raw # NotLoaded =>
        \A s \in Section, k \in Key :
            At(raw, s, k) = IF wrote[s][k] # Unset THEN wrote[s][k]
                            ELSE Effective(source, s, k)

\* A typed configuration is what the dictionary says now: it outlives neither
\* a set, an update nor a reload.
TypedIsCurrent ==
    \A t \in Section \union {App} :
        cache[t] # NotLoaded => raw # NotLoaded /\ cache[t] = Typed(raw, t)

\* "the single source of truth": the AppConfig and the dictionary agree.
ViewsAgree == app # NotLoaded /\ raw # NotLoaded => app = raw
=============================================================================
