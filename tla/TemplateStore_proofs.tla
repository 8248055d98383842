------------------------- MODULE TemplateStore_proofs -------------------------
(* Proofs about TemplateStore, for any processes, templates, versions and    *)
(* time to live, and however long a load may take.                           *)
EXTENDS TemplateStore, TLAPS

CacheType  == {NoCache} \union [list : Listing, age : Age, took : Took]
AnswerType == {NoAnswer} \union [gone : Gone, took : Took]
EditType   == {NoEdit} \union Edits

-----------------------------------------------------------------------------
\* Whatever is in the file, it has a listing.
LEMMA ListedType ==
    ASSUME scheduler \in {"default", "hostfactory"},
           NEW f \in {Absent, Torn} \union Contents
    PROVE  Listed(f) \in Listing
BY DEF Listed, Listing, Empty, Contents, OwnForm

\* The file of a user is one of the contents of a file.
LEMMA UsersFilesType ==
    ASSUME scheduler \in {"default", "hostfactory"}
    PROVE  UsersFiles \subseteq {Absent, Torn} \union Contents
BY DEF UsersFiles, Contents, OwnForm

\* A time grows by one at most, and stays within its bound.
LEMMA LongerGone ==
    ASSUME NEW g \in Gone
    PROVE  Longer(g) \in Gone /\ Longer(g) <= g + 1
BY TTLAssumption, MaxLoadAssumption DEF Longer, Gone

LEMMA Zeros == 0 \in Age /\ 0 \in Gone /\ 0 \in Took
BY TTLAssumption, MaxLoadAssumption DEF Age, Gone, Took

LEMMA FileBecomesType ==
    ASSUME TypeOK, NEW f \in {Absent, Torn} \union Contents, FileBecomes(f)
    PROVE  /\ file' \in {Absent, Torn} \union Contents
           /\ gone' \in [Process -> Gone]
BY Zeros DEF TypeOK, FileBecomes

LEMMA ForgetType ==
    ASSUME TypeOK, NEW p \in Process, Forget(p)
    PROVE  cache' \in [Process -> CacheType] /\ answer' = NoAnswer
BY DEF TypeOK, Forget, CacheType

\* The state's types, with the types of the caches and the edits by name.
LEMMA TypeParts ==
    TypeOK <=>
    /\ scheduler \in {"default", "hostfactory"}
    /\ file \in {Absent, Torn} \union Contents
    /\ cache \in [Process -> CacheType]
    /\ load \in [Process -> {NoLoad} \union Loads]
    /\ edit \in [Process -> EditType]
    /\ answer \in AnswerType
    /\ gone \in [Process -> Gone]
    /\ wanted \in Listing \union {Unknown}
    /\ author \in Process \union {Nobody}
BY DEF TypeOK, CacheType, EditType, AnswerType

\* A load that begins, and a query that is served from the cache.
LEMMA BeginLoadType ==
    ASSUME TypeOK, NEW p \in Process, BeginLoad(p)
    PROVE  /\ load' \in [Process -> {NoLoad} \union Loads]
           /\ gone' \in [Process -> Gone]
           /\ answer' = NoAnswer
<1>1. [list |-> Listed(file), took |-> 0] \in Loads
  BY ListedType, Zeros DEF TypeOK, Loads
<1> QED
  BY <1>1, Zeros DEF BeginLoad, TypeOK

LEMMA LoadType ==
    ASSUME TypeOK, NEW p \in Process, Load(p)
    PROVE  TypeOK'
<1>1. CASE Cached(p)
  <2>1. cache[p].took \in Took
    BY <1>1 DEF TypeOK, Cached
  <2> QED
    BY <1>1, <2>1 DEF Load, TypeOK
<1>2. CASE ~Cached(p)
  BY <1>2, BeginLoadType DEF Load, TypeOK
<1> QED
  BY <1>1, <1>2

LEMMA FinishLoadType ==
    ASSUME TypeOK, NEW p \in Process, FinishLoad(p)
    PROVE  TypeOK'
<1>1. load[p] \in Loads
  BY DEF TypeOK, FinishLoad, Loading
<1>2. load[p].list \in Listing /\ load[p].took \in Took
  BY <1>1 DEF Loads
<1>3. [list |-> load[p].list, age |-> 0, took |-> load[p].took] \in CacheType
  BY <1>2, Zeros DEF CacheType
<1>4. cache' \in [Process -> CacheType]
  BY <1>3, TypeParts DEF FinishLoad
<1> QED
  BY <1>2, <1>4 DEF FinishLoad, TypeOK, CacheType

\* An edit that begins or is interrupted keeps the types.
LEMMA BeginEditType ==
    ASSUME TypeOK, NEW p \in Process, NEW t \in Template,
           NEW v \in Version \union {None}, BeginEdit(p, t, v)
    PROVE  TypeOK'
<1>1. Changed(t, v) \in Listing
  BY ListedType DEF TypeOK, Changed, Listing
<1>2. [at |-> "opening", template |-> t, entries |-> Changed(t, v), alone |-> TRUE]
        \in EditType
  BY <1>1 DEF EditType, Edits
<1>3. edit' \in [Process -> EditType]
  BY <1>2, TypeParts DEF BeginEdit
<1> QED
  BY <1>3 DEF BeginEdit, TypeOK, EditType

LEMMA InterruptedType ==
    ASSUME TypeOK, NEW p \in Process, Interrupted(p)
    PROVE  /\ edit' \in [Process -> EditType]
           /\ wanted' \in Listing \union {Unknown}
           /\ author' \in Process \union {Nobody}
BY DEF TypeOK, Interrupted, EditType

\* What an edit writes.
LEMMA WrittenType ==
    ASSUME TypeOK, NEW p \in Process, Editing(p)
    PROVE  /\ edit[p] \in Edits
           /\ [entries |-> edit[p].entries, form |-> "native"] \in Contents
BY DEF TypeOK, Editing, Edits, Contents

LEMMA OpenType ==
    ASSUME TypeOK, NEW p \in Process, Open(p)
    PROVE  TypeOK'
<1>1. edit' \in [Process -> EditType]
  <2> SUFFICES ASSUME NEW q \in Process PROVE edit'[q] \in EditType
    BY DEF Open
  <2>1. CASE q = p
    <3>1. edit'[q] = [edit[p] EXCEPT !.at = "writing",
                                     !.alone = \A r \in Process : ~Writing(r)]
      BY <2>1 DEF Open
    <3> DEFINE none == \A r \in Process : ~Writing(r)
    <3>2. none \in BOOLEAN
      OBVIOUS
    <3>3. edit'[q] = [edit[p] EXCEPT !.at = "writing", !.alone = none]
      BY <3>1
    <3> HIDE DEF none
    <3> QED
      BY <3>2, <3>3, WrittenType DEF Open, EditType, Edits
  <2>2. CASE q # p /\ Writing(q)
    <3>1. edit'[q] = [edit[q] EXCEPT !.alone = FALSE]
      BY <2>2 DEF Open
    <3> QED
      BY <3>1, <2>2, WrittenType DEF Writing, EditType, Edits
  <2>3. CASE q # p /\ ~Writing(q)
    BY <2>3 DEF Open, TypeOK, EditType
  <2> QED
    BY <2>1, <2>2, <2>3
<1>2. FileBecomes(Torn)
  BY DEF Open
<1> QED
  BY <1>1, <1>2, FileBecomesType, TypeParts DEF Open, TypeOK, EditType

LEMMA WriteDoneType ==
    ASSUME TypeOK, NEW p \in Process, WriteDone(p)
    PROVE  TypeOK'
<1>1. edit[p] \in Edits
  BY WrittenType DEF WriteDone, Writing
<1>2. PICK f \in {Absent, Torn} \union Contents : FileBecomes(f)
  BY WrittenType DEF WriteDone, Writing, TypeOK
<1>3. edit' \in [Process -> EditType]
  BY TypeParts DEF WriteDone, EditType
<1>4. wanted' \in Listing \union {Unknown}
  <2>1. edit[p].entries[edit[p].template] \in Version \union {None}
    BY <1>1 DEF Edits, Listing
  <2> QED
    BY <2>1 DEF WriteDone, TypeOK, Listing
<1> QED
  BY <1>2, <1>3, <1>4, FileBecomesType, ForgetType, TypeParts
  DEF WriteDone, TypeOK, EditType, CacheType

LEMMA UserEditType ==
    ASSUME TypeOK, UserEdit
    PROVE  TypeOK'
<1>1. PICK f \in UsersFiles :
        /\ FileBecomes(f)
        /\ wanted' = IF \A p \in Process : Idle(p) THEN Listed(f) ELSE Unknown
  BY DEF UserEdit
<1>2. f \in {Absent, Torn} \union Contents
  BY <1>1, UsersFilesType DEF TypeOK
<1>3. wanted' \in Listing \union {Unknown}
  BY <1>1, <1>2, ListedType DEF TypeOK
<1>4. edit' \in [Process -> EditType]
  <2> SUFFICES ASSUME NEW q \in Process PROVE edit'[q] \in EditType
    BY DEF UserEdit
  <2>1. CASE Writing(q)
    <3>1. edit'[q] = [edit[q] EXCEPT !.alone = FALSE]
      BY <2>1 DEF UserEdit
    <3> QED
      BY <3>1, <2>1, WrittenType DEF Writing, EditType, Edits
  <2>2. CASE ~Writing(q)
    BY <2>2 DEF UserEdit, TypeOK, EditType
  <2> QED
    BY <2>1, <2>2
<1> QED
  BY <1>1, <1>2, <1>3, <1>4, FileBecomesType
  DEF UserEdit, TypeOK, EditType

\* A listing that does not expire has an age below the time to live.
LEMMA TickType ==
    ASSUME TypeOK, Tick
    PROVE  TypeOK'
<1>1. cache' \in [Process -> CacheType]
  <2> SUFFICES ASSUME NEW q \in Process PROVE cache'[q] \in CacheType
    BY DEF Tick
  <2>1. CASE ~(Cached(q) /\ Valid(cache[q].age + 1))
    BY <2>1 DEF Tick, CacheType
  <2>2. CASE Cached(q) /\ Valid(cache[q].age + 1)
    <3>1. cache[q] \in [list : Listing, age : Age, took : Took]
      BY <2>2 DEF TypeOK, Cached
    <3>2. cache'[q] = [cache[q] EXCEPT !.age = cache[q].age + 1]
      BY <2>2 DEF Tick
    <3>3. cache[q].age + 1 \in Age
      BY <2>2, <3>1, TTLAssumption DEF Valid, Age
    <3> QED
      BY <3>1, <3>2, <3>3 DEF CacheType
  <2> QED
    BY <2>1, <2>2
<1>2. load' \in [Process -> {NoLoad} \union Loads]
  <2> SUFFICES ASSUME NEW q \in Process, Loading(q) PROVE load'[q] \in Loads
    BY DEF Tick
  <2>1. load[q] \in Loads
    BY DEF TypeOK, Loading
  <2>2. load'[q] = [load[q] EXCEPT !.took = load[q].took + 1]
    BY DEF Tick
  <2>3. load[q].took + 1 \in Took
    BY <2>1, MaxLoadAssumption DEF Tick, Loads, Took
  <2> QED
    BY <2>1, <2>2, <2>3 DEF Loads
<1>3. gone' \in [Process -> Gone]
  BY LongerGone, Zeros DEF Tick, TypeOK
<1> QED
  BY <1>1, <1>2, <1>3 DEF Tick, TypeOK, CacheType

\* The type invariant is inductive.
LEMMA TypeInitially == Init => TypeOK
<1> SUFFICES ASSUME Init PROVE TypeOK
  OBVIOUS
<1>1. scheduler \in {"default", "hostfactory"} /\ file \in {Absent, Torn} \union Contents
  BY UsersFilesType DEF Init
<1> QED
  BY <1>1, ListedType, Zeros DEF Init, TypeOK

LEMMA TypeStep == TypeOK /\ [Next]_vars => TypeOK'
<1> SUFFICES ASSUME TypeOK, [Next]_vars PROVE TypeOK'
  OBVIOUS
<1>1. CASE UNCHANGED vars
  BY <1>1 DEF TypeOK, vars
<1>2. ASSUME NEW p \in Process, Query(p)
      PROVE  TypeOK'
  <2>1. CASE Get(p)
    BY <2>1, LoadType DEF Get
  <2>2. CASE Refresh(p)
    BY <2>2, LoadType DEF Refresh
  <2>3. CASE Reload(p)
    BY <2>3, BeginLoadType DEF Reload, TypeOK
  <2>4. CASE FinishLoad(p)
    BY <2>4, FinishLoadType
  <2>5. CASE Clear(p)
    BY <2>5, ForgetType DEF Clear, TypeOK, CacheType
  <2> QED
    BY <1>2, <2>1, <2>2, <2>3, <2>4, <2>5 DEF Query
<1>3. ASSUME NEW p \in Process, Persist(p)
      PROVE  TypeOK'
  <2>1. ASSUME NEW t \in Template, NEW v \in Version, BeginSave(p, t, v)
        PROVE  TypeOK'
    BY <2>1, BeginEditType DEF BeginSave
  <2>2. ASSUME NEW t \in Template, BeginDelete(p, t)
        PROVE  TypeOK'
    BY <2>2, BeginEditType DEF BeginDelete
  <2>3. CASE EditFails(p)
    <3>1. PICK f \in {file, Torn} : FileBecomes(f)
      BY <2>3 DEF EditFails
    <3>2. f \in {Absent, Torn} \union Contents
      BY <3>1 DEF TypeOK
    <3> QED
      BY <2>3, <3>1, <3>2, FileBecomesType, InterruptedType
      DEF EditFails, TypeOK, EditType
  <2>4. CASE Restart(p)
    BY <2>4, ForgetType, InterruptedType DEF Restart, TypeOK, EditType, CacheType
  <2> QED
    BY <1>3, <2>1, <2>2, <2>3, <2>4, OpenType, WriteDoneType DEF Persist
<1> QED
  BY <1>1, <1>2, <1>3, UserEditType, TickType DEF Next

\* The state keeps its types.
THEOREM TypeCorrect == Spec => []TypeOK
BY TypeInitially, TypeStep, PTL DEF Spec

-----------------------------------------------------------------------------
\* A listing that is being loaded left the file no longer ago than the load
\* takes, and a cached one no longer ago than it was stamped and had taken to
\* load: a listing is read before it is stamped, and by how much is in took.
NotOlder ==
    \A p \in Process :
        /\ Cached(p) => gone[p] <= cache[p].age + cache[p].took
        /\ Loading(p) => gone[p] <= load[p].took

Recent == NotOlder /\ ServedIsRecent

\* What a process caches and loads has times that are numbers.
LEMMA Times ==
    ASSUME TypeOK, NEW p \in Process
    PROVE  /\ gone[p] \in Nat
           /\ Cached(p) => cache[p].age \in Nat /\ cache[p].took \in Nat
           /\ Loading(p) => load[p].took \in Nat
BY TTLAssumption, MaxLoadAssumption
DEF TypeOK, Cached, Loading, Loads, Age, Gone, Took

\* A change of the file makes no listing older.
LEMMA FileBecomesNotOlder ==
    ASSUME TypeOK, NotOlder, NEW f, FileBecomes(f), load' = load,
           \A p \in Process : cache'[p] \in {cache[p], NoCache}
    PROVE  NotOlder'
<1> SUFFICES ASSUME NEW p \in Process
             PROVE  /\ Cached(p)' => gone'[p] <= cache'[p].age + cache'[p].took
                    /\ Loading(p)' => gone'[p] <= load'[p].took
  BY DEF NotOlder
<1>1. gone'[p] \in {0, gone[p]}
  BY DEF FileBecomes
<1>2. ASSUME Cached(p)'
      PROVE  gone'[p] <= cache'[p].age + cache'[p].took
  <2>1. cache'[p] = cache[p] /\ Cached(p)
    BY <1>2 DEF Cached
  <2> QED
    BY <1>1, <2>1, Times DEF NotOlder
<1>3. ASSUME Loading(p)'
      PROVE  gone'[p] <= load'[p].took
  BY <1>1, <1>3, Times DEF Loading, NotOlder
<1> QED
  BY <1>2, <1>3

\* A load that begins reads what the file lists now.
LEMMA BeginLoadRecent ==
    ASSUME TypeOK, NotOlder, NEW p \in Process, BeginLoad(p),
           \A q \in Process : cache'[q] \in {cache[q], NoCache},
           cache'[p] = NoCache
    PROVE  NotOlder'
<1> SUFFICES ASSUME NEW q \in Process
             PROVE  /\ Cached(q)' => gone'[q] <= cache'[q].age + cache'[q].took
                    /\ Loading(q)' => gone'[q] <= load'[q].took
  BY DEF NotOlder
<1>1. CASE q = p
  <2>1. gone'[q] = 0 /\ load'[q].took = 0
    BY <1>1 DEF BeginLoad, TypeOK
  <2> QED
    BY <1>1, <2>1 DEF Cached
<1>2. CASE q # p
  BY <1>2 DEF BeginLoad, TypeOK, NotOlder, Cached, Loading
<1> QED
  BY <1>1, <1>2

LEMMA LoadRecent ==
    ASSUME TypeOK, Recent, NEW p \in Process, Load(p)
    PROVE  Recent'
<1>1. CASE Cached(p)
  <2>1. NotOlder'
    BY <1>1 DEF Load, Recent, NotOlder, Cached, Loading
  <2>2. cache[p].age < TTL
    BY <1>1, TTLAssumption DEF TypeOK, Cached, Age
  <2>3. gone[p] <= cache[p].age + cache[p].took
    BY <1>1 DEF Recent, NotOlder
  <2>4. gone[p] < TTL + cache[p].took
    BY <1>1, <2>2, <2>3, Times, TTLAssumption
  <2>5. answer'.gone = gone[p] /\ answer'.took = cache[p].took
    BY <1>1 DEF Load
  <2> QED
    BY <2>1, <2>4, <2>5 DEF Recent, ServedIsRecent
<1>2. CASE ~Cached(p)
  <2>1. BeginLoad(p) /\ cache' = cache /\ cache[p] = NoCache
    BY <1>2 DEF Load, Cached
  <2> QED
    BY <2>1, BeginLoadRecent DEF Recent, BeginLoad, ServedIsRecent
<1> QED
  BY <1>1, <1>2

LEMMA FinishLoadRecent ==
    ASSUME TypeOK, Recent, NEW p \in Process, FinishLoad(p)
    PROVE  Recent'
<1>1. gone[p] <= load[p].took /\ gone[p] \in Nat /\ load[p].took \in Nat
  BY Times DEF FinishLoad, Recent, NotOlder
<1>2. NotOlder'
  <2> SUFFICES ASSUME NEW q \in Process
               PROVE  /\ Cached(q)' => gone'[q] <= cache'[q].age + cache'[q].took
                      /\ Loading(q)' => gone'[q] <= load'[q].took
    BY DEF NotOlder
  <2>1. CASE q = p
    <3>1. cache'[q].age = 0 /\ cache'[q].took = load[p].took /\ ~Loading(q)'
      BY <2>1 DEF FinishLoad, TypeOK, Loading
    <3> QED
      BY <1>1, <2>1, <3>1 DEF FinishLoad
  <2>2. CASE q # p
    BY <2>2 DEF FinishLoad, TypeOK, Recent, NotOlder, Cached, Loading
  <2> QED
    BY <2>1, <2>2
<1>3. answer'.gone = gone[p] /\ answer'.took = load[p].took
  BY DEF FinishLoad
<1>4. answer'.gone < TTL + answer'.took
  BY <1>1, <1>3, TTLAssumption
<1> QED
  BY <1>2, <1>4 DEF Recent, ServedIsRecent

LEMMA TickRecent ==
    ASSUME TypeOK, Recent, Tick
    PROVE  Recent'
<1>1. NotOlder'
  <2> SUFFICES ASSUME NEW q \in Process
               PROVE  /\ Cached(q)' => gone'[q] <= cache'[q].age + cache'[q].took
                      /\ Loading(q)' => gone'[q] <= load'[q].took
    BY DEF NotOlder
  <2>1. gone'[q] <= gone[q] + 1 /\ gone'[q] \in Nat
    <3>1. gone'[q] \in {0, Longer(gone[q])}
      BY DEF Tick
    <3> QED
      BY <3>1, LongerGone, Times, TTLAssumption, MaxLoadAssumption
      DEF TypeOK, Gone
  <2>2. ASSUME Cached(q)'
        PROVE  gone'[q] <= cache'[q].age + cache'[q].took
    <3>1. Cached(q) /\ cache'[q] = [cache[q] EXCEPT !.age = cache[q].age + 1]
      BY <2>2 DEF Tick, Cached
    <3>2. cache[q] \in [list : Listing, age : Age, took : Took]
      BY <3>1 DEF TypeOK, Cached
    <3>3. cache'[q].age = cache[q].age + 1 /\ cache'[q].took = cache[q].took
      BY <3>1, <3>2
    <3> QED
      BY <2>1, <3>1, <3>3, Times DEF Recent, NotOlder
  <2>3. ASSUME Loading(q)'
        PROVE  gone'[q] <= load'[q].took
    <3>1. Loading(q) /\ load'[q] = [load[q] EXCEPT !.took = load[q].took + 1]
      BY <2>3 DEF Tick, Loading
    <3>2. load[q] \in Loads
      BY <3>1 DEF TypeOK, Loading
    <3>3. load'[q].took = load[q].took + 1
      BY <3>1, <3>2 DEF Loads
    <3> QED
      BY <2>1, <3>1, <3>3, Times DEF Recent, NotOlder
  <2> QED
    BY <2>2, <2>3
<1> QED
  BY <1>1 DEF Tick, Recent, ServedIsRecent

LEMMA RecentStep == TypeOK /\ Recent /\ [Next]_vars => Recent'
<1> SUFFICES ASSUME TypeOK, Recent, [Next]_vars PROVE Recent'
  OBVIOUS
<1> USE DEF Recent
<1>1. CASE UNCHANGED vars
  BY <1>1 DEF NotOlder, ServedIsRecent, vars, Cached, Loading
<1>2. ASSUME NEW p \in Process, Query(p)
      PROVE  Recent'
  <2>1. CASE Get(p) \/ Refresh(p)
    BY <2>1, LoadRecent DEF Get, Refresh
  <2>2. CASE Reload(p)
    <3>1. cache'[p] = NoCache /\ \A q \in Process : cache'[q] \in {cache[q], NoCache}
      BY <2>2 DEF Reload, TypeOK
    <3> QED
      BY <2>2, <3>1, BeginLoadRecent DEF Reload, BeginLoad, ServedIsRecent
  <2>3. CASE FinishLoad(p)
    BY <2>3, FinishLoadRecent
  <2>4. CASE Clear(p)
    BY <2>4 DEF Clear, Forget, NotOlder, ServedIsRecent, TypeOK, Cached, Loading
  <2> QED
    BY <1>2, <2>1, <2>2, <2>3, <2>4 DEF Query
<1>3. ASSUME NEW p \in Process, Persist(p)
      PROVE  Recent'
  <2>1. ASSUME NEW t \in Template, NEW v, BeginEdit(p, t, v)
        PROVE  Recent'
    BY <2>1 DEF BeginEdit, NotOlder, ServedIsRecent, Cached, Loading
  <2>2. CASE Open(p)
    <3>1. FileBecomes(Torn) /\ cache' = cache /\ load' = load /\ answer' = NoAnswer
      BY <2>2 DEF Open
    <3> QED
      BY <3>1, FileBecomesNotOlder DEF ServedIsRecent
  <2>3. CASE WriteDone(p)
    <3>1. PICK f : FileBecomes(f)
      BY <2>3 DEF WriteDone
    <3>2. /\ answer' = NoAnswer /\ load' = load
          /\ \A q \in Process : cache'[q] \in {cache[q], NoCache}
      BY <2>3 DEF WriteDone, Forget, TypeOK
    <3> QED
      BY <3>1, <3>2, FileBecomesNotOlder DEF ServedIsRecent
  <2>4. CASE EditFails(p)
    <3>1. PICK f : FileBecomes(f)
      BY <2>4 DEF EditFails
    <3> QED
      BY <2>4, <3>1, FileBecomesNotOlder DEF EditFails, ServedIsRecent
  <2>5. CASE Restart(p)
    BY <2>5 DEF Restart, Forget, NotOlder, ServedIsRecent, TypeOK, Cached, Loading
  <2> QED
    BY <1>3, <2>1, <2>2, <2>3, <2>4, <2>5 DEF Persist, BeginSave, BeginDelete
<1>4. CASE UserEdit
  <2>1. PICK f : FileBecomes(f)
    BY <1>4 DEF UserEdit
  <2> QED
    BY <1>4, <2>1, FileBecomesNotOlder DEF UserEdit, ServedIsRecent
<1> QED
  BY <1>1, <1>2, <1>3, <1>4, TickRecent DEF Next

\* No query answers a listing that the file gave up a time to live, and the time
\* that the listing took to load, ago.
THEOREM RecentServed == Spec => []ServedIsRecent
<1>1. Init => Recent
  BY DEF Init, Recent, NotOlder, ServedIsRecent, Cached, Loading
<1>2. Recent => ServedIsRecent
  BY DEF Recent
<1> QED
  BY <1>1, <1>2, RecentStep, TypeCorrect, PTL DEF Spec

-----------------------------------------------------------------------------
\* What the author of the file caches and loads is current, as long as nobody
\* has the file open for writing.
Seen ==
    \A p \in Process :
        author = p /\ (\A q \in Process : ~Writing(q)) =>
            /\ Cached(p) => cache[p].list = Listed(file)
            /\ Loading(p) => load[p].list = Listed(file)

\* A process does not load while it edits.
Apart == \A p \in Process : Loading(p) => Idle(p)

LEMMA ApartStep == TypeOK /\ Apart /\ [Next]_vars => Apart'
<1> SUFFICES ASSUME TypeOK, Apart, [Next]_vars, NEW a \in Process, Loading(a)'
             PROVE  Idle(a)'
  BY DEF Apart
<1>1. CASE UNCHANGED vars
  BY <1>1 DEF Apart, vars, Loading, Idle
<1>2. ASSUME NEW p \in Process, Query(p)
      PROVE  Idle(a)'
  BY <1>2 DEF Query, Get, Refresh, Load, Reload, FinishLoad, Clear, BeginLoad,
              Apart, Free, Loading, Idle, TypeOK
<1>3. ASSUME NEW p \in Process, Persist(p)
      PROVE  Idle(a)'
  <2>1. Loading(a) /\ Idle(a)
    BY <1>3 DEF Persist, BeginSave, BeginDelete, BeginEdit, Open, WriteDone,
                EditFails, Restart, Apart, Loading, TypeOK
  <2>2. a # p \/ edit'[a] = NoEdit
    BY <1>3, <2>1 DEF Persist, BeginSave, BeginDelete, BeginEdit, Free, Open,
                      WriteDone, EditFails, Restart, Interrupted, TypeOK,
                      Writing, Editing, Idle
  <2>3. edit'[a] \in {edit[a], NoEdit}
    BY <1>3, <2>1, <2>2 DEF Persist, BeginSave, BeginDelete, BeginEdit, Open,
                      WriteDone, EditFails, Restart, Interrupted, TypeOK,
                      Writing, Editing, Idle
  <2> QED
    BY <2>1, <2>3 DEF Idle
<1>4. CASE UserEdit \/ Tick
  BY <1>4 DEF UserEdit, Tick, Apart, Loading, Idle, Writing, Editing
<1> QED
  BY <1>1, <1>2, <1>3, <1>4 DEF Next

LEMMA SeenStep == TypeOK /\ Apart /\ Seen /\ [Next]_vars => Seen'
<1> DEFINE Current(a) == /\ Cached(a) => cache[a].list = Listed(file)
                         /\ Loading(a) => load[a].list = Listed(file)
<1> SUFFICES ASSUME TypeOK, Apart, Seen, [Next]_vars,
                    NEW a \in Process, author' = a,
                    \A q \in Process : ~Writing(q)'
             PROVE  Current(a)'
  BY DEF Seen
<1>0. ASSUME author = a, \A q \in Process : ~Writing(q)
      PROVE  Current(a)
  BY <1>0 DEF Seen
<1>1. CASE UNCHANGED vars
  BY <1>1 DEF Seen, vars, Writing, Editing, Listed, OwnForm, Cached, Loading
<1>2. ASSUME NEW p \in Process, Query(p)
      PROVE  Current(a)'
  <2>1. author = a /\ file' = file /\ scheduler' = scheduler /\ edit' = edit
    BY <1>2 DEF Query, Get, Refresh, Load, Reload, FinishLoad, Clear
  <2>2. Current(a)
    BY <1>0, <2>1 DEF Writing, Editing
  <2>3. Listed(file)' = Listed(file)
    BY <2>1 DEF Listed, OwnForm
  <2>4. CASE Load(p)
    <3>1. CASE Cached(p)
      BY <2>2, <2>3, <2>4, <3>1 DEF Load, Cached, Loading
    <3>2. CASE ~Cached(p)
      BY <2>2, <2>3, <2>4, <3>2 DEF Load, BeginLoad, Cached, Loading, TypeOK
    <3> QED
      BY <3>1, <3>2
  <2>5. CASE Reload(p)
    BY <2>2, <2>3, <2>5 DEF Reload, BeginLoad, Cached, Loading, TypeOK
  <2>6. CASE FinishLoad(p)
    BY <2>2, <2>3, <2>6 DEF FinishLoad, Cached, Loading, TypeOK
  <2>7. CASE Clear(p)
    BY <2>2, <2>3, <2>7 DEF Clear, Forget, Cached, Loading, TypeOK
  <2> QED
    BY <1>2, <2>4, <2>5, <2>6, <2>7 DEF Query, Get, Refresh
<1>3. ASSUME NEW p \in Process, Persist(p)
      PROVE  Current(a)'
  <2>1. ASSUME NEW t \in Template, NEW v, BeginEdit(p, t, v)
        PROVE  Current(a)'
    <3>1. \A q \in Process : ~Writing(q)
      BY <2>1 DEF BeginEdit, Free, TypeOK, Writing, Editing, Idle
    <3>2. Current(a)
      BY <1>0, <2>1, <3>1 DEF BeginEdit
    <3> QED
      BY <2>1, <3>2 DEF BeginEdit, Listed, OwnForm, Cached, Loading
  <2>2. CASE Open(p)
    <3>1. Writing(p)'
      <4> DEFINE none == \A r \in Process : ~Writing(r)
      <4>1. edit'[p] = [edit[p] EXCEPT !.at = "writing", !.alone = none]
        BY <2>2 DEF Open
      <4>2. none \in BOOLEAN
        OBVIOUS
      <4> HIDE DEF none
      <4>3. edit'[p] \in Edits /\ edit'[p].at = "writing"
        BY <2>2, <4>1, <4>2, WrittenType DEF Open, Edits
      <4> QED
        BY <4>3, NamesAssumption DEF Writing, Editing
    <3> QED
      BY <3>1
  <2>3. CASE WriteDone(p)
    <3>1. a = p /\ cache'[p] = NoCache
      BY <2>3 DEF WriteDone, Forget, TypeOK
    <3>2. ~Loading(p) /\ load' = load
      BY <2>3 DEF WriteDone, Writing, Editing, Idle, Apart
    <3> QED
      BY <3>1, <3>2 DEF Cached, Loading
  <2>4. CASE EditFails(p) \/ Restart(p)
    <3>1. ~Writing(p) /\ author = a
      BY <2>4, NamesAssumption DEF EditFails, Restart, Interrupted
    <3>2. \A q \in Process : ~Writing(q)
      BY <2>4, <3>1 DEF EditFails, Restart, Interrupted, TypeOK, Writing, Editing
    <3>3. file' = file /\ scheduler' = scheduler
      BY <2>4, <3>1 DEF EditFails, Restart, FileBecomes
    <3>4. /\ cache'[a] \in {cache[a], NoCache}
          /\ load'[a] \in {load[a], NoLoad}
      BY <2>4 DEF EditFails, Restart, Forget, TypeOK
    <3>5. Current(a)
      BY <1>0, <3>1, <3>2
    <3> QED
      BY <3>3, <3>4, <3>5 DEF Listed, OwnForm, Cached, Loading
  <2> QED
    BY <1>3, <2>1, <2>2, <2>3, <2>4 DEF Persist, BeginSave, BeginDelete
<1>4. CASE UserEdit
  BY <1>4, NamesAssumption DEF UserEdit
<1>5. CASE Tick
  <2>1. Current(a)
    BY <1>0, <1>5 DEF Tick, Writing, Editing
  <2>2. Listed(file)' = Listed(file)
    BY <1>5 DEF Tick, Listed, OwnForm
  <2>3. ASSUME Cached(a)'
        PROVE  Cached(a) /\ cache'[a].list = cache[a].list
    <3>1. Cached(a) /\ cache'[a] = [cache[a] EXCEPT !.age = cache[a].age + 1]
      BY <1>5, <2>3 DEF Tick, Cached
    <3>2. cache[a] \in [list : Listing, age : Age, took : Took]
      BY <3>1 DEF TypeOK, Cached
    <3> QED
      BY <3>1, <3>2
  <2>4. ASSUME Loading(a)'
        PROVE  Loading(a) /\ load'[a].list = load[a].list
    <3>1. Loading(a) /\ load'[a] = [load[a] EXCEPT !.took = load[a].took + 1]
      BY <1>5, <2>4 DEF Tick, Loading
    <3>2. load[a] \in [list : Listing, took : Took]
      BY <3>1 DEF TypeOK, Loading, Loads
    <3> QED
      BY <3>1, <3>2
  <2> QED
    BY <2>1, <2>2, <2>3, <2>4
<1> QED
  BY <1>1, <1>2, <1>3, <1>4, <1>5 DEF Next

\* A process reads its own edits.
THEOREM OwnSeen == Spec => []OwnEditsAreSeen
<1>1. Init => Apart /\ Seen
  BY NamesAssumption DEF Init, Apart, Seen, Loading
<1>2. Seen => OwnEditsAreSeen
  BY DEF Seen, OwnEditsAreSeen
<1> QED
  BY <1>1, <1>2, ApartStep, SeenStep, TypeCorrect, PTL DEF Spec

-----------------------------------------------------------------------------
\* While the edits count, at most one process edits; it has the file to itself
\* and changes one template of what they add up to, and as long as it has not
\* opened the file, they are what the file lists.
Adding ==
    scheduler = "default" /\ wanted # Unknown =>
        /\ \A p, q \in Process : Editing(p) /\ Editing(q) => p = q
        /\ \A p \in Process : Editing(p) =>
             edit[p].entries =
               [wanted EXCEPT ![edit[p].template] = edit[p].entries[edit[p].template]]
        /\ \A p \in Process : Writing(p) => edit[p].alone
        /\ (\A p \in Process : ~Writing(p)) => Listed(file) = wanted

LEMMA AddingUnchanged ==
    ASSUME Adding, UNCHANGED <<scheduler, file, edit, wanted>>
    PROVE  Adding'
BY DEF Adding, Editing, Writing, Listed, OwnForm

\* With a single edit at most, a process that edits is the only one that does.
LEMMA AddingBegin ==
    ASSUME TypeOK, Adding, NEW p \in Process, NEW t \in Template,
           NEW v \in Version \union {None}, BeginEdit(p, t, v)
    PROVE  Adding'
<1> SUFFICES ASSUME scheduler = "default", wanted' # Unknown
             PROVE  Adding'
  BY DEF Adding, BeginEdit
<1>1. wanted' = wanted /\ \A q \in Process : Idle(q)
  BY DEF BeginEdit
<1>2. Listed(file) = wanted
  BY <1>1 DEF Adding, Writing, Editing, Idle
<1>3. Listed(file) \in Listing
  BY ListedType DEF TypeOK
<1>4. edit'[p] = [at |-> "opening", template |-> t,
                  entries |-> [wanted EXCEPT ![t] = v], alone |-> TRUE]
  BY <1>2 DEF BeginEdit, TypeOK, Changed
<1>5. edit'[p].entries =
        [wanted EXCEPT ![edit'[p].template] = edit'[p].entries[edit'[p].template]]
  BY <1>2, <1>3, <1>4 DEF Listing
<1>6. \A q \in Process : q # p => edit'[q] = NoEdit
  BY <1>1 DEF BeginEdit, TypeOK, Idle
<1>7. edit'[p].at # "writing"
  BY <1>4
<1>8. Listed(file)' = wanted'
  BY <1>1, <1>2 DEF BeginEdit, Listed, OwnForm
<1> QED
  BY <1>1, <1>5, <1>6, <1>7, <1>8 DEF Adding, Editing, Writing

LEMMA AddingOpen ==
    ASSUME TypeOK, Adding, NEW p \in Process, Open(p)
    PROVE  Adding'
<1> SUFFICES ASSUME scheduler = "default", wanted # Unknown
             PROVE  Adding'
  BY DEF Adding, Open
<1> DEFINE none == \A r \in Process : ~Writing(r)
<1>1. \A q \in Process : q # p => edit[q] = NoEdit
  BY DEF Adding, Open, Editing
<1>2. none = TRUE
  BY <1>1 DEF Open, Writing, Editing
<1>3. edit'[p] = [edit[p] EXCEPT !.at = "writing", !.alone = none]
  BY DEF Open
<1> HIDE DEF none
<1>4. /\ edit'[p] \in Edits /\ edit'[p].at = "writing" /\ edit'[p].alone
      /\ edit'[p].entries = edit[p].entries
      /\ edit'[p].template = edit[p].template
  BY <1>2, <1>3, WrittenType DEF Open, Edits
<1>5. \A q \in Process : q # p => edit'[q] = NoEdit
  BY <1>1 DEF Open, Writing, Editing
<1>6. edit'[p] # NoEdit
  BY <1>4, NamesAssumption
<1>7. edit[p].entries =
        [wanted EXCEPT ![edit[p].template] = edit[p].entries[edit[p].template]]
  BY DEF Adding, Open
<1> QED
  BY <1>4, <1>5, <1>6, <1>7 DEF Adding, Editing, Writing, Open

LEMMA AddingDone ==
    ASSUME TypeOK, Adding, NEW p \in Process, WriteDone(p)
    PROVE  Adding'
<1> SUFFICES ASSUME scheduler = "default", wanted # Unknown
             PROVE  Adding'
  BY DEF Adding, WriteDone
<1>1. \A q \in Process : edit'[q] = NoEdit
  BY DEF Adding, WriteDone, Writing, Editing, TypeOK
<1>2. edit[p].alone
  BY DEF Adding, WriteDone
<1>3. file' = [entries |-> edit[p].entries, form |-> "native"]
  BY <1>2 DEF WriteDone, FileBecomes
<1>4. file' \in Contents
  BY <1>3, WrittenType DEF WriteDone, Writing
<1>5. Listed(file)' = edit[p].entries
  BY <1>3, <1>4, NamesAssumption DEF Listed, OwnForm, WriteDone
<1>6. wanted' = edit[p].entries
  BY DEF Adding, WriteDone, Writing
<1> QED
  BY <1>1, <1>5, <1>6 DEF Adding, Editing, Writing

LEMMA AddingInterrupted ==
    ASSUME TypeOK, Adding, NEW p \in Process, Interrupted(p),
           scheduler' = scheduler, ~Writing(p) => file' = file
    PROVE  Adding'
<1> SUFFICES ASSUME scheduler = "default", wanted' # Unknown
             PROVE  Adding'
  BY DEF Adding
<1>1. ~Writing(p) /\ wanted' = wanted /\ file' = file
  BY DEF Interrupted
<1>2. \A q \in Process : edit'[q] = IF q = p THEN NoEdit ELSE edit[q]
  BY DEF Interrupted, TypeOK
<1>3. Listed(file)' = Listed(file)
  BY <1>1 DEF Listed, OwnForm
<1> QED
  BY <1>1, <1>2, <1>3 DEF Adding, Editing, Writing

LEMMA AddingUserEdit ==
    ASSUME TypeOK, Adding, UserEdit
    PROVE  Adding'
<1> SUFFICES ASSUME scheduler = "default", wanted' # Unknown
             PROVE  Adding'
  BY DEF Adding, UserEdit
<1>1. PICK f \in UsersFiles :
        /\ FileBecomes(f)
        /\ wanted' = IF \A p \in Process : Idle(p) THEN Listed(f) ELSE Unknown
  BY DEF UserEdit
<1>2. \A p \in Process : Idle(p)
  BY <1>1
<1>3. \A p \in Process : edit'[p] = NoEdit
  BY <1>2 DEF UserEdit, Idle, Writing, Editing
<1>4. Listed(file)' = wanted'
  BY <1>1, <1>2 DEF FileBecomes, Listed, OwnForm, UserEdit
<1> QED
  BY <1>3, <1>4 DEF Adding, Editing, Writing

LEMMA AddingStep == TypeOK /\ Adding /\ [Next]_vars => Adding'
<1> SUFFICES ASSUME TypeOK, Adding, [Next]_vars PROVE Adding'
  OBVIOUS
<1>1. CASE UNCHANGED vars
  BY <1>1, AddingUnchanged DEF vars
<1>2. ASSUME NEW p \in Process, Query(p)
      PROVE  Adding'
  BY <1>2, AddingUnchanged DEF Query, Get, Refresh, Load, Reload, FinishLoad, Clear
<1>3. ASSUME NEW p \in Process, Persist(p)
      PROVE  Adding'
  <2>1. CASE EditFails(p)
    BY <2>1, AddingInterrupted DEF EditFails, FileBecomes
  <2>2. CASE Restart(p)
    BY <2>2, AddingInterrupted DEF Restart
  <2> QED
    BY <1>3, <2>1, <2>2, AddingBegin, AddingOpen, AddingDone
    DEF Persist, BeginSave, BeginDelete
<1>4. CASE Tick
  BY <1>4, AddingUnchanged DEF Tick
<1> QED
  BY <1>1, <1>2, <1>3, <1>4, AddingUserEdit DEF Next

\* Under the default scheduler edits that do not meet add up.
THEOREM Kept == Spec => []EditsAreKept
<1>1. Init => Adding
  BY DEF Init, Adding, Editing, Writing
<1>2. Adding => EditsAreKept
  BY DEF Adding, EditsAreKept
<1> QED
  BY <1>1, <1>2, AddingStep, TypeCorrect, PTL DEF Spec
=============================================================================
