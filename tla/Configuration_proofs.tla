------------------------- MODULE Configuration_proofs -------------------------
(* Proofs about Configuration, for any sections, keys and values.            *)
EXTENDS Configuration, TLAPS

Disks == [File -> Conf \union {Absent, Broken}]

-----------------------------------------------------------------------------
\* Merging keeps dictionaries dictionaries.
LEMMA MergeType ==
    ASSUME NEW b \in Conf, NEW u \in Conf
    PROVE  Merge(b, u) \in Conf
<1> SUFFICES ASSUME NEW s \in Section
             PROVE  MergeNode(b[s], u[s]) \in Table \union Value \union {Unset}
  BY DEF Merge, Conf
<1>1. b[s] \in Table \union Value \union {Unset} /\ u[s] \in Table \union Value \union {Unset}
  BY DEF Conf
<1> QED
  BY <1>1 DEF MergeNode, Table

LEMMA NothingType == Nothing \in Conf
BY DEF Nothing, Conf

\* What the upper of two merged dictionaries decides, it answers; the lower
\* one answers the rest.
LEMMA MergeAnswers ==
    ASSUME NEW b \in Conf, NEW u \in Conf, NEW s \in Section, NEW k \in Key
    PROVE  At(Merge(b, u), s, k) = IF Decides(u, s, k) THEN At(u, s, k) ELSE At(b, s, k)
<1>1. b[s] \in Table \union Value \union {Unset} /\ u[s] \in Table \union Value \union {Unset}
  BY DEF Conf
<1>2. Merge(b, u)[s] = MergeNode(b[s], u[s])
  BY DEF Merge
<1>3. CASE u[s] = Unset
  BY <1>2, <1>3, NamesAssumption DEF MergeNode, At, Decides
<1>4. CASE u[s] \in Value
  BY <1>2, <1>4, NamesAssumption DEF MergeNode, At, Decides
<1>5. CASE u[s] \in Table /\ b[s] \in Table
  <2>1. Merge(b, u)[s] = [j \in Key |-> IF u[s][j] = Unset THEN b[s][j] ELSE u[s][j]]
    BY <1>2, <1>5, NamesAssumption DEF MergeNode
  <2>2. Merge(b, u)[s] \in Table
    BY <2>1, <1>5 DEF Table
  <2> QED
    BY <2>1, <2>2, <1>5, NamesAssumption DEF At, Decides
<1>6. CASE u[s] \in Table /\ b[s] \notin Table
  BY <1>2, <1>6, NamesAssumption DEF MergeNode, At, Decides
<1> QED
  BY <1>1, <1>3, <1>4, <1>5, <1>6

\* A file that can be read is a dictionary, and so is a missing one.
LEMMA ContentType ==
    ASSUME NEW f \in Conf \union {Absent, Broken}, f # Broken
    PROVE  Content(f) \in Conf
BY NothingType DEF Content

LEMMA SourcesType ==
    ASSUME NEW d \in Disks, Loads(d)
    PROVE  /\ Content(Default(d)) \in Conf
           /\ Content(Main(d)) \in Conf
           /\ Content(Explicit(d)) \in Conf
<1>1. /\ Default(d) \in Conf \union {Absent, Broken}
      /\ Main(d) \in Conf \union {Absent, Broken}
      /\ Explicit(d) \in Conf \union {Absent, Broken}
  BY DEF Disks, File, Default, Main, Explicit
<1> QED
  BY <1>1, ContentType DEF Loads

LEMMA LoadedType ==
    ASSUME NEW d \in Disks, Loads(d), direct \in Conf, hfdirs \in Conf
    PROVE  Loaded(d) \in Conf
<1>1. FromFiles(d) \in Conf
  BY SourcesType, MergeType DEF FromFiles
<1> QED
  BY <1>1, MergeType DEF Loaded

\* The merges of a load answer what the highest deciding source answers.
LEMMA LoadAnswers ==
    ASSUME NEW d \in Disks, Loads(d), direct \in Conf, hfdirs \in Conf,
           NEW s \in Section, NEW k \in Key
    PROVE  At(Loaded(d), s, k) = Effective(d, s, k)
<1> DEFINE e == Content(Explicit(d))
           m == Content(Main(d))
           f == Content(Default(d))
           S == <<hfdirs, direct, e, m, f>>
           D == {i \in 1 .. 5 : Decides(S[i], s, k)}
           first == CHOOSE i \in D : \A j \in D : i <= j
<1>1. e \in Conf /\ m \in Conf /\ f \in Conf
  BY SourcesType
<1>2. Effective(d, s, k) = IF D = {} THEN Unset ELSE At(S[first], s, k)
  BY DEF Effective, Sources
<1>3. At(Loaded(d), s, k) =
        IF Decides(hfdirs, s, k) THEN At(hfdirs, s, k)
        ELSE IF Decides(direct, s, k) THEN At(direct, s, k)
        ELSE IF Decides(e, s, k) THEN At(e, s, k)
        ELSE IF Decides(m, s, k) THEN At(m, s, k)
        ELSE At(f, s, k)
  <2>1. Merge(f, m) \in Conf /\ Merge(Merge(f, m), e) \in Conf
        /\ Merge(Merge(Merge(f, m), e), direct) \in Conf
    BY <1>1, MergeType
  <2>2. Loaded(d) = Merge(Merge(Merge(Merge(f, m), e), direct), hfdirs)
    BY DEF Loaded, FromFiles
  <2> HIDE DEF e, m, f
  <2> QED
    BY <1>1, <2>1, <2>2, MergeAnswers
<1>4. S[1] = hfdirs /\ S[2] = direct /\ S[3] = e /\ S[4] = m /\ S[5] = f
  OBVIOUS
<1> HIDE DEF e, m, f, S
<1>5. ASSUME NEW i \in 1 .. 5, Decides(S[i], s, k),
             \A j \in 1 .. 5 : j < i => ~Decides(S[j], s, k)
      PROVE  Effective(d, s, k) = At(S[i], s, k)
  <2>1. i \in D /\ \A j \in D : i <= j
    BY <1>5
  <2>2. first = i
    BY <2>1
  <2> QED
    BY <1>2, <2>1, <2>2
<1>6. ~Decides(f, s, k) => At(f, s, k) = Unset
  BY DEF Decides, At
<1>7. CASE Decides(S[1], s, k)
  BY <1>3, <1>4, <1>5, <1>7
<1>8. CASE ~Decides(S[1], s, k) /\ Decides(S[2], s, k)
  <2>1. \A j \in 1 .. 5 : j < 2 => ~Decides(S[j], s, k)
    BY <1>8
  <2> QED
    BY <1>3, <1>4, <1>5, <1>8, <2>1
<1>9. CASE ~Decides(S[1], s, k) /\ ~Decides(S[2], s, k) /\ Decides(S[3], s, k)
  <2>1. \A j \in 1 .. 5 : j < 3 => ~Decides(S[j], s, k)
    BY <1>9
  <2> QED
    BY <1>3, <1>4, <1>5, <1>9, <2>1
<1>10. CASE /\ ~Decides(S[1], s, k) /\ ~Decides(S[2], s, k)
            /\ ~Decides(S[3], s, k) /\ Decides(S[4], s, k)
  <2>1. \A j \in 1 .. 5 : j < 4 => ~Decides(S[j], s, k)
    BY <1>10
  <2> QED
    BY <1>3, <1>4, <1>5, <1>10, <2>1
<1>11. CASE /\ ~Decides(S[1], s, k) /\ ~Decides(S[2], s, k)
            /\ ~Decides(S[3], s, k) /\ ~Decides(S[4], s, k)
  <2>1. CASE Decides(S[5], s, k)
    <3>1. \A j \in 1 .. 5 : j < 5 => ~Decides(S[j], s, k)
      BY <1>11
    <3> QED
      BY <1>3, <1>4, <1>5, <1>11, <2>1, <3>1
  <2>2. CASE ~Decides(S[5], s, k)
    <3>1. D = {}
      BY <1>11, <2>2
    <3> QED
      BY <1>2, <1>3, <1>4, <1>6, <1>11, <2>2, <3>1
  <2> QED
    BY <2>1, <2>2
<1> QED
  BY <1>7, <1>8, <1>9, <1>10, <1>11

-----------------------------------------------------------------------------
\* A key written into a section that is a table, or into a new section.
LEMMA EmptyTable == [k \in Key |-> Unset] \in Table
BY DEF Table

LEMMA TypedType ==
    ASSUME NEW c \in Conf, NEW type \in Section \union {App}
    PROVE  Typed(c, type) \in Conf \union Table
BY EmptyTable DEF Typed, Conf

LEMMA WroteType ==
    ASSUME wrote \in [Section -> Table],
           NEW s \in Section, NEW k \in Key, NEW v \in Value,
           wrote' = [wrote EXCEPT ![s][k] = v]
    PROVE  wrote' \in [Section -> Table]
BY DEF Table

LEMMA SetType ==
    ASSUME NEW c \in Conf, NEW s \in Section, NEW k \in Key, NEW v \in Value,
           c[s] \notin Value
    PROVE  /\ [Typed(c, s) EXCEPT ![k] = v] \in Table
           /\ [c EXCEPT ![s] = [Typed(c, s) EXCEPT ![k] = v]] \in Conf
<1>1. Typed(c, s) \in Table
  BY EmptyTable, NamesAssumption DEF Typed
<1>2. [Typed(c, s) EXCEPT ![k] = v] \in Table
  BY <1>1 DEF Table
<1> QED
  BY <1>2 DEF Conf

\* The dictionary that update merges into the other one.
LEMMA UpdateType ==
    ASSUME NEW s \in Section, NEW k \in Key, NEW v \in Value
    PROVE  [Nothing EXCEPT ![s] = [j \in Key |-> IF j = k THEN v ELSE Unset]] \in Conf
BY DEF Nothing, Conf, Table

LEMMA EnsureType ==
    ASSUME TypeOK, Ensure
    PROVE  /\ Current \in Conf
           /\ loader' \in BOOLEAN
           /\ source' \in Disks \union {NotLoaded}
<1>1. CASE raw = NotLoaded
  <2>1. disk \in Disks /\ direct \in Conf /\ hfdirs \in Conf
    BY ConstantsAssumption DEF TypeOK, Disks
  <2> QED
    BY <1>1, <2>1, LoadedType DEF Ensure, Current
<1>2. CASE raw # NotLoaded
  BY <1>2 DEF Ensure, Current, TypeOK, Disks
<1> QED
  BY <1>1, <1>2

\* The bounded counter of changes.
LEMMA ChangeType ==
    ASSUME TypeOK, Change
    PROVE  changes' \in 0 .. MaxChanges
BY ConstantsAssumption DEF TypeOK, Change

\* The type invariant is inductive.
LEMMA TypeInitially == Init => TypeOK
<1> SUFFICES ASSUME Init PROVE TypeOK
  OBVIOUS
<1>1. disk \in Disks
  BY ConstantsAssumption DEF Init, Disks
<1>2. wrote \in [Section -> Table]
  BY EmptyTable DEF Init, NoWrites
<1>3. changes \in 0 .. MaxChanges
  BY ConstantsAssumption DEF Init
<1>4. cache \in [Section \union {App} -> Conf \union Table \union {NotLoaded}]
  BY DEF Init, NothingCached
<1> QED
  BY <1>1, <1>2, <1>3, <1>4 DEF Init, TypeOK, Disks

LEMMA TypeStep == TypeOK /\ [Next]_vars => TypeOK'
<1> SUFFICES ASSUME TypeOK, [Next]_vars PROVE TypeOK'
  OBVIOUS
<1>0. TypeOK <=>
        /\ confdir \in BOOLEAN
        /\ argument \in {"none", "path", "name"}
        /\ direct \in Variables /\ hfdirs \in Variables
        /\ disk \in Disks
        /\ raw \in Conf \union {NotLoaded}
        /\ app \in Conf \union {NotLoaded}
        /\ cache \in [Section \union {App} -> Conf \union Table \union {NotLoaded}]
        /\ loader \in BOOLEAN
        /\ source \in Disks \union {NotLoaded}
        /\ wrote \in [Section -> Table]
        /\ changes \in 0 .. MaxChanges
  BY DEF TypeOK, Disks
<1>1. CASE UNCHANGED vars
  BY <1>1 DEF TypeOK, vars, environment, manager
<1>2. CASE LoadFails
  BY <1>2 DEF LoadFails, TypeOK, environment
<1>3. CASE Get
  BY <1>3, EnsureType DEF Get, TypeOK, environment, Disks
<1>4. CASE GetAppConfig
  <2>1. Loaded(disk) \in Conf
    BY <1>0, <1>4, LoadedType, ConstantsAssumption DEF GetAppConfig
  <2> QED
    BY <1>4, <2>1 DEF GetAppConfig, TypeOK, environment
<1>5. CASE Reload
  BY <1>5, EmptyTable DEF Reload, TypeOK, environment, NoWrites, NothingCached
<1>6. ASSUME NEW t \in Section \union {App}, GetTyped(t)
      PROVE  TypeOK'
  <2>1. Typed(Current, t) \in Conf \union Table
    BY <1>6, EnsureType, TypedType DEF GetTyped
  <2> QED
    BY <1>6, <2>1, EnsureType DEF GetTyped, TypeOK, environment, Disks
<1>7. ASSUME NEW s \in Section, NEW k \in Key, NEW v \in Value, SetKey(s, k, v)
      PROVE  TypeOK'
  <2>1. raw' \in Conf
    BY <1>7, EnsureType, SetType DEF SetKey
  <2> QED
    BY <1>7, <2>1, EnsureType, WroteType, ChangeType
    DEF SetKey, TypeOK, environment, NothingCached, Disks
<1>8. ASSUME NEW s \in Section, NEW k \in Key, NEW v \in Value, Update(s, k, v)
      PROVE  TypeOK'
  <2>1. raw' \in Conf
    BY <1>8, EnsureType, UpdateType, MergeType DEF Update
  <2> QED
    BY <1>8, <2>1, EnsureType, WroteType, ChangeType
    DEF Update, TypeOK, environment, NothingCached, Disks
<1>9. ASSUME NEW f \in File, Save(f)
      PROVE  TypeOK'
  <2>1. Current \in Conf
    BY <1>9, EnsureType DEF Save
  <2>2. disk' \in Disks
    BY <1>0, <1>9, <2>1 DEF Save, Disks
  <2> QED
    BY <1>9, <2>1, <2>2, EnsureType, ChangeType DEF Save, TypeOK, environment, Disks
<1>10. ASSUME NEW f \in File, Edit(f)
       PROVE  TypeOK'
  <2>1. disk' \in Disks
    BY <1>0, <1>10, ConstantsAssumption DEF Edit, Disks
  <2> QED
    BY <1>10, <2>1, ChangeType DEF Edit, TypeOK, environment, manager, Disks
<1> QED
  BY <1>1, <1>2, <1>3, <1>4, <1>5, <1>6, <1>7, <1>8, <1>9, <1>10 DEF Next

\* The state keeps its types.
THEOREM TypeCorrect == Spec => []TypeOK
BY TypeInitially, TypeStep, PTL DEF Spec

-----------------------------------------------------------------------------
\* The files that a loaded dictionary came from are files that load, and
\* nothing was written since to a dictionary that is not there.
Traced == IF raw = NotLoaded THEN wrote = NoWrites ELSE source \in Disks

Precedence == PrecedenceHolds /\ Traced

\* What the sources decide depends on the environment and the files alone,
\* what a dictionary answers on the dictionary.
LEMMA EffectiveKept ==
    ASSUME UNCHANGED environment, UNCHANGED source,
           NEW t \in Section, NEW j \in Key
    PROVE  Effective(source, t, j)' = Effective(source, t, j)
BY DEF environment, Effective, Sources, Explicit, Main, Default

LEMMA PrecedenceKept ==
    ASSUME Precedence, UNCHANGED <<environment, raw, source, wrote>>
    PROVE  Precedence'
<1>1. raw' = raw /\ source' = source /\ wrote' = wrote /\ UNCHANGED environment
  OBVIOUS
<1>2. \A t \in Section, j \in Key : Effective(source, t, j)' = Effective(source, t, j)
  BY <1>1, EffectiveKept
<1>3. \A t \in Section, j \in Key : At(raw, t, j)' = At(raw, t, j)
  BY <1>1 DEF At
<1> QED
  BY <1>1, <1>2, <1>3 DEF Precedence, PrecedenceHolds, Traced

\* What a question finds, loaded now or before, is in the order of precedence.
LEMMA CurrentPrecedence ==
    ASSUME TypeOK, Precedence, Ensure, UNCHANGED environment
    PROVE  /\ source' \in Disks
           /\ \A s \in Section, k \in Key :
                At(Current, s, k) = IF wrote[s][k] # Unset THEN wrote[s][k]
                                    ELSE Effective(source, s, k)'
<1>1. CASE raw = NotLoaded
  <2>1. disk \in Disks /\ direct \in Conf /\ hfdirs \in Conf
    BY ConstantsAssumption DEF TypeOK, Disks
  <2>2. Loads(disk) /\ Current = Loaded(disk) /\ source' = disk /\ wrote = NoWrites
    BY <1>1 DEF Ensure, Current, Precedence, Traced
  <2>3. ASSUME NEW s \in Section, NEW k \in Key
        PROVE  /\ wrote[s][k] = Unset
               /\ At(Current, s, k) = Effective(disk, s, k)
    BY <2>1, <2>2, LoadAnswers DEF NoWrites
  <2>4. \A s \in Section, k \in Key : Effective(source, s, k)' = Effective(disk, s, k)
    BY <2>2 DEF environment, Effective, Sources, Explicit, Main, Default
  <2> QED
    BY <2>1, <2>2, <2>3, <2>4
<1>2. CASE raw # NotLoaded
  <2>1. Current = raw /\ UNCHANGED source /\ source \in Disks
    BY <1>2 DEF Ensure, Current, Precedence, Traced
  <2>2. \A s \in Section, k \in Key : Effective(source, s, k)' = Effective(source, s, k)
    BY <2>1, EffectiveKept
  <2>3. \A s \in Section, k \in Key :
          At(raw, s, k) = IF wrote[s][k] # Unset THEN wrote[s][k]
                          ELSE Effective(source, s, k)
    BY <1>2 DEF Precedence, PrecedenceHolds
  <2> QED
    BY <2>1, <2>2, <2>3
<1> QED
  BY <1>1, <1>2

LEMMA EnsurePrecedence ==
    ASSUME TypeOK, Precedence, Ensure, raw' = Current, UNCHANGED <<environment, wrote>>
    PROVE  Precedence'
<1>1. UNCHANGED environment /\ wrote' = wrote
  OBVIOUS
<1>2. raw' # NotLoaded
  BY EnsureType, NamesAssumption
<1>3. \A s \in Section, k \in Key : At(raw, s, k)' = At(Current, s, k)
  BY DEF At
<1>4. \A s \in Section, k \in Key :
        At(raw, s, k)' = IF wrote'[s][k] # Unset THEN wrote'[s][k]
                         ELSE Effective(source, s, k)'
  BY <1>1, <1>3, CurrentPrecedence
<1> QED
  BY <1>1, <1>2, <1>4, CurrentPrecedence DEF Precedence, PrecedenceHolds, Traced

\* Both ways of writing a key change the answer for that key only.
LEMMA SetAnswers ==
    ASSUME NEW c \in Conf, NEW s \in Section, NEW k \in Key, NEW v \in Value,
           c[s] \notin Value, NEW t \in Section, NEW j \in Key
    PROVE  At([c EXCEPT ![s] = [Typed(c, s) EXCEPT ![k] = v]], t, j)
             = IF t = s /\ j = k THEN v ELSE At(c, t, j)
<1>1. CASE t # s
  BY <1>1 DEF At, Conf
<1>2. CASE t = s
  <2>1. [c EXCEPT ![s] = [Typed(c, s) EXCEPT ![k] = v]][t]
          = [Typed(c, s) EXCEPT ![k] = v]
    BY <1>2 DEF Conf
  <2>2. [Typed(c, s) EXCEPT ![k] = v] \in Table
    BY SetType
  <2>3. [Typed(c, s) EXCEPT ![k] = v][j] = IF j = k THEN v ELSE At(c, s, j)
    BY NamesAssumption, EmptyTable DEF Typed, At, Table
  <2> QED
    BY <1>2, <2>1, <2>2, <2>3 DEF At
<1> QED
  BY <1>1, <1>2

LEMMA UpdateAnswers ==
    ASSUME NEW c \in Conf, NEW s \in Section, NEW k \in Key, NEW v \in Value,
           NEW t \in Section, NEW j \in Key
    PROVE  At(Merge(c, [Nothing EXCEPT ![s] =
                            [i \in Key |-> IF i = k THEN v ELSE Unset]]), t, j)
             = IF t = s /\ j = k THEN v ELSE At(c, t, j)
<1> DEFINE table == [i \in Key |-> IF i = k THEN v ELSE Unset]
           u == [Nothing EXCEPT ![s] = table]
<1>1. u \in Conf /\ table \in Table
  BY UpdateType DEF Table
<1>2. u[t] = IF t = s THEN table ELSE Unset
  BY DEF Nothing
<1>3. Decides(u, t, j) <=> t = s /\ j = k
  BY <1>1, <1>2, NamesAssumption DEF Decides
<1>4. t = s /\ j = k => At(u, t, j) = v
  BY <1>1, <1>2 DEF At
<1> HIDE DEF u
<1>5. At(Merge(c, u), t, j) = IF t = s /\ j = k THEN v ELSE At(c, t, j)
  BY <1>1, <1>3, <1>4, MergeAnswers
<1> QED
  BY <1>5 DEF u

LEMMA WrittenPrecedence ==
    ASSUME TypeOK, Precedence, Ensure, raw' # NotLoaded,
           NEW s \in Section, NEW k \in Key, NEW v \in Value,
           wrote' = [wrote EXCEPT ![s][k] = v],
           UNCHANGED environment,
           \A t \in Section, j \in Key :
               At(raw', t, j) = IF t = s /\ j = k THEN v ELSE At(Current, t, j)
    PROVE  Precedence'
<1>1. ASSUME NEW t \in Section, NEW j \in Key
      PROVE  At(raw', t, j) = IF wrote'[t][j] # Unset THEN wrote'[t][j]
                              ELSE Effective(source, t, j)'
  <2>1. wrote'[t][j] = IF t = s /\ j = k THEN v ELSE wrote[t][j]
    BY DEF TypeOK, Table
  <2>2. v # Unset
    BY NamesAssumption
  <2>3. At(Current, t, j) = IF wrote[t][j] # Unset THEN wrote[t][j]
                            ELSE Effective(source, t, j)'
    BY CurrentPrecedence
  <2> QED
    BY <2>1, <2>2, <2>3
<1>2. \A t \in Section, j \in Key : At(raw, t, j)' = At(raw', t, j)
  BY DEF At
<1> QED
  BY <1>1, <1>2, CurrentPrecedence DEF Precedence, PrecedenceHolds, Traced

LEMMA PrecedenceStep == TypeOK /\ Precedence /\ [Next]_vars => Precedence'
<1> SUFFICES ASSUME TypeOK, Precedence, [Next]_vars PROVE Precedence'
  OBVIOUS
<1>1. ASSUME UNCHANGED <<environment, raw, source, wrote>>
      PROVE  Precedence'
  BY <1>1, PrecedenceKept
<1>2. CASE \/ Get
           \/ \E t \in Section \union {App} : GetTyped(t)
           \/ \E f \in File : Save(f)
  <2>1. Ensure /\ raw' = Current /\ UNCHANGED <<environment, wrote>>
    BY <1>2 DEF Get, GetTyped, Save
  <2> QED
    BY <2>1, EnsurePrecedence
<1>3. CASE Reload
  BY <1>3 DEF Reload, Precedence, PrecedenceHolds, Traced
<1>4. ASSUME NEW s \in Section, NEW k \in Key, NEW v \in Value, SetKey(s, k, v)
      PROVE  Precedence'
  <2>1. Ensure /\ Current \in Conf /\ Current[s] \notin Value
    BY <1>4, EnsureType DEF SetKey
  <2>2. raw' = [Current EXCEPT ![s] = [Typed(Current, s) EXCEPT ![k] = v]]
    BY <1>4 DEF SetKey
  <2>3. ASSUME NEW t \in Section, NEW j \in Key
        PROVE  At(raw', t, j) = IF t = s /\ j = k THEN v ELSE At(Current, t, j)
    <3>1. At([Current EXCEPT ![s] = [Typed(Current, s) EXCEPT ![k] = v]], t, j)
            = IF t = s /\ j = k THEN v ELSE At(Current, t, j)
      BY <2>1, SetAnswers
    <3> QED
      BY <2>2, <3>1
  <2>4. raw' # NotLoaded
    BY <2>1, <2>2, SetType, NamesAssumption
  <2> QED
    BY <1>4, <2>1, <2>3, <2>4, WrittenPrecedence DEF SetKey
<1>5. ASSUME NEW s \in Section, NEW k \in Key, NEW v \in Value, Update(s, k, v)
      PROVE  Precedence'
  <2>1. Ensure /\ Current \in Conf
    BY <1>5, EnsureType DEF Update
  <2>2. raw' = Merge(Current, [Nothing EXCEPT ![s] =
                                 [i \in Key |-> IF i = k THEN v ELSE Unset]])
    BY <1>5 DEF Update
  <2>3. ASSUME NEW t \in Section, NEW j \in Key
        PROVE  At(raw', t, j) = IF t = s /\ j = k THEN v ELSE At(Current, t, j)
    BY <2>1, <2>2, UpdateAnswers
  <2>4. raw' # NotLoaded
    BY <2>1, <2>2, UpdateType, MergeType, NamesAssumption
  <2> QED
    BY <1>5, <2>1, <2>3, <2>4, WrittenPrecedence DEF Update
<1>6. CASE UNCHANGED vars
  BY <1>1, <1>6 DEF vars, manager
<1>7. CASE LoadFails \/ GetAppConfig \/ \E f \in File : Edit(f)
  BY <1>1, <1>7 DEF LoadFails, GetAppConfig, Edit, manager
<1> QED
  BY <1>2, <1>3, <1>4, <1>5, <1>6, <1>7 DEF Next

\* The order of precedence, for any sections, keys, values and files.
THEOREM PrecedenceCorrect == Spec => []PrecedenceHolds
<1>1. Init => Precedence
  BY DEF Init, Precedence, PrecedenceHolds, Traced
<1>2. Precedence => PrecedenceHolds
  BY DEF Precedence
<1> QED
  BY <1>1, <1>2, PrecedenceStep, TypeCorrect, PTL DEF Spec

\* A typed configuration is what the dictionary says now.
LEMMA TypedStep == TypeOK /\ TypedIsCurrent /\ [Next]_vars => TypedIsCurrent'
<1> SUFFICES ASSUME TypeOK, TypedIsCurrent, [Next]_vars PROVE TypedIsCurrent'
  OBVIOUS
<1>1. ASSUME UNCHANGED <<raw, cache>>
      PROVE  TypedIsCurrent'
  BY <1>1 DEF TypedIsCurrent, Typed
<1>2. ASSUME cache' = NothingCached
      PROVE  TypedIsCurrent'
  BY <1>2 DEF TypedIsCurrent, NothingCached
<1>3. ASSUME Ensure, raw' = Current
      PROVE  /\ raw' # NotLoaded
             /\ \A t \in Section \union {App} : cache[t] # NotLoaded => raw' = raw
             /\ \A t \in Section \union {App} : Typed(raw, t)' = Typed(Current, t)
  BY <1>3, EnsureType, NamesAssumption DEF Current, TypedIsCurrent, Typed
<1>4. CASE Get \/ \E f \in File : Save(f)
  <2>1. Ensure /\ raw' = Current /\ cache' = cache
    BY <1>4 DEF Get, Save
  <2> QED
    BY <1>3, <2>1 DEF TypedIsCurrent
<1>5. ASSUME NEW type \in Section \union {App}, GetTyped(type)
      PROVE  TypedIsCurrent'
  <2>1. Ensure /\ raw' = Current /\ cache' = [cache EXCEPT ![type] = Typed(Current, type)]
    BY <1>5 DEF GetTyped
  <2> QED
    BY <1>3, <2>1 DEF TypedIsCurrent, TypeOK
<1>6. CASE LoadFails \/ GetAppConfig \/ (\E f \in File : Edit(f)) \/ UNCHANGED vars
  BY <1>1, <1>6 DEF LoadFails, GetAppConfig, Edit, manager, vars
<1>7. CASE Reload \/ \E s \in Section, k \in Key, v \in Value : SetKey(s, k, v) \/ Update(s, k, v)
  BY <1>2, <1>7 DEF Reload, SetKey, Update
<1> QED
  BY <1>4, <1>5, <1>6, <1>7 DEF Next

\* No typed configuration outlives a set, an update or a reload.
THEOREM TypedCurrent == Spec => []TypedIsCurrent
<1>1. Init => TypedIsCurrent
  BY DEF Init, TypedIsCurrent, NothingCached
<1> QED
  BY <1>1, TypedStep, TypeCorrect, PTL DEF Spec
=============================================================================
