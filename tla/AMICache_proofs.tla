--------------------------- MODULE AMICache_proofs --------------------------
(***************************************************************************)
(* For any processes, parameters and images, however long it runs: no AMI  *)
(* is served but a recent answer for its parameter, until a file with      *)
(* bytes of two writers is taken for a good one; and as long as the        *)
(* processes do not overlap, the file is whole and what one has learned    *)
(* the next ones know.                                                     *)
(***************************************************************************)
EXTENDS AMICache, TLAPS

USE AMICacheAssumption

Saving == {"open", "write", "writeRest", "rename"}

(* Every entry is an answer for the parameter it is stored under. *)
Genuine(m) ==
    \A q \in Param : m[q] # NoEntry =>
        [param |-> q, image |-> m[q].image, at |-> m[q].at] \in answers

GenuineContent(c) == c \in Memory => Genuine(c)

AllGenuine ==
    /\ \A a \in answers : a.at <= now
    /\ ~garbled =>
         /\ \A p \in Process : Genuine(mem[p])
         /\ GenuineContent(file) /\ GenuineContent(tmp)

(* One process at a time: what it has written so far is its own.           *)
Alone ==
    ~shared =>
        /\ \A p, u \in Process : pc[p] # "off" /\ pc[u] # "off" => p = u
        /\ \A p \in Process :
             /\ handle[p] \in {"none", "tmp"}
             /\ pc[p] \in {"write", "writeRest"} => handle[p] = "tmp"
             /\ pc[p] = "write" => tmp = Unwritten
             /\ pc[p] = "writeRest" => tmp = p
             /\ pc[p] = "rename" => tmp = mem[p]

Old(a) == now - a.at > TTL

Knows(m, a) == m[a.param] # NoEntry /\ m[a.param].at >= a.at

(* Every answer that is not too old is known to the process that runs,     *)
(* and, unless it is about to save, to the file.                           *)
Remembered ==
    (~shared /\ ~faulty) => \A a \in answers : Old(a) \/
        /\ \A p \in Process : pc[p] # "off" => Knows(mem[p], a)
        /\ (\A p \in Process : pc[p] \notin Saving) =>
             file # Absent /\ Knows(file, a)

-----------------------------------------------------------------------------
(* The type invariant of the cache (RuntimeAMICache, in every process). *)
THEOREM TypeCorrect == Spec => []TypeOK
<1>1. Init => TypeOK
    <2>1. Empty \in Memory
        BY DEF Empty, Memory
    <2> SUFFICES ASSUME Init PROVE TypeOK
        OBVIOUS
    <2>2. /\ now \in Nat
          /\ file \in Content \union {Absent} /\ tmp \in Content \union {Absent}
          /\ answers \subseteq Answer
          /\ shared \in BOOLEAN /\ garbled \in BOOLEAN /\ faulty \in BOOLEAN
        BY DEF Init
    <2>3. pc \in [Process -> Place] /\ handle \in [Process -> Handle]
        BY DEF Init, Place, Handle
    <2>4. mem \in [Process -> Memory] /\ arg \in [Process -> Param \union {NoParam}]
        BY <2>1 DEF Init
    <2>5. \A p \in Process : handle[p] = "none" /\ pc[p] = "off"
        BY DEF Init
    <2> QED
        BY <2>2, <2>3, <2>4, <2>5 DEF TypeOK
<1>2. TypeOK /\ [Next]_vars => TypeOK'
    <2> SUFFICES ASSUME TypeOK, [Next]_vars PROVE TypeOK'
        OBVIOUS
    <2> USE DEF TypeOK
    <2>1. ASSUME NEW p \in Process, Start(p) PROVE TypeOK'
        <3>1. PICK m \in Readings(file) : mem' = [mem EXCEPT ![p] = Loaded(m)]
            BY <2>1 DEF Start
        <3>2. m \in Memory
            BY DEF Readings, Memory, Empty, Whole
        <3>3. Loaded(m) \in Memory
            BY <3>2 DEF Loaded, Memory
        <3> QED
            BY <2>1, <3>1, <3>3 DEF Start, Goto, disk, Place
    <2>2. ASSUME NEW p \in Process, NEW q \in Param, Take(p, q) PROVE TypeOK'
        BY <2>2 DEF Take, Goto, disk, history, Place
    <2>3. ASSUME NEW p \in Process, Hit(p) PROVE TypeOK'
        BY <2>3 DEF Hit, Goto, Finish, disk, history, Place
    <2>4. ASSUME NEW p \in Process, RemoveExpired(p) PROVE TypeOK'
        <3>1. mem' \in [Process -> Memory]
            BY <2>4 DEF RemoveExpired, Memory
        <3> QED
            BY <2>4, <3>1 DEF RemoveExpired, Goto, disk, history, Place
    <2>5. ASSUME NEW p \in Process, Unknown(p) PROVE TypeOK'
        BY <2>5 DEF Unknown, Goto, disk, history, Place
    <2>6. ASSUME NEW p \in Process, NEW i \in Image, Answered(p, i) PROVE TypeOK'
        <3>1. [image |-> i, at |-> now] \in Entry
            BY DEF Entry
        <3>2. mem' \in [Process -> Memory]
            BY <2>6, <3>1 DEF Answered, Memory
        <3>3. answers' \subseteq Answer
            BY <2>6 DEF Answered, Answer
        <3> QED
            BY <2>6, <3>2, <3>3 DEF Answered, Goto, Finish, disk, Place
    <2>7. ASSUME NEW p \in Process, NoAnswer(p) PROVE TypeOK'
        BY <2>7 DEF NoAnswer, Goto, Finish, disk, history, Place
    <2>8. ASSUME NEW p \in Process, Open(p) PROVE TypeOK'
        BY <2>8 DEF Open, Goto, history, Place, Handle, Content
    <2>9. ASSUME NEW p \in Process, WriteFirst(p) PROVE TypeOK'
        <3>1. tmp' \in Content \union {Absent} /\ file' \in Content \union {Absent}
            BY <2>9 DEF WriteFirst, Write, Content
        <3>2. (tmp # Absent => tmp' # Absent) /\ (file # Absent => file' # Absent)
            BY <2>9 DEF WriteFirst, Write, Content
        <3> QED
            BY <2>9, <3>1, <3>2 DEF WriteFirst, Goto, history, Place, Handle
    <2>10. ASSUME NEW p \in Process, WriteRest(p) PROVE TypeOK'
        <3>1. tmp' \in Content \union {Absent} /\ file' \in Content \union {Absent}
            BY <2>10 DEF WriteRest, Write, Content
        <3>2. (tmp # Absent => tmp' # Absent) /\ (file # Absent => file' # Absent)
            BY <2>10 DEF WriteRest, Write, Content
        <3> QED
            BY <2>10, <3>1, <3>2 DEF WriteRest, Goto, history, Place, Handle
    <2>11. ASSUME NEW p \in Process, Rename(p) PROVE TypeOK'
        <3>1. CASE tmp = Absent
            BY <2>11, <3>1 DEF Rename, AfterSave, Goto, disk, history, Place
        <3>2. CASE tmp # Absent
            BY <2>11, <3>2 DEF Rename, AfterSave, Goto, history, Place, Handle
        <3> QED
            BY <3>1, <3>2
    <2>12. ASSUME NEW p \in Process, SaveFails(p) PROVE TypeOK'
        BY <2>12 DEF SaveFails, AfterSave, Goto, disk, Place, Handle
    <2>13. ASSUME NEW p \in Process, End(p) PROVE TypeOK'
        <3>1. Empty \in Memory
            BY DEF Empty, Memory
        <3> QED
            BY <2>13, <3>1 DEF End, Finish, Goto, disk, Place, Handle
    <2>14. CASE Tick
        BY <2>14 DEF Tick, disk, process, history
    <2>15. CASE UNCHANGED vars
        BY <2>15 DEF vars, disk, process, history
    <2> QED
        BY <2>1, <2>2, <2>3, <2>4, <2>5, <2>6, <2>7, <2>8, <2>9, <2>10, <2>11,
           <2>12, <2>13, <2>14, <2>15 DEF Next, Run, Resolve, Save
<1> QED
    BY <1>1, <1>2, PTL DEF Spec

-----------------------------------------------------------------------------
(* What is read from a file that one process wrote is genuine. *)
LEMMA ReadingGenuine ==
    ASSUME TypeOK, AllGenuine, ~garbled, NEW m \in Readings(file),
           ~(file = Mixed /\ m # Empty)
    PROVE  Genuine(Loaded(m))
<1>1. Genuine(m)
    <2>1. CASE m = Empty
        BY <2>1 DEF Genuine, Empty
    <2>2. CASE m # Empty
        <3>1. file \in Memory /\ m = file
            BY <2>2 DEF Readings, Whole
        <3> QED
            BY <3>1 DEF AllGenuine, GenuineContent
    <2> QED
        BY <2>1, <2>2
<1> QED
    BY <1>1 DEF Loaded, Genuine

LEMMA GenuineHolds == Spec => []AllGenuine
<1>1. Init => AllGenuine
    BY DEF Init, AllGenuine, Genuine, GenuineContent, Empty, Content
<1>2. TypeOK /\ AllGenuine /\ [Next]_vars => AllGenuine'
    <2> SUFFICES ASSUME TypeOK, AllGenuine, [Next]_vars PROVE AllGenuine'
        OBVIOUS
    <2>1. ASSUME answers' = answers, now' = now, mem' = mem, disk' = disk, garbled' = garbled
          PROVE  AllGenuine'
        BY <2>1 DEF AllGenuine, Genuine, GenuineContent, disk
    <2>2. ASSUME NEW p \in Process, Start(p) PROVE AllGenuine'
        <3>1. PICK m \in Readings(file) :
                /\ mem' = [mem EXCEPT ![p] = Loaded(m)]
                /\ garbled' = (garbled \/ (file = Mixed /\ m # Empty))
            BY <2>2 DEF Start
        <3>2. UNCHANGED <<now, file, tmp, answers>>
            BY <2>2 DEF Start, disk
        <3>3. ASSUME ~garbled' PROVE ~garbled /\ \A u \in Process : Genuine(mem'[u])
            <4>1. ~garbled /\ Genuine(Loaded(m))
                BY <3>1, <3>3, ReadingGenuine
            <4> QED
                BY <3>1, <4>1 DEF TypeOK, AllGenuine
        <3> QED
            BY <3>2, <3>3 DEF AllGenuine, Genuine, GenuineContent
    <2>3. ASSUME NEW p \in Process, RemoveExpired(p) PROVE AllGenuine'
        <3>1. ~garbled => \A u \in Process : Genuine(mem'[u])
            BY <2>3 DEF RemoveExpired, AllGenuine, Genuine, TypeOK, Memory
        <3> QED
            BY <2>3, <3>1 DEF RemoveExpired, AllGenuine, Genuine, GenuineContent, disk, history
    <2>4. ASSUME NEW p \in Process, NEW i \in Image, Answered(p, i) PROVE AllGenuine'
        <3>1. answers \subseteq answers' /\ UNCHANGED <<now, file, tmp, garbled>>
            BY <2>4 DEF Answered, disk
        <3>2. ~garbled => \A u \in Process : Genuine(mem[u])'
            <4> SUFFICES ASSUME ~garbled, NEW u \in Process, NEW q \in Param, mem'[u][q] # NoEntry
                         PROVE  [param |-> q, image |-> mem'[u][q].image,
                                 at |-> mem'[u][q].at] \in answers'
                BY DEF Genuine
            <4>1. pc[p] = "ask" /\ arg[p] \in Param
                BY <2>4 DEF Answered, TypeOK
            <4>2. CASE u = p /\ q = arg[p]
                <5>1. mem'[u][q] = [image |-> i, at |-> now]
                    BY <2>4, <4>1, <4>2 DEF Answered, TypeOK, Memory
                <5> QED
                    BY <2>4, <4>2, <5>1 DEF Answered
            <4>3. CASE ~(u = p /\ q = arg[p])
                <5>1. mem'[u][q] = mem[u][q]
                    BY <2>4, <4>1, <4>3 DEF Answered, TypeOK, Memory
                <5> QED
                    BY <3>1, <5>1 DEF AllGenuine, Genuine
            <4> QED
                BY <4>2, <4>3
        <3>3. \A a \in answers' : a.at <= now'
            BY <2>4 DEF Answered, AllGenuine, TypeOK, Answer
        <3>4. ~garbled => GenuineContent(file)' /\ GenuineContent(tmp)'
            BY <3>1 DEF AllGenuine, GenuineContent, Genuine
        <3> QED
            BY <3>1, <3>2, <3>3, <3>4 DEF AllGenuine
    <2>5. ASSUME NEW p \in Process, Open(p) PROVE AllGenuine'
        <3>1. GenuineContent(tmp')
            BY <2>5 DEF Open, GenuineContent
        <3> QED
            BY <2>5, <3>1 DEF Open, AllGenuine, Genuine, GenuineContent, history
    <2>6. ASSUME NEW p \in Process, WriteFirst(p) \/ WriteRest(p) PROVE AllGenuine'
        <3>1. \A c \in {tmp', file'} : c \in {tmp, file, mem[p]} \/ c \notin Memory
            BY <2>6 DEF WriteFirst, WriteRest, Write
        <3>2. UNCHANGED <<now, mem, answers, garbled>>
            BY <2>6 DEF WriteFirst, WriteRest, history
        <3>3. ~garbled => GenuineContent(tmp') /\ GenuineContent(file')
            BY <3>1 DEF AllGenuine, GenuineContent
        <3> QED
            BY <3>2, <3>3 DEF AllGenuine, Genuine, GenuineContent
    <2>7. ASSUME NEW p \in Process, Rename(p) PROVE AllGenuine'
        <3>1. ~garbled => GenuineContent(tmp') /\ GenuineContent(file')
            BY <2>7 DEF Content, Rename, AllGenuine, GenuineContent, disk
        <3> QED
            BY <2>7, <3>1 DEF Rename, AllGenuine, Genuine, GenuineContent, history
    <2>8. ASSUME NEW p \in Process, End(p) PROVE AllGenuine'
        <3>1. ~garbled => \A u \in Process : Genuine(mem'[u])
            BY <2>8 DEF End, AllGenuine, Genuine, Empty, TypeOK
        <3> QED
            BY <2>8, <3>1 DEF End, AllGenuine, Genuine, GenuineContent, disk
    <2>9. CASE Tick
        BY <2>9 DEF Tick, AllGenuine, Genuine, GenuineContent, TypeOK, Answer, disk, process, history
    <2>10. CASE UNCHANGED vars
        BY <2>1, <2>10 DEF vars, process, history
    <2>11. ASSUME NEW p \in Process,
                  \/ \E q \in Param : Take(p, q)
                  \/ Hit(p) \/ Unknown(p) \/ NoAnswer(p) \/ SaveFails(p)
           PROVE  AllGenuine'
        BY <2>1, <2>11 DEF Take, Hit, Unknown, NoAnswer, SaveFails, history
    <2> QED
        BY <2>2, <2>3, <2>4, <2>5, <2>6, <2>7, <2>8, <2>9, <2>10, <2>11
           DEF Next, Run, Resolve, Save
<1> QED
    BY <1>1, <1>2, TypeCorrect, PTL DEF Spec

-----------------------------------------------------------------------------
(* Only finding a live entry takes a process from its lookup back to its   *)
(* templates.                                                              *)
LEMMA ServingIsHit ==
    ASSUME TypeOK, NEW p \in Process, Serves(p), [Next]_vars
    PROVE  Hit(p)
<1>1. pc[p] = "lookup" /\ pc'[p] = "idle" /\ pc \in [Process -> Place]
    BY DEF Serves, TypeOK
<1>2. PICK u \in Process : Run(u)
    BY <1>1 DEF Next, Tick, vars, process
<1>3. u = p
    <2>1. \E place \in Place : pc' = [pc EXCEPT ![u] = place]
        BY <1>2 DEF Run, Resolve, Save, Start, Take, Hit, RemoveExpired, Unknown, Answered,
           NoAnswer, Open, WriteFirst, WriteRest, Rename, SaveFails, End, AfterSave, Goto, Place
    <2> QED
        BY <1>1, <2>1
<1> QED
    BY <1>1, <1>2, <1>3 DEF Run, Resolve, Save, Start, Take, RemoveExpired, Unknown, Answered,
       NoAnswer, Open, WriteFirst, WriteRest, Rename, SaveFails, End, Goto

(* What is served is a recent answer of SSM for the parameter asked for    *)
(* (RuntimeAMICache.get), whatever the processes do to each other's file,  *)
(* until one takes bytes of two writers for a good file.                   *)
THEOREM FreshServed == Spec => ServedIsFresh
<1>1. TypeOK /\ AllGenuine /\ [Next]_vars =>
        [\A p \in Process : (Serves(p) /\ ~garbled) =>
            \E a \in answers : /\ a.param = arg[p] /\ a.image = Cached(p).image
                               /\ a.at <= now /\ now - a.at <= TTL]_vars
    <2> SUFFICES ASSUME TypeOK, AllGenuine, [Next]_vars, NEW p \in Process, Serves(p), ~garbled
                 PROVE  \E a \in answers : /\ a.param = arg[p] /\ a.image = Cached(p).image
                                           /\ a.at <= now /\ now - a.at <= TTL
        OBVIOUS
    <2>1. Hit(p)
        BY ServingIsHit
    <2>2. arg[p] \in Param /\ Cached(p) # NoEntry /\ ~Expired(Cached(p))
        BY <2>1 DEF Hit, TypeOK
    <2> DEFINE a == [param |-> arg[p], image |-> Cached(p).image, at |-> Cached(p).at]
    <2>3. a \in answers
        BY <2>2 DEF AllGenuine, Genuine, Cached
    <2>4. a.at <= now /\ now - a.at <= TTL
        BY <2>2, <2>3 DEF AllGenuine, Expired, TypeOK, Answer
    <2> QED
        BY <2>3, <2>4
<1> QED
    BY <1>1, TypeCorrect, GenuineHolds, PTL DEF Spec, ServedIsFresh

-----------------------------------------------------------------------------
LEMMA AloneHolds == Spec => []Alone
<1>1. Init => Alone
    BY DEF Init, Alone
<1>2. TypeOK /\ Alone /\ [Next]_vars => Alone'
    <2> SUFFICES ASSUME TypeOK, Alone, [Next]_vars, ~shared' PROVE Alone'
        BY DEF Alone
    <2> USE DEF Alone
    <2>1. ~shared
        BY DEF Next, Run, Resolve, Save, Start, Take, Hit, RemoveExpired, Unknown, Answered,
           NoAnswer, Open, WriteFirst, WriteRest, Rename, SaveFails, End, Tick, history, vars
    <2>2. ASSUME NEW p \in Process, Start(p) PROVE Alone'
        BY <2>1, <2>2 DEF Start, Goto, disk, TypeOK
    <2>3. ASSUME NEW p \in Process,
                 (\E q \in Param : Take(p, q)) \/ Hit(p) \/ Unknown(p) \/ NoAnswer(p)
          PROVE  Alone'
        BY <2>1, <2>3 DEF Take, Hit, Unknown, NoAnswer, Goto, disk, TypeOK
    <2>4. ASSUME NEW p \in Process, RemoveExpired(p) PROVE Alone'
        BY <2>1, <2>4 DEF RemoveExpired, Goto, disk, TypeOK
    <2>5. ASSUME NEW p \in Process, NEW i \in Image, Answered(p, i) PROVE Alone'
        BY <2>1, <2>5 DEF Answered, Goto, disk, TypeOK
    <2>6. ASSUME NEW p \in Process, Open(p) PROVE Alone'
        BY <2>1, <2>6 DEF Open, Goto, TypeOK
    <2>7. ASSUME NEW p \in Process, WriteFirst(p) PROVE Alone'
        <3>1. pc[p] = "write" /\ handle[p] = "tmp" /\ tmp' = p
            BY <2>1, <2>7 DEF WriteFirst, Write
        <3> QED
            BY <2>1, <2>7, <3>1 DEF WriteFirst, Goto, TypeOK
    <2>8. ASSUME NEW p \in Process, WriteRest(p) PROVE Alone'
        <3>1. pc[p] = "writeRest" /\ handle[p] = "tmp" /\ tmp' = mem[p]
            BY <2>1, <2>8 DEF WriteRest, Write
        <3> QED
            BY <2>1, <2>8, <3>1 DEF WriteRest, Goto, TypeOK
    <2>9. ASSUME NEW p \in Process, Rename(p) PROVE Alone'
        <3>1. \A u \in Process : pc[u] # "off" => u = p
            BY <2>1, <2>9 DEF Rename
        <3>2. \A u \in Process : handle[u] = "none"
            BY <2>1, <2>9, <3>1 DEF Rename, TypeOK
        <3>3. \A u \in Process : handle'[u] = "none"
            BY <2>9, <3>2 DEF Rename
        <3>4. \A u \in Process : pc'[u] \in {"off", "idle", "lookup"}
            BY <2>9, <3>1 DEF Rename, AfterSave, Goto, TypeOK
        <3>5. \A u \in Process : pc'[u] # "off" => u = p
            BY <2>9, <3>1 DEF Rename, AfterSave, Goto, TypeOK
        <3> QED
            BY <3>3, <3>4, <3>5
    <2>10. ASSUME NEW p \in Process, SaveFails(p) PROVE Alone'
        BY <2>1, <2>10 DEF SaveFails, AfterSave, Goto, disk, TypeOK
    <2>11. ASSUME NEW p \in Process, End(p) PROVE Alone'
        BY <2>1, <2>11 DEF End, Goto, disk, TypeOK
    <2>12. CASE Tick \/ UNCHANGED vars
        BY <2>1, <2>12 DEF Tick, vars, disk, process
    <2> QED
        BY <2>2, <2>3, <2>4, <2>5, <2>6, <2>7, <2>8, <2>9, <2>10, <2>11, <2>12
           DEF Next, Run, Resolve, Save
<1> QED
    BY <1>1, <1>2, TypeCorrect, PTL DEF Spec

(* As long as no two processes have run at the same time, the file is a    *)
(* whole one (_save_to_persistent_cache).                                  *)
THEOREM FileIsWhole == Spec => []WholeUnlessShared
<1>1. Init => WholeUnlessShared
    BY DEF Init, WholeUnlessShared
<1>2. TypeOK /\ Alone /\ WholeUnlessShared /\ [Next]_vars => WholeUnlessShared'
    <2> SUFFICES ASSUME TypeOK, Alone, WholeUnlessShared, [Next]_vars,
                        ~shared', file' # Absent
                 PROVE  Whole(file')
        BY DEF WholeUnlessShared
    <2>1. ~shared
        BY DEF Next, Run, Resolve, Save, Start, Take, Hit, RemoveExpired, Unknown, Answered,
           NoAnswer, Open, WriteFirst, WriteRest, Rename, SaveFails, End, Tick, history, vars
    <2>2. CASE file' = file
        BY <2>1, <2>2 DEF WholeUnlessShared
    <2>3. CASE file' # file
        <3>1. PICK p \in Process : Rename(p)
            BY <2>1, <2>3 DEF Next, Run, Resolve, Save, Start, Take, Hit, RemoveExpired, Unknown,
               Answered, NoAnswer, Open, WriteFirst, WriteRest, Write, SaveFails, End, Tick,
               disk, vars, Alone
        <3>2. file' = tmp /\ tmp = mem[p]
            BY <2>1, <2>3, <3>1 DEF Rename, Alone, disk
        <3>3. mem[p] \in Memory
            BY DEF TypeOK
        <3> QED
            BY <3>2, <3>3 DEF Whole
    <2> QED
        BY <2>2, <2>3
<1> QED
    BY <1>1, <1>2, TypeCorrect, AloneHolds, PTL DEF Spec

-----------------------------------------------------------------------------
(* A step in which nothing is learned, forgotten or renamed keeps what is  *)
(* remembered.                                                             *)
LEMMA RememberedStays ==
    ASSUME TypeOK, Remembered, UNCHANGED <<answers, file, now>>,
           (~shared' /\ ~faulty') => (~shared /\ ~faulty),
           \A p \in Process : pc'[p] # "off" => pc[p] # "off" /\ mem'[p] = mem[p],
           (\A p \in Process : pc'[p] \notin Saving) => \A p \in Process : pc[p] \notin Saving
    PROVE  Remembered'
BY DEF Remembered, Old, Knows

LEMMA RememberedHolds == Spec => []Remembered
<1>1. Init => Remembered
    BY DEF Init, Remembered
<1>2. /\ TypeOK /\ AllGenuine /\ Alone /\ WholeUnlessShared /\ Remembered
      /\ [Next]_vars
      => Remembered'
    <2> SUFFICES ASSUME TypeOK, AllGenuine, Alone, WholeUnlessShared, Remembered,
                        [Next]_vars, ~shared', ~faulty'
                 PROVE  Remembered'
        BY DEF Remembered
    <2>1. ~shared /\ ~faulty
        <3>1. ~shared
            BY DEF Next, Run, Resolve, Save, Start, Take, Hit, RemoveExpired, Unknown, Answered,
               NoAnswer, Open, WriteFirst, WriteRest, Rename, SaveFails, End, Tick, history, vars
        <3>2. faulty => faulty'
            BY DEF Next, Run, Resolve, Save, Start, Take, Hit, RemoveExpired, Unknown, Answered,
               NoAnswer, Open, WriteFirst, WriteRest, Rename, SaveFails, End, Tick, history, vars
        <3> QED
            BY <3>1, <3>2
    <2>2. \A a \in answers : Old(a) \/
              /\ \A p \in Process : pc[p] # "off" => Knows(mem[p], a)
              /\ (\A p \in Process : pc[p] \notin Saving) =>
                   file # Absent /\ Knows(file, a)
        BY <2>1 DEF Remembered
    <2>3. ASSUME NEW p \in Process, Start(p) PROVE Remembered'
        <3>1. PICK m \in Readings(file) : mem' = [mem EXCEPT ![p] = Loaded(m)]
            BY <2>3 DEF Start
        <3>2. /\ \A u \in Process : pc[u] = "off"
              /\ \A u \in Process : pc'[u] # "off" => u = p
              /\ UNCHANGED <<answers, file, now>>
            BY <2>3 DEF Start, Goto, disk, TypeOK
        <3>3. ASSUME NEW a \in answers, ~Old(a) PROVE Knows(mem'[p], a)
            <4>1. file # Absent /\ Knows(file, a) /\ file \in Content
                BY <2>2, <3>2, <3>3 DEF Saving, TypeOK
            <4>2. Whole(file)
                BY <2>1, <4>1 DEF WholeUnlessShared
            <4>3. m = file /\ m \in Memory
                BY <4>1, <4>2 DEF Readings, Whole
            <4>4. a.param \in Param /\ a.at \in Nat /\ m[a.param] \in Entry /\ now \in Nat
                BY <4>1, <4>3 DEF TypeOK, Answer, Knows, Memory
            <4>5. Loaded(m)[a.param] = m[a.param]
                BY <3>3, <4>1, <4>3, <4>4 DEF Loaded, Old, Knows, Entry
            <4> QED
                BY <3>1, <4>1, <4>3, <4>5 DEF Knows, TypeOK
        <3>4. \A u \in Process : pc[u] \notin Saving
            BY <3>2 DEF Saving
        <3>5. \A a \in answers : ~Old(a) => file # Absent /\ Knows(file, a)
            BY <2>2, <3>4
        <3>6. \A a \in answers' : Old(a)' \/
                  /\ \A u \in Process : pc'[u] # "off" => Knows(mem'[u], a)
                  /\ file' # Absent /\ Knows(file', a)
            BY <3>2, <3>3, <3>5 DEF Old
        <3> QED
            BY <3>6 DEF Remembered, Knows
    <2>4. ASSUME NEW p \in Process, RemoveExpired(p) PROVE Remembered'
        <3>1. /\ pc[p] = "lookup" /\ arg[p] \in Param /\ Expired(mem[p][arg[p]])
              /\ pc'[p] \in Saving
              /\ UNCHANGED <<answers, file, now>>
              /\ \A u \in Process : u # p => pc[u] = "off" /\ pc'[u] = "off"
            BY <2>1, <2>4 DEF RemoveExpired, Goto, disk, history, TypeOK, Alone, Saving, Cached
        <3>2. ASSUME NEW a \in answers, ~Old(a) PROVE Knows(mem'[p], a)
            <4>1. Knows(mem[p], a) /\ a \in Answer /\ mem[p] \in Memory /\ now \in Nat
                BY <2>2, <3>1, <3>2 DEF TypeOK
            <4>2. a.param \in Param /\ a.at \in Nat /\ mem[p][a.param] \in Entry
                BY <4>1 DEF Answer, Knows, Memory
            <4>3. a.param # arg[p]
                BY <3>1, <3>2, <4>1, <4>2 DEF Knows, Expired, Old, Entry
            <4> QED
                BY <2>4, <4>1, <4>2, <4>3 DEF RemoveExpired, Knows, TypeOK, Memory
        <3> QED
            BY <3>1, <3>2 DEF Remembered, Old, Knows
    <2>5. ASSUME NEW p \in Process, NEW i \in Image, Answered(p, i) PROVE Remembered'
        <3>1. /\ pc[p] = "ask" /\ arg[p] \in Param
              /\ pc'[p] \in Saving
              /\ UNCHANGED <<file, now>>
              /\ answers' = answers \union {[param |-> arg[p], image |-> i, at |-> now]}
              /\ \A u \in Process : u # p => pc[u] = "off" /\ pc'[u] = "off"
            BY <2>1, <2>5 DEF Answered, Goto, disk, TypeOK, Alone, Saving
        <3>2. ASSUME NEW a \in answers', ~Old(a) PROVE Knows(mem'[p], a)
            <4>1. /\ mem[p] \in Memory /\ now \in Nat
                  /\ mem' = [mem EXCEPT ![p][arg[p]] = [image |-> i, at |-> now]]
                BY <2>5 DEF TypeOK, Answered
            <4>2. CASE a.param = arg[p]
                <5>1. a.at <= now
                    BY <3>1, <3>2, <4>1 DEF AllGenuine
                <5>2. mem'[p][a.param] = [image |-> i, at |-> now]
                    BY <3>1, <4>1, <4>2 DEF TypeOK, Memory
                <5>3. [image |-> i, at |-> now] # NoEntry
                    BY <4>1 DEF Entry
                <5> QED
                    BY <5>1, <5>2, <5>3 DEF Knows
            <4>3. CASE a.param # arg[p]
                <5>1. a \in answers /\ a \in Answer
                    BY <3>1, <3>2, <4>3 DEF TypeOK
                <5>2. Knows(mem[p], a) /\ a.param \in Param
                    BY <2>2, <3>1, <3>2, <5>1 DEF Answer
                <5>3. mem'[p][a.param] = mem[p][a.param]
                    BY <3>1, <4>1, <4>3, <5>2 DEF TypeOK, Memory
                <5> QED
                    BY <5>2, <5>3 DEF Knows
            <4> QED
                BY <4>2, <4>3
        <3> QED
            BY <3>1, <3>2 DEF Remembered, Old, Knows
    <2>6. ASSUME NEW p \in Process, Rename(p) PROVE Remembered'
        <3>0. tmp = mem[p] /\ tmp \in Memory
            BY <2>1, <2>6 DEF Rename, TypeOK, Alone
        <3>1. /\ pc[p] = "rename" /\ tmp # Absent /\ tmp = mem[p]
              /\ file' = tmp /\ UNCHANGED <<answers, now, mem>>
              /\ \A u \in Process : u # p => pc[u] = "off" /\ pc'[u] = "off"
            BY <2>1, <2>6, <3>0 DEF Rename, AfterSave, Goto, history, TypeOK, Alone, Content
        <3>2. \A a \in answers : ~Old(a) => Knows(mem[p], a)
            BY <2>2, <3>1
        <3> QED
            BY <3>1, <3>2 DEF Remembered, Old, Knows
    <2>7. CASE Tick
        <3>1. \A a \in answers : Old(a) => Old(a)'
            BY <2>7 DEF Tick, Old, TypeOK, Answer, history
        <3> QED
            BY <2>2, <2>7, <3>1 DEF Tick, Remembered, Knows, disk, process, history
    <2>8. ASSUME NEW p \in Process,
                 \/ \E q \in Param : Take(p, q)
                 \/ Hit(p) \/ Unknown(p) \/ NoAnswer(p) \/ Open(p)
          PROVE  Remembered'
        <3>1. UNCHANGED <<answers, file, now, mem>>
            BY <2>8 DEF Take, Hit, Unknown, NoAnswer, Open, disk, history
        <3>2. \A u \in Process : pc'[u] # "off" => pc[u] # "off"
            BY <2>8 DEF Take, Hit, Unknown, NoAnswer, Open, Goto, TypeOK
        <3>3. (\A u \in Process : pc'[u] \notin Saving) => \A u \in Process : pc[u] \notin Saving
            BY <2>8 DEF Take, Hit, Unknown, NoAnswer, Open, Goto, TypeOK, Saving
        <3> QED
            BY <2>1, <3>1, <3>2, <3>3, RememberedStays
    <2>9. ASSUME NEW p \in Process, WriteFirst(p) \/ WriteRest(p) PROVE Remembered'
        <3>1. UNCHANGED <<answers, file, now, mem>>
            BY <2>1, <2>9 DEF WriteFirst, WriteRest, Write, history, Alone
        <3>2. \A u \in Process : pc'[u] # "off" => pc[u] # "off"
            BY <2>9 DEF WriteFirst, WriteRest, Goto, TypeOK
        <3>3. pc'[p] \in Saving
            BY <2>9 DEF WriteFirst, WriteRest, Goto, TypeOK, Saving
        <3> QED
            BY <2>1, <3>1, <3>2, <3>3, RememberedStays
    <2>10. ASSUME NEW p \in Process, End(p) PROVE Remembered'
        <3>1. UNCHANGED <<answers, file, now>> /\ pc[p] \notin Saving
            BY <2>10 DEF End, disk, Saving
        <3>2. \A u \in Process : pc'[u] # "off" => pc[u] # "off" /\ mem'[u] = mem[u]
            BY <2>10 DEF End, Goto, TypeOK
        <3>3. \A u \in Process : u # p => pc'[u] = pc[u]
            BY <2>10 DEF End, Goto, TypeOK
        <3> QED
            BY <2>1, <3>1, <3>2, <3>3, RememberedStays
    <2>11. CASE UNCHANGED vars
        BY <2>1, <2>11, RememberedStays DEF vars, disk, process, history
    <2> QED
        BY <2>3, <2>4, <2>5, <2>6, <2>7, <2>8, <2>9, <2>10, <2>11
           DEF Next, Run, Resolve, Save, SaveFails
<1> QED
    BY <1>1, <1>2, TypeCorrect, GenuineHolds, AloneHolds, FileIsWhole, PTL DEF Spec

(* What one command has learned the next ones know (set, _save and _load): *)
(* commands that do not overlap ask again only for what has become old.    *)
THEOREM AskedOnce == Spec => SequentialRunsAskOnce
<1>1. TypeOK /\ Remembered /\ [Next]_vars =>
        [\A p \in Process : (Asks(p) /\ ~shared /\ ~faulty) =>
            \A a \in answers : a.param = arg[p] => now - a.at > TTL]_vars
    <2> SUFFICES ASSUME TypeOK, Remembered, [Next]_vars,
                        NEW p \in Process, Asks(p), ~shared, ~faulty,
                        NEW a \in answers, a.param = arg[p]
                 PROVE  now - a.at > TTL
        OBVIOUS
    <2>1. pc[p] # "ask" /\ pc'[p] = "ask" /\ pc \in [Process -> Place]
        BY DEF Asks, TypeOK
    <2>2. PICK u \in Process : Run(u)
        BY <2>1 DEF Next, Tick, vars, process
    <2>3. u = p /\ Unknown(p)
        <3>1. \E place \in Place :
                 pc' = [pc EXCEPT ![u] = place] /\ (place = "ask" => Unknown(u))
            BY <2>2 DEF Run, Resolve, Save, Start, Take, Hit, RemoveExpired, Unknown, Answered,
               NoAnswer, Open, WriteFirst, WriteRest, Rename, SaveFails, End, AfterSave, Goto, Place
        <3> QED
            BY <2>1, <3>1
    <2>4. pc[p] # "off" /\ mem[p][a.param] = NoEntry
        BY <2>2, <2>3 DEF Unknown, Cached
    <2> QED
        BY <2>4 DEF Remembered, Knows, Old
<1> QED
    BY <1>1, TypeCorrect, RememberedHolds, PTL DEF Spec, SequentialRunsAskOnce

=============================================================================
