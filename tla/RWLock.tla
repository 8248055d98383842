------------------------------- MODULE RWLock -------------------------------
(***************************************************************************)
(* ReaderWriterLock of persistence/components/lock_manager.py: two         *)
(* counters guarded by two different condition variables.  _readers is     *)
(* changed under _read_ready, _writers under _write_ready, and each side   *)
(* reads the other side's counter without holding the lock that guards it. *)
(* A thread runs one acquire/release pair after the other.                 *)
(***************************************************************************)
EXTENDS Integers, FiniteSets

CONSTANTS
    Thread,     \* the threads that share the lock
    NoThread    \* owner of a condition's RLock when it is free

ASSUME RWLockAssumption == IsFiniteSet(Thread) /\ NoThread \notin Thread

VARIABLES
    readers,    \* self._readers
    writers,    \* self._writers
    readOwner,  \* holder of the RLock of self._read_ready
    writeOwner, \* holder of the RLock of self._write_ready
    at          \* where each thread is

lockVars == <<readers, writers, readOwner, writeOwner, at>>

Location == {"idle",
             "readEnter", "readTest", "readInc", "readWait", "reading",
             "writeEnter", "writeTestWriters", "writeTestReaders", "writeInc",
             "writeWait", "writing", "writeNotify"}

LockInit ==
    /\ readers = 0
    /\ writers = 0
    /\ readOwner = NoThread
    /\ writeOwner = NoThread
    /\ at = [t \in Thread |-> "idle"]

(* Condition.notifyAll(): every waiter has to take the lock and test again. *)
Woken(pcs, wait, enter) ==
    [t \in Thread |-> IF pcs[t] = wait THEN enter ELSE pcs[t]]

Go(t, from, to) == at[t] = from /\ at' = [at EXCEPT ![t] = to]

-----------------------------------------------------------------------------
(* Plausible faults of the code, each in place of the operation it names.  *)

(* acquire_write that tests _readers only *)
SeeOtherWriter_NoTest(t) ==
    /\ Go(t, "writeTestWriters", "writeTestReaders")
    /\ UNCHANGED <<readers, writers, readOwner, writeOwner>>

(* release_write that gives back more than acquire_write took              *)
ReleaseWrite_Twice(t) ==
    /\ at[t] = "writing"
    /\ writeOwner = NoThread
    /\ writeOwner' = t
    /\ writers' = writers - 2
    /\ at' = Woken([at EXCEPT ![t] = "writeNotify"], "writeWait", "writeEnter")
    /\ UNCHANGED <<readers, readOwner>>

(* release_write without the notification of the readers *)
NotifyReaders_None(t) ==
    /\ at[t] = "writeNotify"
    /\ readOwner = NoThread
    /\ writeOwner' = NoThread
    /\ at' = [at EXCEPT ![t] = "idle"]
    /\ UNCHANGED <<readers, writers, readOwner>>

(* release_read that only the last reader counts                           *)
ReleaseRead_Forgets(t) ==
    /\ at[t] = "reading"
    /\ readOwner = NoThread
    /\ readers' = IF readers = 1 THEN 0 ELSE readers
    /\ LET left == [at EXCEPT ![t] = "idle"]
       IN at' = IF readers' = 0 THEN Woken(left, "readWait", "readEnter") ELSE left
    /\ UNCHANGED <<writers, readOwner, writeOwner>>

-----------------------------------------------------------------------------
(* acquire_read *)

CallAcquireRead(t) ==
    /\ Go(t, "idle", "readEnter")
    /\ UNCHANGED <<readers, writers, readOwner, writeOwner>>

(* with self._read_ready, on entry and again when wait() returns *)
EnterRead(t) ==
    /\ readOwner = NoThread
    /\ readOwner' = t
    /\ Go(t, "readEnter", "readTest")
    /\ UNCHANGED <<readers, writers, writeOwner>>

(* while self._writers > 0: wait(), which frees the lock *)
WaitForWriter(t) ==
    /\ writers > 0
    /\ Go(t, "readTest", "readWait")
    /\ readOwner' = NoThread
    /\ UNCHANGED <<readers, writers, writeOwner>>

SeeNoWriter(t) ==
    /\ writers = 0
    /\ Go(t, "readTest", "readInc")
    /\ UNCHANGED <<readers, writers, readOwner, writeOwner>>

StartReading(t) ==
    /\ Go(t, "readInc", "reading")
    /\ readers' = readers + 1
    /\ readOwner' = NoThread
    /\ UNCHANGED <<writers, writeOwner>>

(* release_read: the last reader wakes the threads waiting on _read_ready, *)
(* and nobody who waits on _write_ready.                                   *)
ReleaseRead(t) ==
    /\ at[t] = "reading"
    /\ readOwner = NoThread
    /\ readers' = readers - 1
    /\ LET left == [at EXCEPT ![t] = "idle"]
       IN at' = IF readers' = 0 THEN Woken(left, "readWait", "readEnter") ELSE left
    /\ UNCHANGED <<writers, readOwner, writeOwner>>

-----------------------------------------------------------------------------
(* acquire_write *)

CallAcquireWrite(t) ==
    /\ Go(t, "idle", "writeEnter")
    /\ UNCHANGED <<readers, writers, readOwner, writeOwner>>

EnterWrite(t) ==
    /\ writeOwner = NoThread
    /\ writeOwner' = t
    /\ Go(t, "writeEnter", "writeTestWriters")
    /\ UNCHANGED <<readers, writers, readOwner>>

(* while self._writers > 0 or self._readers > 0: two separate reads *)
SeeOtherWriter(t) ==
    /\ writers = 0
    /\ Go(t, "writeTestWriters", "writeTestReaders")
    /\ UNCHANGED <<readers, writers, readOwner, writeOwner>>

SeeNoReader(t) ==
    /\ readers = 0
    /\ Go(t, "writeTestReaders", "writeInc")
    /\ UNCHANGED <<readers, writers, readOwner, writeOwner>>

WaitForAccess(t) ==
    /\ \/ writers > 0 /\ Go(t, "writeTestWriters", "writeWait")
       \/ readers > 0 /\ Go(t, "writeTestReaders", "writeWait")
    /\ writeOwner' = NoThread
    /\ UNCHANGED <<readers, writers, readOwner>>

StartWriting(t) ==
    /\ Go(t, "writeInc", "writing")
    /\ writers' = writers + 1
    /\ writeOwner' = NoThread
    /\ UNCHANGED <<readers, readOwner>>

(* release_write, first under _write_ready alone ...                       *)
ReleaseWrite(t) ==
    /\ at[t] = "writing"
    /\ writeOwner = NoThread
    /\ writeOwner' = t
    /\ writers' = writers - 1
    /\ at' = Woken([at EXCEPT ![t] = "writeNotify"], "writeWait", "writeEnter")
    /\ UNCHANGED <<readers, readOwner>>

(* ... then, still holding it, under _read_ready as well                   *)
NotifyReaders(t) ==
    /\ at[t] = "writeNotify"
    /\ readOwner = NoThread
    /\ writeOwner' = NoThread
    /\ at' = Woken([at EXCEPT ![t] = "idle"], "readWait", "readEnter")
    /\ UNCHANGED <<readers, writers, readOwner>>

-----------------------------------------------------------------------------

(* What a thread does once it has called an operation *)
Step(t) ==
    \/ EnterRead(t) \/ WaitForWriter(t) \/ SeeNoWriter(t) \/ StartReading(t)
    \/ ReleaseRead(t)
    \/ EnterWrite(t) \/ SeeOtherWriter(t) \/ SeeNoReader(t) \/ WaitForAccess(t)
    \/ StartWriting(t) \/ ReleaseWrite(t) \/ NotifyReaders(t)

LockNext == \E t \in Thread : CallAcquireRead(t) \/ CallAcquireWrite(t) \/ Step(t)

LockSpec == LockInit /\ [][LockNext]_lockVars

-----------------------------------------------------------------------------

LockTypeOK ==
    /\ readers \in Nat
    /\ writers \in Nat
    /\ readOwner \in Thread \cup {NoThread}
    /\ writeOwner \in Thread \cup {NoThread}
    /\ at \in [Thread -> Location]

Reading == {t \in Thread : at[t] = "reading"}
Writing == {t \in Thread : at[t] = "writing"}

(* At most one thread is between acquire_write and release_write, although *)
(* the test of _writers and its increment are separate steps and waiting   *)
(* writers are woken together.                                             *)
OneWriter == \A t, u \in Writing : t = u

(* The counters are exactly the threads inside: no acquire or release is   *)
(* lost or counted twice, so neither counter goes below zero and the lock  *)
(* is free again once everyone has left.                                   *)
CountersExact ==
    /\ readers = Cardinality(Reading)
    /\ writers = Cardinality(Writing)

(* No reader is left behind: whoever waits on _read_ready waits for a      *)
(* writer that is inside or that has yet to notify the readers.            *)
NoStrandedReader ==
    (\E t \in Thread : at[t] = "readWait") =>
        writers > 0 \/ \E u \in Thread : at[u] = "writeNotify"

(* "only one writer at a time, with no readers present" (lock_manager.py,  *)
(* class docstring).  Violated: the writer tests _readers without holding  *)
(* _read_ready, so a reader can enter between the test and _writers += 1.  *)
NoReadersPresent == Writing # {} => Reading = {}
=============================================================================
