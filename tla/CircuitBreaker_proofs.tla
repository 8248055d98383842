------------------------ MODULE CircuitBreaker_proofs ------------------------
(***************************************************************************)
(* For any number of threads and any thresholds and timeouts, whatever the *)
(* races on the record of the circuit: it opens for cause, and once it is  *)
(* open a request makes no second call.                                    *)
(***************************************************************************)
EXTENDS CircuitBreaker, FiniteSetTheorems, TLAPS

(* the threads that are told to retry *)
Retrying == {"delaying", "retrying", "sleeping"}

(* the failures that no thread has counted yet *)
Uncounted == {c \in Caller : pc[c] = "failed"}

(* What is counted, or about to be, has failed. *)
CountsFailures ==
    failed < Threshold =>
        /\ failure_count + Cardinality(Uncounted) <= failed
        /\ \A c \in Caller : pc[c] = "counting" =>
             count[c] + 1 + Cardinality(Uncounted) <= failed

(* A thread turns a circuit only that had been open. *)
TurnsForCause == \A c \in Caller : turn[c] # None => failed = Threshold

AttemptsLeft == \A c \in Caller : pc[c] \in Retrying => attempt[c] < MaxAttempts

(* Nobody is told to retry while it is the open circuit's turn. *)
BlockedInOpen ==
    /\ state # "open" => \A c \in Caller : blocked[c] = 0
    /\ \A c \in Caller : pc[c] \in Retrying => blocked[c] = 0
    /\ \A c \in Caller : blocked[c] <= 1

IInv ==
    /\ TypeOK
    /\ CountsFailures
    /\ TurnsForCause
    /\ OpensOnlyAtThreshold
    /\ AttemptsLeft
    /\ BlockedInOpen

-----------------------------------------------------------------------------
USE CircuitAssumption

LEMMA UncountedIsFinite == IsFiniteSet(Uncounted) /\ Cardinality(Uncounted) \in Nat
<1>1. IsFiniteSet(Uncounted)
    BY FS_Subset DEF Uncounted
<1> QED
    BY <1>1, FS_CardinalityType

LEMMA InitIInv == Init => IInv
<1> SUFFICES ASSUME Init PROVE IInv
    OBVIOUS
<1>1. TypeOK
    BY DEF Init, TypeOK, CircuitState, Location
<1>2. CountsFailures
  <2>1. Uncounted = {} /\ Cardinality({}) = 0
    BY FS_EmptySet DEF Init, Uncounted
  <2> QED
    BY <2>1 DEF Init, CountsFailures
<1>3. TurnsForCause /\ OpensOnlyAtThreshold /\ AttemptsLeft /\ BlockedInOpen
    BY DEF Init, TurnsForCause, OpensOnlyAtThreshold, AttemptsLeft, BlockedInOpen, Retrying
<1> QED
    BY <1>1, <1>2, <1>3 DEF IInv

(* A step of c that neither fails a call nor reads the count leaves what is *)
(* uncounted alone.                                                         *)
LEMMA UncountedStays ==
    ASSUME TypeOK, NEW c \in Caller, NEW p \in Location, Goto(c, p),
           pc[c] # "failed", p # "failed"
    PROVE  Uncounted' = Uncounted
BY DEF TypeOK, Goto, Uncounted

-----------------------------------------------------------------------------
(* The calls. *)

LEMMA BeginStep ==
    ASSUME IInv, NEW c \in Caller, Begin(c)
    PROVE  IInv'
<1>1. TypeOK'
    BY DEF IInv, TypeOK, Begin, Goto, circuit, Location
<1>2. Uncounted' = Uncounted
    BY UncountedStays DEF IInv, Begin, Location
<1>3. CountsFailures'
    BY <1>2 DEF IInv, TypeOK, CountsFailures, Begin, Goto, circuit
<1>4. TurnsForCause' /\ OpensOnlyAtThreshold' /\ AttemptsLeft'
    BY DEF IInv, TypeOK, TurnsForCause, OpensOnlyAtThreshold, AttemptsLeft, Retrying,
           Begin, Goto, circuit
<1>5. BlockedInOpen'
    BY DEF IInv, TypeOK, BlockedInOpen, Retrying, Begin, Goto, circuit
<1> QED
    BY <1>1, <1>2, <1>3, <1>4, <1>5 DEF IInv

LEMMA WakeStep ==
    ASSUME IInv, NEW c \in Caller, Wake(c)
    PROVE  IInv'
<1>1. TypeOK'
    BY DEF IInv, TypeOK, AttemptsLeft, Retrying, Wake, Call, Goto, circuit, Location
<1>2. Uncounted' = Uncounted
    BY UncountedStays DEF IInv, Wake, Location
<1>3. CountsFailures'
    BY <1>2 DEF IInv, TypeOK, CountsFailures, Wake, Goto, circuit
<1>4. TurnsForCause' /\ OpensOnlyAtThreshold' /\ AttemptsLeft'
    BY DEF IInv, TypeOK, TurnsForCause, OpensOnlyAtThreshold, AttemptsLeft, Retrying,
           Wake, Goto, circuit
<1>5. BlockedInOpen'
    BY DEF IInv, TypeOK, BlockedInOpen, Retrying, Wake, Call, Goto, circuit
<1> QED
    BY <1>1, <1>2, <1>3, <1>4, <1>5 DEF IInv

LEMMA FailStep ==
    ASSUME IInv, NEW c \in Caller, Fail(c)
    PROVE  IInv'
<1>1. TypeOK'
    BY DEF IInv, TypeOK, Fail, OneMore, Goto, circuit, Location, Deciding
<1>2. /\ Uncounted' = Uncounted \union {c}
      /\ c \notin Uncounted
    BY DEF IInv, TypeOK, Fail, Goto, Uncounted
<1>3. Cardinality(Uncounted') = Cardinality(Uncounted) + 1
    BY <1>2, UncountedIsFinite, FS_AddElement
<1>4. CountsFailures'
    BY <1>3, UncountedIsFinite DEF IInv, TypeOK, CountsFailures, Fail, OneMore, Goto, circuit
<1>5. TurnsForCause' /\ OpensOnlyAtThreshold' /\ AttemptsLeft'
    BY DEF IInv, TypeOK, TurnsForCause, OpensOnlyAtThreshold, AttemptsLeft, Retrying,
           Fail, OneMore, Goto, circuit
<1>6. BlockedInOpen'
    BY DEF IInv, TypeOK, BlockedInOpen, Retrying, Fail, Goto, circuit
<1> QED
    BY <1>1, <1>4, <1>5, <1>6 DEF IInv

(* Steps that move one thread, to no retry, and change nothing else of note. *)
LEMMA MovingSteps ==
    ASSUME IInv, NEW c \in Caller, Succeed(c) \/ ResetCount(c) \/ Inspect(c)
    PROVE  IInv'
<1>1. /\ UNCHANGED <<state, sinceFailure, probing, attempt, count, turn, history>>
      /\ failure_count' \in {0, failure_count}
    BY DEF Succeed, ResetCount, Inspect, circuit
<1>2. PICK p \in Location :
        Goto(c, p) /\ p \notin Retrying \union {"failed", "counting"} /\ pc[c] # "failed"
    BY DEF Succeed, ResetCount, Inspect, Location, Looking, Retrying
<1>3. TypeOK'
    BY <1>1, <1>2 DEF IInv, TypeOK, Goto, history
<1>4. Uncounted' = Uncounted
    BY <1>2, UncountedStays DEF IInv
<1>5. CountsFailures'
    BY <1>1, <1>2, <1>4, UncountedIsFinite DEF IInv, TypeOK, CountsFailures, Goto, history
<1>6. TurnsForCause' /\ OpensOnlyAtThreshold' /\ AttemptsLeft'
    BY <1>1, <1>2 DEF IInv, TypeOK, TurnsForCause, OpensOnlyAtThreshold, AttemptsLeft,
                      Goto, history
<1>7. BlockedInOpen'
    BY <1>1, <1>2 DEF IInv, TypeOK, BlockedInOpen, Goto, history
<1> QED
    BY <1>3, <1>5, <1>6, <1>7 DEF IInv

-----------------------------------------------------------------------------
(* The count, and the state that goes by it. *)

LEMMA ReadCountStep ==
    ASSUME IInv, NEW c \in Caller, ReadCount(c)
    PROVE  IInv'
<1>1. TypeOK'
    BY DEF IInv, TypeOK, ReadCount, Goto, circuit, history, Location, Deciding
<1>2. /\ Uncounted' = Uncounted \ {c}
      /\ c \in Uncounted
    BY DEF IInv, TypeOK, ReadCount, Goto, Uncounted
<1>3. Cardinality(Uncounted') = Cardinality(Uncounted) - 1
    BY <1>2, UncountedIsFinite, FS_RemoveElement
<1>4. CountsFailures'
    BY <1>3, UncountedIsFinite
       DEF IInv, TypeOK, CountsFailures, ReadCount, Goto, circuit, history
<1>5. TurnsForCause' /\ OpensOnlyAtThreshold' /\ AttemptsLeft'
    BY DEF IInv, TypeOK, TurnsForCause, OpensOnlyAtThreshold, AttemptsLeft, Retrying,
           ReadCount, Goto, circuit, history
<1>6. BlockedInOpen'
    BY DEF IInv, TypeOK, BlockedInOpen, Retrying, ReadCount, Goto, circuit, history
<1> QED
    BY <1>1, <1>4, <1>5, <1>6 DEF IInv

LEMMA WriteCountStep ==
    ASSUME IInv, NEW c \in Caller, WriteCount(c)
    PROVE  IInv'
<1>1. TypeOK'
    BY DEF IInv, TypeOK, WriteCount, OneMore, Goto, history, Location, Deciding
<1>2. Uncounted' = Uncounted
    BY UncountedStays DEF IInv, WriteCount, Location, Deciding
<1>3. CountsFailures'
    BY <1>2, UncountedIsFinite
       DEF IInv, TypeOK, CountsFailures, WriteCount, OneMore, Goto, history
<1>4. TurnsForCause' /\ OpensOnlyAtThreshold' /\ AttemptsLeft'
    BY DEF IInv, TypeOK, TurnsForCause, OpensOnlyAtThreshold, AttemptsLeft, Retrying,
           WriteCount, Goto, history
<1>5. BlockedInOpen'
    BY DEF IInv, TypeOK, BlockedInOpen, Retrying, WriteCount, Goto, history
<1> QED
    BY <1>1, <1>3, <1>4, <1>5 DEF IInv

LEMMA CheckThresholdStep ==
    ASSUME IInv, NEW c \in Caller, CheckThreshold(c)
    PROVE  IInv'
<1>1. state # state' => failed = Threshold
    BY UncountedIsFinite DEF IInv, TypeOK, CountsFailures, CheckThreshold, SetState
<1>2. /\ blocked' = blocked
      /\ state' \in {state, "open"}
    BY DEF CheckThreshold, SetState
<1>3. TypeOK'
    BY <1>2 DEF IInv, TypeOK, CheckThreshold, Goto, CircuitState, Location, Deciding
<1>4. Uncounted' = Uncounted
    BY UncountedStays DEF IInv, CheckThreshold, Location, Deciding
<1>5. CountsFailures'
    BY <1>4 DEF IInv, TypeOK, CountsFailures, CheckThreshold, Goto
<1>6. TurnsForCause' /\ OpensOnlyAtThreshold' /\ AttemptsLeft'
    BY <1>1, <1>2 DEF IInv, TypeOK, TurnsForCause, OpensOnlyAtThreshold, AttemptsLeft,
                      Retrying, CheckThreshold, Goto
<1>7. BlockedInOpen'
    BY <1>2 DEF IInv, TypeOK, BlockedInOpen, Retrying, CheckThreshold, Goto
<1> QED
    BY <1>3, <1>5, <1>6, <1>7 DEF IInv

LEMMA CloseStep ==
    ASSUME IInv, NEW c \in Caller, CloseIfHalfOpen(c)
    PROVE  IInv'
<1>1. \/ state' = "closed" /\ blocked' = [d \in Caller |-> 0] /\ probing' = None
      \/ UNCHANGED <<state, blocked, probing>>
    BY DEF CloseIfHalfOpen, SetState
<1>2. TypeOK'
    BY <1>1 DEF IInv, TypeOK, CloseIfHalfOpen, Goto, CircuitState, Location
<1>3. Uncounted' = Uncounted
    BY UncountedStays DEF IInv, CloseIfHalfOpen, Location
<1>4. CountsFailures'
    BY <1>3 DEF IInv, TypeOK, CountsFailures, CloseIfHalfOpen, Goto
<1>5. TurnsForCause' /\ OpensOnlyAtThreshold' /\ AttemptsLeft'
    BY <1>1 DEF IInv, TypeOK, TurnsForCause, OpensOnlyAtThreshold, AttemptsLeft,
                Retrying, CloseIfHalfOpen, Goto
<1>6. BlockedInOpen'
    BY <1>1 DEF IInv, TypeOK, BlockedInOpen, Retrying, CloseIfHalfOpen, Goto
<1> QED
    BY <1>2, <1>4, <1>5, <1>6 DEF IInv

-----------------------------------------------------------------------------
(* _get_current_state and what its callers do with the answer. *)

LEMMA ContinueGoesTo ==
    ASSUME IInv, NEW c \in Caller, NEW s \in CircuitState, Continue(c, s)
    PROVE  \E p \in Location :
             /\ Goto(c, p)
             /\ p \notin {"failed", "counting"}
             /\ p \in Retrying => \/ pc[c] \in Retrying
                                  \/ s # "open" /\ attempt[c] < MaxAttempts
BY DEF Continue, MayRetry, Retrying, Location, Looking, IInv, TypeOK

LEMMA LookStep ==
    ASSUME IInv, NEW c \in Caller, Look(c)
    PROVE  IInv'
<1>1. UNCHANGED <<circuit, attempt, count, turn, history>> /\ pc[c] \in Looking
    BY DEF Look
<1>2. PICK p \in Location :
        /\ Goto(c, p)
        /\ p \notin {"failed", "counting"}
        /\ p \in Retrying => \/ pc[c] \in Retrying
                             \/ state # "open" /\ attempt[c] < MaxAttempts
    BY ContinueGoesTo DEF Look, IInv, TypeOK
<1>3. TypeOK'
    BY <1>1, <1>2 DEF IInv, TypeOK, Goto, circuit, history
<1>4. Uncounted' = Uncounted
    BY <1>1, <1>2, UncountedStays DEF IInv, Looking
<1>5. CountsFailures'
    BY <1>1, <1>2, <1>4 DEF IInv, TypeOK, CountsFailures, Goto, circuit, history
<1>6. TurnsForCause' /\ OpensOnlyAtThreshold' /\ AttemptsLeft'
    BY <1>1, <1>2 DEF IInv, TypeOK, TurnsForCause, OpensOnlyAtThreshold, AttemptsLeft,
                      Goto, circuit, history
<1>7. BlockedInOpen'
    BY <1>1, <1>2 DEF IInv, TypeOK, BlockedInOpen, Goto, circuit, history
<1> QED
    BY <1>3, <1>5, <1>6, <1>7 DEF IInv

LEMMA SeeTimeoutStep ==
    ASSUME IInv, NEW c \in Caller, SeeTimeout(c)
    PROVE  IInv'
<1>1. UNCHANGED <<circuit, pc, attempt, count, history>>
    BY DEF SeeTimeout
<1>2. state # "closed" /\ Due \in {"open", "half_open"}
    BY DEF SeeTimeout, Due
<1>3. turn' = [turn EXCEPT ![c] = Due]
    BY DEF SeeTimeout
<1>4. TypeOK'
    BY <1>1, <1>2, <1>3 DEF IInv, TypeOK, circuit, history
<1>5. CountsFailures'
  <2>1. Uncounted' = Uncounted
    BY <1>1 DEF Uncounted
  <2> QED
    BY <1>1, <2>1 DEF IInv, CountsFailures, circuit, history
<1>6. TurnsForCause' /\ OpensOnlyAtThreshold' /\ AttemptsLeft'
    BY <1>1, <1>2, <1>3 DEF IInv, TypeOK, TurnsForCause, OpensOnlyAtThreshold,
                            AttemptsLeft, circuit, history
<1>7. BlockedInOpen'
    BY <1>1 DEF IInv, BlockedInOpen, circuit, history
<1> QED
    BY <1>4, <1>5, <1>6, <1>7 DEF IInv

LEMMA TurnStep ==
    ASSUME IInv, NEW c \in Caller, Turn(c)
    PROVE  IInv'
<1>1. /\ turn[c] \in {"open", "half_open"}
      /\ failed = Threshold
      /\ pc[c] \in Looking
    BY DEF Turn, IInv, TypeOK, TurnsForCause
<1>2. /\ state' = turn[c]
      /\ turn[c] = "half_open" => blocked' = [d \in Caller |-> 0]
      /\ turn[c] = "open" => blocked' = blocked
      /\ probing' \in {0, None}
      /\ turn' = [turn EXCEPT ![c] = None]
      /\ UNCHANGED <<failure_count, sinceFailure, attempt, count, failed>>
    BY DEF Turn, SetState
<1>3. PICK p \in Location :
        /\ Goto(c, p)
        /\ p \notin {"failed", "counting"}
        /\ p \in Retrying => \/ pc[c] \in Retrying
                             \/ turn[c] # "open" /\ attempt[c] < MaxAttempts
    BY <1>1, ContinueGoesTo DEF Turn, CircuitState
<1>4. TypeOK'
    BY <1>1, <1>2, <1>3 DEF IInv, TypeOK, Goto, CircuitState
<1>5. CountsFailures'
    BY <1>1, <1>2 DEF IInv, TypeOK, CountsFailures
<1>6. TurnsForCause' /\ OpensOnlyAtThreshold' /\ AttemptsLeft'
    BY <1>1, <1>2, <1>3 DEF IInv, TypeOK, TurnsForCause, OpensOnlyAtThreshold,
                            AttemptsLeft, Goto
<1>7. BlockedInOpen'
    BY <1>1, <1>2, <1>3 DEF IInv, TypeOK, BlockedInOpen, Goto
<1> QED
    BY <1>4, <1>5, <1>6, <1>7 DEF IInv

LEMMA TickStep ==
    ASSUME IInv, Tick
    PROVE  IInv'
<1>1. UNCHANGED <<state, failure_count, pc, attempt, count, turn, history>>
    BY DEF Tick
<1>2. TypeOK'
    BY <1>1 DEF IInv, TypeOK, Tick, history
<1>3. CountsFailures'
  <2>1. Uncounted' = Uncounted
    BY <1>1 DEF Uncounted
  <2> QED
    BY <1>1, <2>1 DEF IInv, CountsFailures, history
<1>4. TurnsForCause' /\ OpensOnlyAtThreshold' /\ AttemptsLeft' /\ BlockedInOpen'
    BY <1>1 DEF IInv, TurnsForCause, OpensOnlyAtThreshold, AttemptsLeft, BlockedInOpen,
                history
<1> QED
    BY <1>2, <1>3, <1>4 DEF IInv

LEMMA StutterStep ==
    ASSUME IInv, UNCHANGED vars
    PROVE  IInv'
<1>1. Uncounted' = Uncounted
    BY DEF vars, Uncounted
<1> QED
    BY <1>1 DEF vars, circuit, history, IInv, TypeOK, CountsFailures, TurnsForCause,
                OpensOnlyAtThreshold, AttemptsLeft, BlockedInOpen

-----------------------------------------------------------------------------
LEMMA NextIInv == IInv /\ [Next]_vars => IInv'
<1> SUFFICES ASSUME IInv, [Next]_vars PROVE IInv'
    OBVIOUS
<1>1. CASE \E c \in Caller : Begin(c) \/ Answer(c) \/ Wake(c) \/ Inspect(c)
    BY <1>1, BeginStep, FailStep, WakeStep, MovingSteps DEF Answer
<1>2. CASE \E c \in Caller : Record(c)
    BY <1>2, MovingSteps, CloseStep, ReadCountStep, WriteCountStep, CheckThresholdStep,
       LookStep, SeeTimeoutStep, TurnStep DEF Record
<1>3. CASE Tick
    BY <1>3, TickStep
<1>4. CASE UNCHANGED vars
    BY <1>4, StutterStep
<1> QED
    BY <1>1, <1>2, <1>3, <1>4 DEF Next

(* The inductive invariant. *)
THEOREM Invariance == Spec => []IInv
BY InitIInv, NextIInv, PTL DEF Spec

(* Every variable has its type: the retry decorator makes at most           *)
(* max_attempts + 1 calls for a request.                                    *)
THEOREM TypeCorrect == Spec => []TypeOK
<1>1. IInv => TypeOK
    BY DEF IInv
<1> QED
    BY <1>1, Invariance, PTL

(* The circuit leaves CLOSED only after failure_threshold failed calls, in  *)
(* spite of lost increments and resets (_record_failure, record_success).   *)
THEOREM OpensForCause == Spec => []OpensOnlyAtThreshold
<1>1. IInv => OpensOnlyAtThreshold
    BY DEF IInv
<1> QED
    BY <1>1, Invariance, PTL

(* While the circuit is open a request makes no second call, though another *)
(* thread may open it while this one sleeps before a retry (should_retry).  *)
THEOREM NoRetryWhileOpen == Spec => []OpenStopsRetries
<1>1. IInv => OpenStopsRetries
    BY DEF IInv, BlockedInOpen, OpenStopsRetries
<1> QED
    BY <1>1, Invariance, PTL

=============================================================================
