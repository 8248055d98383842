--------------------------- MODULE CircuitBreaker ---------------------------
(***************************************************************************)
(* CircuitBreakerStrategy (infrastructure/resilience/strategy/             *)
(* circuit_breaker.py) under the retry decorator, for one service name.    *)
(* The record of the circuit is a class attribute: the threads of a        *)
(* composite strategy share it, without a lock.  A step is what no thread  *)
(* switch can divide as far as the record goes: the reads and writes of    *)
(* failure_count += 1 and of record_success are steps of their own, and    *)
(* _get_current_state sees that a timeout has passed in one step and       *)
(* changes the state in a later one.                                       *)
(* Time is what has gone by since the two stored instants, and failures    *)
(* are counted no further than failure_threshold, all they are compared    *)
(* with.                                                                   *)
(***************************************************************************)
EXTENDS Integers, FiniteSets

CONSTANTS
    Caller,           \* the threads
    Threshold,        \* failure_threshold
    MaxAttempts,      \* max_attempts
    ResetTimeout,     \* reset_timeout, in units of the clock
    HalfOpenTimeout,  \* half_open_timeout, in units of the clock
    Monitored,        \* somebody calls get_circuit_info
    None

ASSUME CircuitAssumption ==
    /\ IsFiniteSet(Caller)
    /\ Threshold \in Nat \ {0}
    /\ MaxAttempts \in Nat \ {0}
    /\ ResetTimeout \in Nat \ {0}
    /\ HalfOpenTimeout \in Nat \ {0}
    /\ Monitored \in BOOLEAN
    /\ None \notin Nat \union {"closed", "open", "half_open"}

VARIABLES
    \* _circuit_states[service_name]
    state,
    failure_count,
    sinceFailure, \* now - last_failure_time, no further than ResetTimeout
    probing,      \* now - half_open_start_time, no further than HalfOpenTimeout
    \* of every thread
    pc,
    attempt,
    count,        \* failure_count as read by failure_count += 1
    turn,         \* the state _get_current_state is about to change to
    \* of no variable of the code
    failed,       \* how many calls have failed, no further than Threshold
    blocked       \* the calls of a request since the circuit has been open

circuit == <<state, failure_count, sinceFailure, probing>>
history == <<failed, blocked>>
vars == <<circuit, pc, attempt, count, turn, history>>

CircuitState == {"closed", "open", "half_open"}

(* inside should_retry, which reads the clock once *)
Deciding == {"failed", "counting", "checking", "deciding"}
(* at a call of _get_current_state *)
Looking == {"deciding", "delaying", "retrying", "inspecting"}
Location == Deciding \union Looking
            \union {"idle", "calling", "succeeded", "closing", "sleeping"}

Init ==
    /\ state = "closed"
    /\ failure_count = 0
    /\ sinceFailure = 0
    /\ probing = None
    /\ pc = [c \in Caller |-> "idle"]
    /\ attempt = [c \in Caller |-> 0]
    /\ count = [c \in Caller |-> 0]
    /\ turn = [c \in Caller |-> None]
    /\ failed = 0
    /\ blocked = [c \in Caller |-> 0]

OneMore(n) == IF n < Threshold THEN n + 1 ELSE n

Goto(c, p) == pc' = [pc EXCEPT ![c] = p]

(* A state that is not open ends what blocked counts. *)
SetState(s) ==
    /\ state' = s
    /\ blocked' = IF s = "open" THEN blocked ELSE [c \in Caller |-> 0]

-----------------------------------------------------------------------------
(* Plausible faults of the code, each in place of the operation it names.  *)

(* "failure_count > failure_threshold - 2": the circuit opens too soon *)
CheckThreshold_TooSoon(c) ==
    /\ pc[c] = "checking"
    /\ Goto(c, "deciding")
    /\ IF state = "closed" /\ failure_count + 1 >= Threshold
       THEN SetState("open") ELSE UNCHANGED <<state, blocked>>
    /\ UNCHANGED <<failure_count, sinceFailure, probing, attempt, count, turn, failed>>

(* should_retry without its OPEN branch *)
MayRetry_OpenToo(s, n) == IF s = "half_open" THEN n < 1 ELSE n < MaxAttempts

(* the retry decorator forgets to count *)
Wake_NotCounted(c) ==
    /\ pc[c] = "sleeping"
    /\ Goto(c, "calling")
    /\ blocked' = [blocked EXCEPT ![c] = IF state = "open" THEN @ + 1 ELSE 0]
    /\ UNCHANGED <<circuit, attempt, count, turn, failed>>

(* "attempt > max_attempts" for "attempt >= max_attempts" *)
MayRetry_OneTooMany(s, n) ==
    IF s = "half_open" THEN n < 1 ELSE s = "closed" /\ n <= MaxAttempts

-----------------------------------------------------------------------------
(* retry.wrapper and what it calls *)

Call(c) == blocked' = [blocked EXCEPT ![c] = IF state = "open" THEN @ + 1 ELSE 0]

(* The function is called whatever the state of the circuit. *)
Begin(c) ==
    /\ pc[c] = "idle"
    /\ Goto(c, "calling")
    /\ attempt' = [attempt EXCEPT ![c] = 0]
    /\ blocked' = [blocked EXCEPT ![c] = IF state = "open" THEN 1 ELSE 0]
    /\ UNCHANGED <<circuit, count, turn, failed>>

Succeed(c) ==
    /\ pc[c] = "calling"
    /\ Goto(c, "succeeded")
    /\ UNCHANGED <<circuit, attempt, count, turn, history>>

Fail(c) ==
    /\ pc[c] = "calling"
    /\ failed' = OneMore(failed)
    /\ Goto(c, "failed")
    /\ UNCHANGED <<circuit, attempt, count, turn, blocked>>

(* record_success *)
ResetCount(c) ==
    /\ pc[c] = "succeeded"
    /\ Goto(c, "closing")
    /\ failure_count' = 0
    /\ UNCHANGED <<state, sinceFailure, probing, attempt, count, turn, history>>

CloseIfHalfOpen(c) ==
    /\ pc[c] = "closing"
    /\ Goto(c, "idle")
    /\ IF state = "half_open"
       THEN SetState("closed") /\ probing' = None
       ELSE UNCHANGED <<state, blocked, probing>>
    /\ UNCHANGED <<failure_count, sinceFailure, attempt, count, turn, failed>>

(* should_retry, first _record_failure *)
ReadCount(c) ==
    /\ pc[c] = "failed"
    /\ Goto(c, "counting")
    /\ count' = [count EXCEPT ![c] = failure_count]
    /\ UNCHANGED <<circuit, attempt, turn, history>>

WriteCount(c) ==
    /\ pc[c] = "counting"
    /\ Goto(c, "checking")
    /\ failure_count' = OneMore(count[c])
    /\ sinceFailure' = 0
    /\ UNCHANGED <<state, probing, attempt, count, turn, history>>

CheckThreshold(c) ==
    /\ pc[c] = "checking"
    /\ Goto(c, "deciding")
    /\ IF state = "closed" /\ failure_count >= Threshold
       THEN SetState("open") ELSE UNCHANGED <<state, blocked>>
    /\ UNCHANGED <<failure_count, sinceFailure, probing, attempt, count, turn, failed>>

(* its answer: OPEN raises, HALF_OPEN allows one more, CLOSED max_attempts *)
MayRetry(s, n) ==
    \/ s = "half_open" /\ n < 1
    \/ s = "closed" /\ n < MaxAttempts

(* Where the thread goes when _get_current_state has returned s: should_retry, *)
(* get_delay, on_retry or get_circuit_info called it.                          *)
Continue(c, s) ==
    \/ pc[c] = "deciding" /\ MayRetry(s, attempt[c]) /\ Goto(c, "delaying")
    \/ pc[c] = "deciding" /\ ~MayRetry(s, attempt[c]) /\ Goto(c, "idle")
    \/ pc[c] = "delaying" /\ Goto(c, "retrying")
    \/ pc[c] = "retrying" /\ Goto(c, "sleeping")
    \/ pc[c] = "inspecting" /\ Goto(c, "idle")

(* _get_current_state: the state the record should be in by now *)
Due ==
    IF state = "open" /\ sinceFailure = ResetTimeout THEN "half_open"
    ELSE IF state = "half_open" /\ probing = HalfOpenTimeout THEN "open"
    ELSE state

Look(c) ==
    /\ pc[c] \in Looking
    /\ turn[c] = None
    /\ Due = state
    /\ Continue(c, state)
    /\ UNCHANGED <<circuit, attempt, count, turn, history>>

SeeTimeout(c) ==
    /\ pc[c] \in Looking
    /\ turn[c] = None
    /\ Due # state
    /\ turn' = [turn EXCEPT ![c] = Due]
    /\ UNCHANGED <<circuit, pc, attempt, count, history>>

Turn(c) ==
    /\ pc[c] \in Looking
    /\ turn[c] # None
    /\ SetState(turn[c])
    /\ probing' = IF turn[c] = "half_open" THEN 0 ELSE None
    /\ turn' = [turn EXCEPT ![c] = None]
    /\ Continue(c, turn[c])
    /\ UNCHANGED <<failure_count, sinceFailure, attempt, count, failed>>

Wake(c) ==
    /\ pc[c] = "sleeping"
    /\ Goto(c, "calling")
    /\ attempt' = [attempt EXCEPT ![c] = @ + 1]
    /\ Call(c)
    /\ UNCHANGED <<circuit, count, turn, failed>>

(* get_circuit_info *)
Inspect(c) ==
    /\ Monitored
    /\ pc[c] = "idle"
    /\ Goto(c, "inspecting")
    /\ UNCHANGED <<circuit, attempt, count, turn, history>>

-----------------------------------------------------------------------------
(* A unit of time.  should_retry reads the clock once, so none passes in it. *)
Tick ==
    /\ \A c \in Caller : pc[c] \notin Deciding
    /\ sinceFailure' = IF sinceFailure < ResetTimeout
                       THEN sinceFailure + 1 ELSE sinceFailure
    /\ probing' = IF probing # None /\ probing < HalfOpenTimeout
                  THEN probing + 1 ELSE probing
    /\ UNCHANGED <<state, failure_count, pc, attempt, count, turn, history>>

Record(c) ==
    \/ ResetCount(c) \/ CloseIfHalfOpen(c)
    \/ ReadCount(c) \/ WriteCount(c) \/ CheckThreshold(c)
    \/ Look(c) \/ SeeTimeout(c) \/ Turn(c)

Answer(c) == Succeed(c) \/ Fail(c)

Next ==
    \/ \E c \in Caller : Begin(c) \/ Answer(c) \/ Record(c) \/ Wake(c) \/ Inspect(c)
    \/ Tick

Spec == Init /\ [][Next]_vars

(* The service answers, a thread goes on, and time passes; whether another *)
(* call is made is the clients' affair.                                    *)
Fairness ==
    /\ \A c \in Caller : WF_vars(Answer(c) \/ Record(c) \/ Wake(c))
    /\ WF_vars(Tick)

FairSpec == Spec /\ Fairness

-----------------------------------------------------------------------------
(* Every variable has its type; in particular the decorator counts no       *)
(* attempt beyond max_attempts, so that one request makes at most           *)
(* max_attempts + 1 calls.                                                  *)
TypeOK ==
    /\ state \in CircuitState
    /\ failure_count \in 0 .. Threshold
    /\ sinceFailure \in 0 .. ResetTimeout
    /\ probing \in (0 .. HalfOpenTimeout) \union {None}
    /\ pc \in [Caller -> Location]
    /\ attempt \in [Caller -> 0 .. MaxAttempts]
    /\ count \in [Caller -> 0 .. Threshold]
    /\ turn \in [Caller -> {"open", "half_open", None}]
    /\ failed \in 0 .. Threshold
    /\ blocked \in [Caller -> Nat]

(* The circuit has never left CLOSED unless failure_threshold calls failed,  *)
(* whatever the threads do to failure_count meanwhile (_record_failure).     *)
OpensOnlyAtThreshold == state # "closed" => failed = Threshold

(* "OPEN: Fails fast": while the circuit is open a request makes no second   *)
(* call; the one it makes is not prevented (wrapper calls before it asks).   *)
OpenStopsRetries == \A c \in Caller : blocked[c] <= 1

(* A request ends, however the threads and the timeouts interleave.          *)
EveryRequestEnds == \A c \in Caller : pc[c] = "calling" ~> pc[c] = "idle"

(* resilience.md: "OPEN --> HALF_OPEN : Reset timeout elapsed" and           *)
(* "HALF_OPEN --> CLOSED : Success": when the calls no longer fail and one   *)
(* after the other succeeds, an open circuit does not stay open.             *)
Recovers ==
    /\ <>[](\A c \in Caller : pc[c] # "failed")
    /\ []<>(\E c \in Caller : pc[c] = "succeeded")
    => (state = "open" ~> state # "open")

=============================================================================
