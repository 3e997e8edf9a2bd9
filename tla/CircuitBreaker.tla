--------------------------- MODULE CircuitBreaker ---------------------------
(***************************************************************************)
(* AsyncCircuitBreaker (src/core/cache.py), the breaker every Redis call   *)
(* of the application goes through.  The critical sections under its lock  *)
(* never await, so a call is two atomic steps with the wrapped function    *)
(* running in between: it is admitted, and later its outcome is recorded,  *)
(* whatever other calls did to the breaker meanwhile.                      *)
(***************************************************************************)
EXTENDS Integers

CONSTANTS
    Callers,      \* concurrent tasks that call Redis
    FailMax,      \* redis_circuit_breaker_fail_max
    ResetTimeout  \* redis_circuit_breaker_reset_timeout_seconds, in clock ticks

ASSUME BreakerConstants ==
    /\ FailMax \in Nat \ {0}
    /\ ResetTimeout \in Nat \ {0}

Unset == -1

VARIABLES
    state,   \* _state
    count,   \* _failure_count; past FailMax no code tells its values apart
    age,     \* ticks since _opened_at up to ResetTimeout; Unset when None
    pc       \* per caller: idle, or awaiting the wrapped function

vars == <<state, count, age, pc>>

-----------------------------------------------------------------------------
(* _maybe_transition_to_half_open. *)
Probed == IF state = "open" /\ age # Unset /\ age >= ResetTimeout
            THEN "half-open" ELSE state

(* call: when the breaker stays open it raises CacheUnavailableError and   *)
(* leaves everything as it was; otherwise the call goes through.           *)
Admit(c) ==
    /\ pc[c] = "idle"
    /\ Probed # "open"
    /\ state' = Probed
    /\ pc' = [pc EXCEPT ![c] = "calling"]
    /\ UNCHANGED <<count, age>>

Counted == IF count < FailMax THEN count + 1 ELSE count

(* The failure that opens the breaker. *)
Trips == state = "half-open" \/ count + 1 >= FailMax

RestartedAgeLost == age
RestartedAge == 0

(* _record_failure *)
Fail(c) ==
    /\ pc[c] = "calling"
    /\ count' = Counted
    /\ state' = IF Trips THEN "open" ELSE state
    /\ age' = IF Trips THEN RestartedAge ELSE age
    /\ pc' = [pc EXCEPT ![c] = "idle"]

ToClosed ==
    /\ state' = "closed"
    /\ count' = 0
    /\ age' = Unset

(* _record_success: whatever the state, also for a call admitted before    *)
(* the breaker opened.                                                     *)
SucceedKeepsCount(c) ==
    /\ pc[c] = "calling"
    /\ state' = "closed" /\ age' = Unset /\ count' = count
    /\ pc' = [pc EXCEPT ![c] = "idle"]
Succeed(c) ==
    /\ pc[c] = "calling"
    /\ ToClosed
    /\ pc' = [pc EXCEPT ![c] = "idle"]

(* CancelledError is not an Exception: nothing is recorded. *)
Cancelled(c) ==
    /\ pc[c] = "calling"
    /\ pc' = [pc EXCEPT ![c] = "idle"]
    /\ UNCHANGED <<state, count, age>>

Reset ==
    /\ ToClosed
    /\ UNCHANGED pc

(* time.monotonic advances. *)
Clock ==
    /\ age # Unset /\ age < ResetTimeout
    /\ age' = age + 1
    /\ UNCHANGED <<state, count, pc>>

-----------------------------------------------------------------------------
Init ==
    /\ state = "closed" /\ count = 0 /\ age = Unset
    /\ pc = [c \in Callers |-> "idle"]

Next ==
    \/ \E c \in Callers : Admit(c) \/ Fail(c) \/ Succeed(c) \/ Cancelled(c)
    \/ Reset
    \/ Clock

Spec == Init /\ [][Next]_vars

(* Tasks keep calling Redis, every call ends (sockets have a timeout) and  *)
(* the clock advances.                                                     *)
LiveSpec ==
    /\ Spec
    /\ \A c \in Callers : WF_vars(Admit(c)) /\ WF_vars(Fail(c) \/ Succeed(c))
    /\ WF_vars(Clock)

-----------------------------------------------------------------------------
(* Types; and _opened_at is set exactly while the breaker is not closed,   *)
(* without which an open breaker could never become half-open.             *)
BreakerTypeOK ==
    /\ state \in {"closed", "open", "half-open"}
    /\ count \in 0 .. FailMax
    /\ age \in {Unset} \cup 0 .. ResetTimeout
    /\ pc \in [Callers -> {"idle", "calling"}]
    /\ (state = "closed") <=> (age = Unset)

(* The breaker is closed exactly while fewer than fail_max failures were   *)
(* recorded since the last success, in whatever order the outcomes of      *)
(* concurrent calls arrive.                                                *)
TripsExactly == (state = "closed") <=> (count < FailMax)

(* Once calls stop failing and being cancelled, the breaker closes for     *)
(* good: no order of late outcomes leaves Redis cut off.                   *)
EventuallyCloses ==
    <>[][~\E c \in Callers : Fail(c) \/ Cancelled(c)]_vars => <>[](state = "closed")
=============================================================================
