------------------------ MODULE CircuitBreakerProofs ------------------------
(***************************************************************************)
(* Proofs about CircuitBreaker for any callers, threshold and timeout.     *)
(***************************************************************************)
EXTENDS CircuitBreaker, TLAPS

BreakerInv == BreakerTypeOK /\ TripsExactly

(* Every step keeps the types and the meaning of the failure count. *)
LEMMA BreakerStep == BreakerInv /\ [Next]_vars => BreakerInv'
  <1> SUFFICES ASSUME BreakerInv, [Next]_vars PROVE BreakerInv'
    OBVIOUS
  <1> USE BreakerConstants DEF BreakerInv, BreakerTypeOK, TripsExactly, Unset
  <1>1. ASSUME NEW c \in Callers, Admit(c) PROVE BreakerInv'
    BY <1>1 DEF Admit, Probed
  <1>2. ASSUME NEW c \in Callers, Fail(c) PROVE BreakerInv'
    BY <1>2 DEF Fail, Counted, Trips, RestartedAge
  <1>3. ASSUME NEW c \in Callers, Succeed(c) PROVE BreakerInv'
    BY <1>3 DEF Succeed, ToClosed
  <1>4. ASSUME NEW c \in Callers, Cancelled(c) PROVE BreakerInv'
    BY <1>4 DEF Cancelled
  <1>5. CASE Reset
    BY <1>5 DEF Reset, ToClosed
  <1>6. CASE Clock
    BY <1>6 DEF Clock
  <1>7. CASE UNCHANGED vars
    BY <1>7 DEF vars
  <1> QED BY <1>1, <1>2, <1>3, <1>4, <1>5, <1>6, <1>7 DEF Next

(* BreakerInv holds in every reachable state. *)
THEOREM BreakerInvariant == Spec => []BreakerInv
  <1>1. Init => BreakerInv
    BY BreakerConstants DEF Init, BreakerInv, BreakerTypeOK, TripsExactly, Unset
  <1> QED BY <1>1, BreakerStep, PTL DEF Spec

(* Types, and _opened_at set exactly while the breaker is not closed. *)
THEOREM BreakerTypeCorrect == Spec => []BreakerTypeOK
  <1>1. BreakerInv => BreakerTypeOK
    BY DEF BreakerInv
  <1> QED BY <1>1, BreakerInvariant, PTL

(* The breaker trips on exactly fail_max failures without a success,       *)
(* however the outcomes of concurrent calls interleave.                    *)
THEOREM BreakerTripsExactly == Spec => []TripsExactly
  <1>1. BreakerInv => TripsExactly
    BY DEF BreakerInv
  <1> QED BY <1>1, BreakerInvariant, PTL
=============================================================================
