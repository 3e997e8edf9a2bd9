---------------------------- MODULE OrderPromise -----------------------------
(***************************************************************************)
(* The order saga as if nothing ran concurrently: an order is placed, and  *)
(* a payment event is handled, in one indivisible step, with no versions,  *)
(* locks, retries, stale objects or transactions that fail half-way.       *)
(***************************************************************************)
EXTENDS Integers

CONSTANTS Orders, Quantity, InitialStock, PaymentIds, PaysFor

VARIABLES
    available,   \* units in stock
    order,       \* per order: its status, "none" before it is placed
    announced    \* per payment: its outcome

vars == <<available, order, announced>>

Outcomes == INSTANCE PaymentOutcomes

Init ==
    /\ available = InitialStock
    /\ order = [o \in Orders |-> "none"]
    /\ Outcomes!Init

Place(o) ==
    /\ order[o] = "none" /\ Quantity[o] <= available
    /\ order' = [order EXCEPT ![o] = "reserved"]
    /\ available' = available - Quantity[o]
    /\ UNCHANGED announced

Announce == Outcomes!Next /\ UNCHANGED <<available, order>>

(* Only an order that still waits for its payment takes its outcome. *)
Decided(o, s) == [order EXCEPT ![o] = IF @ = "reserved" THEN s ELSE @]

HandleCaptured(p) ==
    /\ announced[p] = "captured" /\ order[PaysFor[p]] # "none"
    /\ order' = Decided(PaysFor[p], "paid")
    /\ UNCHANGED <<available, announced>>

(* The handler gives the stock back whatever the order's status was. *)
HandleFailed(p) ==
    /\ announced[p] = "failed" /\ order[PaysFor[p]] # "none"
    /\ order' = Decided(PaysFor[p], "failed")
    /\ available' = available + Quantity[PaysFor[p]]
    /\ UNCHANGED announced

Next ==
    \/ \E o \in Orders : Place(o)
    \/ Announce
    \/ \E p \in PaymentIds : HandleCaptured(p) \/ HandleFailed(p)

Spec == Init /\ [][Next]_vars
=============================================================================
