--------------------------- MODULE PaymentOutcomes ---------------------------
(***************************************************************************)
(* What payments tell the order saga, without requests, locks and status   *)
(* machines: each payment announces one final outcome at most, and never   *)
(* takes it back.  Payments implements this; OrderSaga and OrderPromise    *)
(* take their payment events from it.                                      *)
(***************************************************************************)
CONSTANT PaymentIds

VARIABLE announced   \* per payment: its outcome, "none" so far

Outcome == {"captured", "failed", "declined"}

Init == announced = [p \in PaymentIds |-> "none"]

Announce(p, e) ==
    /\ announced[p] = "none"
    /\ announced' = [announced EXCEPT ![p] = e]

Next == \E p \in PaymentIds : \E e \in Outcome : Announce(p, e)

Spec == Init /\ [][Next]_announced
=============================================================================
