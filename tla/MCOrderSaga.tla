---------------------------- MODULE MCOrderSaga ----------------------------
(* Two orders that compete for too little stock. *)
EXTENDS OrderSaga, TLC

CONSTANTS o1, o2, p1, p2, c1, c2

OrderSet == {o1, o2}
QuantityOf == o1 :> 1 @@ o2 :> 2

(* The first order is paid for twice: the outcomes may contradict each     *)
(* other. Stock that it gives back can serve the second.                   *)
PaymentSet == {p1, p2}
PaysForOrder == p1 :> o1 @@ p2 :> o1

(* A single payment, whose event comes twice. *)
OnePayment == {p1}
PaysFirstOrder == p1 :> o1

ConsumerSet == {c1, c2}
=============================================================================
