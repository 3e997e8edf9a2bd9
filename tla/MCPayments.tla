---------------------------- MODULE MCPayments ----------------------------
(* Two requests for one payment with one idempotency key. The second gets  *)
(* past the key when it lapses, or once the first has released it and not  *)
(* yet committed.                                                          *)
EXTENDS Payments

CONSTANTS req1, req2, pay1, key1

RequestSet == {req1, req2}
PaymentSet == {pay1}
KeySet == {key1}
=============================================================================
