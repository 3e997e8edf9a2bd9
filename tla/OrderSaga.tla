------------------------------ MODULE OrderSaga ------------------------------
(***************************************************************************)
(* The order saga on one stock row: place_order transactions that reserve  *)
(* stock under an optimistic lock (src/modules/orders/services.py,         *)
(* src/modules/inventory/services.py), and the handlers of payment events  *)
(* that mark an order PAID, or FAILED with its stock given back            *)
(* (src/modules/orders/consumer.py).                                       *)
(*                                                                         *)
(* PostgreSQL (READ COMMITTED) and the SQLAlchemy session are external.    *)
(* An UPDATE waits for the row lock and then tests its WHERE on the last   *)
(* committed row. A session may hand out the Stock object it loaded        *)
(* before, or fresh column values, and may or may not apply an UPDATE to   *)
(* that object: reads are a choice between the two.                        *)
(*                                                                         *)
(* Payments announce one outcome each (module PaymentOutcomes, which       *)
(* Payments implements); no handler is registered for declined, so it is   *)
(* left out. An order may have several payments, and an event may be       *)
(* handled again (the relay publishes at least once and the deduplication  *)
(* fails open).                                                            *)
(***************************************************************************)
EXTENDS Integers, FiniteSets

CONSTANTS
    Orders,         \* place_order calls, one order each
    Quantity,       \* units each order asks for
    InitialStock,   \* Stock.available before any order
    MaxRetries,     \* _MAX_RESERVE_RETRIES
    PaymentIds,     \* payments
    PaysFor,        \* the order_id in a payment's events
    Consumers,      \* consumer tasks
    MaxDeliveries,  \* bound: how often one event is handled
    None            \* no lock holder, no event in hand

ASSUME SagaConstants ==
    /\ Quantity \in [Orders -> Nat \ {0}]
    /\ InitialStock \in Nat
    /\ MaxRetries \in Nat \ {0}
    /\ PaysFor \in [PaymentIds -> Orders]
    /\ MaxDeliveries \in Nat
    /\ None \notin Orders \cup Consumers \cup PaymentIds
    /\ None \notin {"paid", "failed"}
    /\ Orders \cap Consumers = {}

VARIABLES
    stock,       \* committed Stock row: version and available
    stockLock,   \* the transaction that has updated the row and not ended
    order,       \* committed Order.status, "none" before the order exists
    orderLock,   \* per order: the consumer that selected it FOR UPDATE
    pc,          \* per order: where place_order is
    tries,       \* per order: reservations that lost a race
    mem,         \* per order: the Stock object in the session
    expected,    \* per order: expected_version of the ReserveRequest
    announced,   \* per payment: the event in the topic, if any
    deliveries,  \* per payment: how often its event reached a handler
    job,         \* per consumer: the payment whose event it handles
    hpc,         \* per consumer: where the handler is
    verdict,     \* per consumer: the status its session will write, or None
    released     \* history: per order, how often its stock was given back

placing  == <<pc, tries, mem, expected>>
handling == <<announced, deliveries, job, hpc, verdict>>
vars     == <<stock, stockLock, order, orderLock, placing, handling, released>>

-----------------------------------------------------------------------------
(* place_order *)

(* get_stock: the first read of a session is fresh. *)
GetStock(o) ==
    /\ pc[o] = "read"
    /\ \E s \in {stock} \cup (IF tries[o] > 0 THEN {mem[o]} ELSE {}) :
        /\ mem' = [mem EXCEPT ![o] = s]
        /\ expected' = [expected EXCEPT ![o] = s.version]
    /\ pc' = [pc EXCEPT ![o] = "check"]
    /\ UNCHANGED <<stock, stockLock, order, orderLock, tries, handling, released>>

(* ConcurrentUpdateError: read again, or give up after MaxRetries. *)
RetryForever(o) ==
    /\ tries' = [tries EXCEPT ![o] = 1]
    /\ pc' = [pc EXCEPT ![o] = "read"]
Retry(o) ==
    /\ tries' = [tries EXCEPT ![o] = @ + 1]
    /\ pc' = [pc EXCEPT ![o] = IF tries[o] + 1 < MaxRetries THEN "read" ELSE "refused"]

(* reserve, first part: the checks on the object before the UPDATE. *)
CheckStock(o) ==
    /\ pc[o] = "check"
    /\ \E s \in {stock, mem[o]} :
        /\ mem' = [mem EXCEPT ![o] = s]
        /\ \/ s.version # expected[o] /\ Retry(o)
           \/ /\ s.version = expected[o]
              /\ pc' = [pc EXCEPT ![o] = IF s.available < Quantity[o] THEN "refused"
                                                                     ELSE "update"]
              /\ UNCHANGED tries
    /\ UNCHANGED <<stock, stockLock, order, orderLock, expected, handling, released>>

(* reserve, second part: UPDATE ... WHERE version = expected_version AND   *)
(* available >= quantity. It waits for a row that matches and is locked,   *)
(* and looks again then; a row that does not match is passed over at once. *)
ReserveMatchesAny(o) == TRUE
ReserveMatches(o) == stock.version = expected[o] /\ stock.available >= Quantity[o]

UpdateStock(o) ==
    /\ pc[o] = "update"
    /\ \/ /\ ReserveMatches(o) /\ stockLock = None
          /\ stockLock' = o
          /\ pc' = [pc EXCEPT ![o] = "commit"]
          /\ UNCHANGED <<tries, mem>>
       \/ /\ ~ReserveMatches(o)
          /\ Retry(o)
          /\ mem' \in {mem, [mem EXCEPT ![o] = [version |-> @.version + 1,
                                                available |-> @.available - Quantity[o]]]}
          /\ UNCHANGED stockLock
    /\ UNCHANGED <<stock, order, orderLock, expected, handling, released>>

(* The row the UPDATE leaves behind. *)
ReservedFromMemory(o) ==
    [version |-> stock.version + 1, available |-> mem[o].available - Quantity[o]]
Reserved(o) ==
    [version |-> stock.version + 1, available |-> stock.available - Quantity[o]]

(* The caller commits the reservation, the order and its outbox row. *)
CommitOrder(o) ==
    /\ pc[o] = "commit"
    /\ stock' = Reserved(o)
    /\ order' = [order EXCEPT ![o] = "reserved"]
    /\ stockLock' = None
    /\ pc' = [pc EXCEPT ![o] = "placed"]
    /\ UNCHANGED <<orderLock, tries, mem, expected, handling, released>>

(* The transaction fails (by lock_timeout, say), or its process dies, at   *)
(* any point.                                                              *)
AbortOrder(o) ==
    /\ pc[o] \in {"read", "check", "update", "commit"}
    /\ pc' = [pc EXCEPT ![o] = "refused"]
    /\ stockLock' = IF stockLock = o THEN None ELSE stockLock
    /\ UNCHANGED <<stock, order, orderLock, tries, mem, expected, handling, released>>

-----------------------------------------------------------------------------
(* Payment events *)

Outcomes == INSTANCE PaymentOutcomes

(* A payment announces its outcome. *)
Announce(p, e) ==
    /\ Outcomes!Announce(p, e)
    /\ UNCHANGED <<stock, stockLock, order, orderLock, placing, deliveries, job, hpc,
                   verdict, released>>

Deliver(c, p) ==
    /\ hpc[c] = "idle" /\ announced[p] # "none"
    /\ deliveries[p] < MaxDeliveries
    /\ deliveries' = [deliveries EXCEPT ![p] = @ + 1]
    /\ job' = [job EXCEPT ![c] = p]
    /\ hpc' = [hpc EXCEPT ![c] = "select"]
    /\ UNCHANGED <<stock, stockLock, order, orderLock, placing, announced, verdict,
                   released>>

(* The handler's session ends, and with it its locks. *)
EndHandler(c) ==
    /\ hpc' = [hpc EXCEPT ![c] = "idle"]
    /\ job' = [job EXCEPT ![c] = None]
    /\ verdict' = [verdict EXCEPT ![c] = None]
    /\ orderLock' = [o \in Orders |-> IF orderLock[o] = c THEN None ELSE orderLock[o]]
    /\ stockLock' = IF stockLock = c THEN None ELSE stockLock
    /\ UNCHANGED <<placing, announced, deliveries>>

(* update_order_status: SELECT ... FOR UPDATE, then the new status, or     *)
(* None when the order is already there or its predecessor is another.     *)
OrderFreeUnlocked(o) == TRUE
OrderFree(o) == orderLock[o] = None

NewStatus(s, e) ==
    CASE e = "captured" /\ s = "reserved"              -> "paid"
      [] e = "failed" /\ s \in {"pending", "reserved"} -> "failed"
      [] OTHER                                         -> None

SelectOrder(c) ==
    LET o == PaysFor[job[c]]
        e == announced[job[c]]
    IN
    /\ hpc[c] = "select" /\ order[o] # "none" /\ OrderFree(o)
    /\ orderLock' = [orderLock EXCEPT ![o] = c]
    /\ verdict' = [verdict EXCEPT ![c] = NewStatus(order[o], e)]
    /\ hpc' = [hpc EXCEPT ![c] = IF e = "failed" THEN "release" ELSE "commit"]
    /\ UNCHANGED <<stock, stockLock, order, placing, announced, deliveries, job, released>>

(* OrderNotFoundError *)
OrderMissing(c) ==
    /\ hpc[c] = "select" /\ order[PaysFor[job[c]]] = "none"
    /\ EndHandler(c)
    /\ UNCHANGED <<stock, order, released>>

(* release: UPDATE with no condition on version. *)
ReleaseStock(c) ==
    /\ hpc[c] = "release" /\ stockLock = None
    /\ stockLock' = c
    /\ hpc' = [hpc EXCEPT ![c] = "commit"]
    /\ UNCHANGED <<stock, order, orderLock, placing, announced, deliveries, job,
                   verdict, released>>

GiveBack(o) ==
    /\ stock' = [stock EXCEPT !.available = @ + Quantity[o]]
    /\ released' = [released EXCEPT ![o] = @ + 1]

(* Whatever update_order_status decided, _on_payment_failed gives the      *)
(* quantity of the order back. An error of release is raised again and     *)
(* rolls the handler back (AbortHandler), although the comment beside it   *)
(* says "log and continue": that would be CompensateSwallowingErrors.      *)
CompensateSwallowingErrors(o) == GiveBack(o) \/ UNCHANGED <<stock, released>>
Compensate(o) == GiveBack(o)

CommitHandler(c) ==
    LET o == PaysFor[job[c]] IN
    /\ hpc[c] = "commit"
    /\ order' = [order EXCEPT ![o] = IF verdict[c] = None THEN @ ELSE verdict[c]]
    /\ \/ announced[job[c]] = "failed" /\ Compensate(o)
       \/ announced[job[c]] = "captured" /\ UNCHANGED <<stock, released>>
    /\ EndHandler(c)

(* The handler or its commit fails, or the process dies. *)
AbortHandler(c) ==
    /\ hpc[c] # "idle"
    /\ EndHandler(c)
    /\ UNCHANGED <<stock, order, released>>

-----------------------------------------------------------------------------
Init ==
    /\ stock = [version |-> 1, available |-> InitialStock]
    /\ stockLock = None
    /\ order = [o \in Orders |-> "none"]
    /\ orderLock = [o \in Orders |-> None]
    /\ pc = [o \in Orders |-> "read"]
    /\ tries = [o \in Orders |-> 0]
    /\ mem = [o \in Orders |-> stock]
    /\ expected = [o \in Orders |-> 0]
    /\ Outcomes!Init
    /\ deliveries = [p \in PaymentIds |-> 0]
    /\ job = [c \in Consumers |-> None]
    /\ hpc = [c \in Consumers |-> "idle"]
    /\ verdict = [c \in Consumers |-> None]
    /\ released = [o \in Orders |-> 0]

Place(o) == GetStock(o) \/ CheckStock(o) \/ UpdateStock(o) \/ CommitOrder(o)

Handle(c) == SelectOrder(c) \/ OrderMissing(c) \/ ReleaseStock(c) \/ CommitHandler(c)

Next ==
    \/ \E o \in Orders : Place(o) \/ AbortOrder(o)
    \/ \E p \in PaymentIds : \E e \in {"captured", "failed"} : Announce(p, e)
    \/ \E c \in Consumers :
        \/ \E p \in PaymentIds : Deliver(c, p)
        \/ Handle(c)
        \/ AbortHandler(c)

Spec == Init /\ [][Next]_vars

(* Statements are answered and sessions are closed; PostgreSQL grants a    *)
(* row lock to its waiters in turn.                                        *)
Fairness ==
    /\ \A o \in Orders : WF_vars(Place(o)) /\ SF_vars(UpdateStock(o))
    /\ \A c \in Consumers :
        WF_vars(Handle(c)) /\ SF_vars(SelectOrder(c)) /\ SF_vars(ReleaseStock(c))

LiveSpec == Spec /\ Fairness

-----------------------------------------------------------------------------
(* Types; the stock never goes below zero, and a lock is held only by a    *)
(* transaction that is still open.                                         *)
SagaTypeOK ==
    /\ stock \in [version : Nat, available : Nat]
    /\ order \in [Orders -> {"none", "reserved", "paid", "failed"}]
    /\ stockLock \in Orders \cup Consumers \cup {None}
    /\ \A o \in Orders : pc[o] = "commit" <=> stockLock = o
    /\ orderLock \in [Orders -> Consumers \cup {None}]
    /\ \A o \in Orders : tries[o] \in 0 .. MaxRetries
    /\ \A c \in Consumers : hpc[c] = "idle" <=> job[c] = None

(* The units in the orders placed, and those the handlers gave back: one   *)
(* element for every unit, so that counting the elements adds them up.     *)
UnitsOf(o) == 1 .. Quantity[o]
TakenUnits == UNION {{o} \X UnitsOf(o) : o \in {x \in Orders : order[x] # "none"}}
ReturnedUnits == UNION {({o} \X (1 .. released[o])) \X UnitsOf(o) : o \in Orders}

(* No unit is lost or made up by races between reservations and releases:  *)
(* what is available is what there was, minus the quantity of every order  *)
(* placed, plus what the handlers gave back.                               *)
StockLedger ==
    stock.available + Cardinality(TakenUnits) = InitialStock + Cardinality(ReturnedUnits)

(* The compensation is all or nothing: an order is FAILED only if its      *)
(* stock went back, and stock goes back only for an order with a failed    *)
(* payment. This is what the raise in _on_payment_failed is for; with the  *)
(* "log and continue" of the comment above it, it would not hold.          *)
CompensationIsAtomic ==
    \A o \in Orders :
        /\ order[o] = "failed" => released[o] > 0
        /\ released[o] > 0 =>
            \E p \in PaymentIds : PaysFor[p] = o /\ announced[p] = "failed"

(* Once an order is PAID or FAILED no late, repeated or contradictory      *)
(* payment event changes it.                                               *)
OrderOutcomeIsFinal ==
    [][\A o \in Orders : order[o] \in {"paid", "failed"} => order'[o] = order[o]]_vars

(* Transactions that race, wait, lose and fail leave what they would leave *)
(* one after the other: a commit of place_order or of a handler is one     *)
(* step of the serial saga on the rows as they are then, although it was   *)
(* decided on what its session had read before; all other steps are        *)
(* invisible.                                                              *)
Serial == INSTANCE OrderPromise WITH available <- stock.available

SagaIsSerial == Serial!Spec

(* Every place_order and every handler ends: retries are bounded and       *)
(* transactions never wait for each other in a circle.                     *)
TransactionsEnd ==
    /\ \A o \in Orders : <>(pc[o] \in {"placed", "refused"})
    /\ \A c \in Consumers : hpc[c] # "idle" ~> hpc[c] = "idle"

(* What the docstring of inventory release says ("Idempotent at the        *)
(* database level"): the stock of an order is given back at most once.     *)
StockReturnedOnce == \A o \in Orders : released[o] <= 1
=============================================================================
