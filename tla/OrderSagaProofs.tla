--------------------------- MODULE OrderSagaProofs ---------------------------
(***************************************************************************)
(* Proofs about OrderSaga for any orders, quantities, payments, consumers  *)
(* and retries: its invariants, that it implements the serial OrderPromise *)
(* and, from that, the stock ledger; and of TransactionsEnd the part that  *)
(* needs no fairness, that nobody waits in a circle or retries for ever.   *)
(***************************************************************************)
EXTENDS OrderSaga, FiniteSetTheorems, TLAPS

Open == {"read", "check", "update"}

(* The types of what SagaTypeOK leaves out. *)
SessionTypes ==
    /\ pc \in [Orders -> {"read", "check", "update", "commit", "placed", "refused"}]
    /\ tries \in [Orders -> Nat]
    /\ mem \in [Orders -> [version : Int, available : Int]]
    /\ expected \in [Orders -> Int]
    /\ announced \in [PaymentIds -> {"none", "captured", "failed"}]
    /\ job \in [Consumers -> PaymentIds \cup {None}]
    /\ hpc \in [Consumers -> {"idle", "select", "release", "commit"}]
    /\ verdict \in [Consumers -> {"paid", "failed", None}]
    /\ released \in [Orders -> Nat]

(* A call that may still try has tries left, one that has updated the row  *)
(* left it with enough, and an order exists exactly once it is placed.     *)
OrderInv(o) ==
    /\ pc[o] \in Open => tries[o] < MaxRetries
    /\ pc[o] = "commit" => stock.available >= Quantity[o]
    /\ order[o] = "none" <=> pc[o] # "placed"

(* A handler works on an announced event; it holds the order from its      *)
(* SELECT to its end, so what it decided still fits the order when it      *)
(* commits, and it holds the stock row when it is about to give back.      *)
HandlerInv(c) ==
    /\ hpc[c] # "idle" => job[c] \in PaymentIds /\ announced[job[c]] # "none"
    /\ hpc[c] = "release" => announced[job[c]] = "failed"
    /\ stockLock = c <=> hpc[c] = "commit" /\ announced[job[c]] = "failed"
    /\ hpc[c] \in {"release", "commit"} =>
        /\ orderLock[PaysFor[job[c]]] = c
        /\ order[PaysFor[job[c]]] # "none"
        /\ verdict[c] = NewStatus(order[PaysFor[job[c]]], announced[job[c]])

(* The inductive invariant. *)
SagaInv ==
    /\ SagaTypeOK
    /\ SessionTypes
    /\ \A o \in Orders : OrderInv(o)
    /\ \A c \in Consumers : HandlerInv(c)
    /\ CompensationIsAtomic

(* What may happen to an order that exists. *)
OutcomeKept == \A o \in Orders : order[o] \in {"paid", "failed"} => order'[o] = order[o]

-----------------------------------------------------------------------------
(* NewStatus moves a reserved order to the status of the event. *)
LEMMA NewStatusIs ==
    ASSUME NEW s \in {"reserved", "paid", "failed"}, NEW e \in {"captured", "failed"}
    PROVE  /\ NewStatus(s, e) \in {"paid", "failed", None}
           /\ NewStatus(s, e) = "paid" => s = "reserved" /\ e = "captured"
           /\ NewStatus(s, e) = "failed" => s = "reserved" /\ e = "failed"
           /\ s # "reserved" => NewStatus(s, e) = None
  BY SagaConstants DEF NewStatus

(* The invariant holds at first. *)
LEMMA SagaInitially == Init => SagaInv
  <1> SUFFICES ASSUME Init
               PROVE  SagaInv
    OBVIOUS
  <1>1. SagaTypeOK /\ SessionTypes
    BY SagaConstants DEF Init, Outcomes!Init, SagaTypeOK, SessionTypes
  <1>2. \A o \in Orders : OrderInv(o)
    BY SagaConstants DEF Init, OrderInv, Open
  <1>3. \A c \in Consumers : HandlerInv(c)
    BY SagaConstants DEF Init, HandlerInv
  <1>4. CompensationIsAtomic
    BY DEF Init, CompensationIsAtomic
  <1> QED
    BY <1>1, <1>2, <1>3, <1>4 DEF SagaInv

(* A step of a call that touches neither the tables nor their locks. *)
LEMMA SessionStep ==
    ASSUME SagaInv, NEW o \in Orders, pc[o] \in Open,
           pc' = [pc EXCEPT ![o] = pc'[o]], tries' = [tries EXCEPT ![o] = tries'[o]],
           pc'[o] \in Open \cup {"refused"}, tries'[o] \in 0 .. MaxRetries,
           pc'[o] # "refused" => tries'[o] < MaxRetries,
           mem' \in [Orders -> [version : Int, available : Int]],
           expected' \in [Orders -> Int],
           UNCHANGED <<stock, stockLock, order, orderLock, handling, released>>
    PROVE  SagaInv'
  <1> USE SagaConstants
  <1>1. \A x \in Orders \ {o} : pc'[x] = pc[x] /\ tries'[x] = tries[x]
    BY DEF SagaInv, SessionTypes
  <1>2. SagaTypeOK'
    BY <1>1 DEF SagaInv, SagaTypeOK, SessionTypes, Open, handling
  <1>3. SessionTypes'
    <2>1. pc' \in [Orders -> {"read", "check", "update", "commit", "placed", "refused"}]
      BY DEF SagaInv, SessionTypes, Open
    <2>2. tries' \in [Orders -> Nat]
      BY DEF SagaInv, SessionTypes
    <2> QED
      BY <2>1, <2>2 DEF SagaInv, SessionTypes, handling
  <1>4. \A x \in Orders : OrderInv(x)'
    BY <1>1 DEF SagaInv, OrderInv, Open
  <1>5. \A c \in Consumers : HandlerInv(c)'
    BY DEF SagaInv, HandlerInv, handling, NewStatus
  <1>6. CompensationIsAtomic'
    BY DEF SagaInv, CompensationIsAtomic, handling
  <1> QED
    BY <1>2, <1>3, <1>4, <1>5, <1>6 DEF SagaInv

(* A lost race counts, and the last one refuses the order. *)
LEMMA RetryFacts ==
    ASSUME SagaInv, NEW o \in Orders, pc[o] \in Open, Retry(o)
    PROVE  /\ pc' = [pc EXCEPT ![o] = pc'[o]] /\ pc'[o] \in Open \cup {"refused"}
           /\ tries' = [tries EXCEPT ![o] = tries'[o]]
           /\ tries'[o] \in 0 .. MaxRetries
           /\ pc'[o] # "refused" => tries'[o] < MaxRetries
  BY SagaConstants DEF SagaInv, SessionTypes, OrderInv, Retry, Open

(* Reading the stock, checking it and losing a race touch the session only. *)
LEMMA ReadStep ==
    ASSUME SagaInv, NEW o \in Orders, GetStock(o) \/ CheckStock(o)
    PROVE  SagaInv'
  <1>1. /\ stock \in [version : Int, available : Int]
        /\ mem \in [Orders -> [version : Int, available : Int]]
        /\ expected \in [Orders -> Int]
        /\ tries \in [Orders -> Nat] /\ tries = [tries EXCEPT ![o] = tries[o]]
        /\ pc[o] \in Open => tries[o] + 1 <= MaxRetries
    BY SagaConstants DEF SagaInv, SagaTypeOK, SessionTypes, OrderInv
  <1>2. CASE GetStock(o)
    <2>1. PICK s \in {stock, mem[o]} :
            /\ mem' = [mem EXCEPT ![o] = s]
            /\ expected' = [expected EXCEPT ![o] = s.version]
      BY <1>2 DEF GetStock
    <2>2. /\ mem' \in [Orders -> [version : Int, available : Int]]
          /\ expected' \in [Orders -> Int]
      BY <1>1, <2>1
    <2>3. /\ pc[o] \in Open /\ pc' = [pc EXCEPT ![o] = pc'[o]] /\ pc'[o] \in Open
          /\ tries' = [tries EXCEPT ![o] = tries'[o]]
          /\ tries'[o] \in 0 .. MaxRetries /\ tries'[o] < MaxRetries
          /\ UNCHANGED <<stock, stockLock, order, orderLock, handling, released>>
      BY <1>1, <1>2, SagaConstants DEF GetStock, Open, SagaInv, SessionTypes
    <2> QED
      BY <2>2, <2>3, SagaConstants, SessionStep
  <1>3. CASE CheckStock(o)
    <2>1. PICK s \in {stock, mem[o]} :
            /\ mem' = [mem EXCEPT ![o] = s]
            /\ \/ Retry(o)
               \/ /\ pc' = [pc EXCEPT ![o] = IF s.available < Quantity[o]
                                            THEN "refused" ELSE "update"]
                  /\ UNCHANGED tries
      BY <1>3 DEF CheckStock
    <2>2. mem' \in [Orders -> [version : Int, available : Int]]
      BY <1>1, <2>1
    <2>3. /\ pc[o] \in Open /\ UNCHANGED expected
          /\ UNCHANGED <<stock, stockLock, order, orderLock, handling, released>>
      BY <1>3 DEF CheckStock, Open
    <2>4. CASE Retry(o)
      BY <2>2, <2>3, <2>4, RetryFacts, SessionStep DEF SagaInv, SessionTypes
    <2>5. CASE ~Retry(o)
      <3>1. /\ pc' = [pc EXCEPT ![o] = pc'[o]] /\ pc'[o] \in Open \cup {"refused"}
            /\ tries' = [tries EXCEPT ![o] = tries'[o]]
            /\ tries'[o] \in 0 .. MaxRetries /\ tries'[o] < MaxRetries
        BY <1>1, <2>1, <2>3, <2>5, SagaConstants DEF Open, SagaInv, SessionTypes
      <3> QED
        BY <2>2, <2>3, <3>1, SessionStep DEF SagaInv, SessionTypes
    <2> QED
      BY <2>4, <2>5
  <1> QED
    BY <1>2, <1>3

(* The UPDATE takes the row lock and finds enough, or touches the session  *)
(* only.                                                                   *)
LEMMA UpdateStep ==
    ASSUME SagaInv, NEW o \in Orders, UpdateStock(o)
    PROVE  SagaInv'
  <1> USE SagaConstants
  <1>1. /\ mem \in [Orders -> [version : Int, available : Int]]
        /\ expected \in [Orders -> Int]
        /\ tries \in [Orders -> Nat]
        /\ pc[o] = "update" /\ tries[o] + 1 <= MaxRetries
    BY DEF UpdateStock, SagaInv, SagaTypeOK, SessionTypes, OrderInv, Open
  <1>2. CASE ~ReserveMatches(o)
    <2>1. mem' \in [Orders -> [version : Int, available : Int]]
      <3>1. [version |-> mem[o].version + 1, available |-> mem[o].available - Quantity[o]]
                \in [version : Int, available : Int]
        BY <1>1
      <3> QED
        BY <1>1, <1>2, <3>1 DEF UpdateStock
    <2>2. /\ pc[o] \in Open /\ Retry(o) /\ UNCHANGED expected
          /\ UNCHANGED <<stock, stockLock, order, orderLock, handling, released>>
      BY <1>1, <1>2 DEF UpdateStock, Open
    <2> QED
      BY <1>1, <2>1, <2>2, RetryFacts, SessionStep
  <1>3. CASE ReserveMatches(o)
    <2>1. /\ stockLock = None /\ stockLock' = o /\ stock.available >= Quantity[o]
          /\ pc' = [pc EXCEPT ![o] = "commit"]
          /\ UNCHANGED <<stock, order, orderLock, tries, mem, expected, handling, released>>
      BY <1>3 DEF UpdateStock, ReserveMatches
    <2>2. \A x \in Orders : pc'[x] = IF x = o THEN "commit" ELSE pc[x]
      BY <2>1 DEF SagaInv, SessionTypes
    <2>3. SagaTypeOK'
      BY <1>1, <2>1, <2>2 DEF SagaInv, SagaTypeOK, SessionTypes, handling
    <2>4. SessionTypes'
      BY <2>1 DEF SagaInv, SessionTypes, handling
    <2>5. \A x \in Orders : OrderInv(x)'
      BY <1>1, <2>1, <2>2 DEF SagaInv, OrderInv, Open
    <2>6. \A c \in Consumers : HandlerInv(c)'
      BY <2>1 DEF SagaInv, HandlerInv, handling, NewStatus
    <2>7. CompensationIsAtomic'
      BY <2>1 DEF SagaInv, CompensationIsAtomic, handling
    <2> QED
      BY <2>3, <2>4, <2>5, <2>6, <2>7 DEF SagaInv
  <1> QED
    BY <1>2, <1>3

(* Committing an order takes its quantity, which the lock kept available. *)
LEMMA CommitOrderStep ==
    ASSUME SagaInv, NEW o \in Orders, CommitOrder(o)
    PROVE  SagaInv'
  <1> USE SagaConstants
  <1>1. /\ pc[o] = "commit" /\ stockLock = o /\ stockLock' = None
        /\ order[o] = "none" /\ order' = [order EXCEPT ![o] = "reserved"]
        /\ pc' = [pc EXCEPT ![o] = "placed"]
        /\ UNCHANGED <<orderLock, tries, mem, expected, handling, released>>
    BY DEF CommitOrder, SagaInv, SagaTypeOK, OrderInv
  <1>2. stock' \in [version : Nat, available : Nat]
    <2>1. /\ stock \in [version : Nat, available : Nat] /\ Quantity[o] \in Nat
          /\ stock.available >= Quantity[o]
      BY <1>1 DEF SagaInv, SagaTypeOK, OrderInv
    <2>2. stock.version + 1 \in Nat /\ stock.available - Quantity[o] \in Nat
      BY <2>1
    <2> QED
      BY <2>2 DEF CommitOrder, Reserved
  <1>3. \A x \in Orders : /\ pc'[x] = IF x = o THEN "placed" ELSE pc[x]
                          /\ order'[x] = IF x = o THEN "reserved" ELSE order[x]
                          /\ x # o => pc[x] # "commit"
    BY <1>1 DEF SagaInv, SagaTypeOK, SessionTypes
  <1>4. SagaTypeOK'
    BY <1>1, <1>2, <1>3 DEF SagaInv, SagaTypeOK, SessionTypes, handling
  <1>5. SessionTypes'
    BY <1>1 DEF SagaInv, SessionTypes, handling
  <1>6. \A x \in Orders : OrderInv(x)'
    BY <1>1, <1>3 DEF SagaInv, OrderInv, Open
  <1>7. ASSUME NEW c \in Consumers
        PROVE  HandlerInv(c)'
    <2>1. hpc[c] \in {"release", "commit"} => PaysFor[job[c]] # o
      BY <1>1 DEF SagaInv, HandlerInv
    <2>2. hpc[c] \in {"release", "commit"} =>
            order'[PaysFor[job[c]]] = order[PaysFor[job[c]]]
      BY <2>1, <1>3, <1>1 DEF SagaInv, HandlerInv, SessionTypes
    <2>3. stockLock # c
      BY <1>1
    <2> QED
      BY <1>1, <2>1, <2>2, <2>3 DEF SagaInv, HandlerInv, handling, NewStatus
  <1>8. CompensationIsAtomic'
    BY <1>1, <1>3 DEF SagaInv, CompensationIsAtomic, handling
  <1> QED
    BY <1>4, <1>5, <1>6, <1>7, <1>8 DEF SagaInv

(* An aborted call leaves nothing but a free lock. *)
LEMMA AbortOrderStep ==
    ASSUME SagaInv, NEW o \in Orders, AbortOrder(o)
    PROVE  SagaInv'
  <1> USE SagaConstants
  <1>1. \A x \in Orders : pc'[x] = IF x = o THEN "refused" ELSE pc[x]
    BY DEF AbortOrder, SagaInv, SessionTypes
  <1>2. SagaTypeOK'
    BY <1>1 DEF AbortOrder, SagaInv, SagaTypeOK, SessionTypes, handling
  <1>3. SessionTypes'
    BY DEF AbortOrder, SagaInv, SessionTypes, handling
  <1>4. \A x \in Orders : OrderInv(x)'
    BY <1>1 DEF AbortOrder, SagaInv, OrderInv, Open
  <1>5. \A c \in Consumers : HandlerInv(c)'
    BY DEF AbortOrder, SagaInv, HandlerInv, handling, NewStatus
  <1>6. CompensationIsAtomic'
    BY DEF AbortOrder, SagaInv, CompensationIsAtomic, handling
  <1> QED
    BY <1>2, <1>3, <1>4, <1>5, <1>6 DEF SagaInv

-----------------------------------------------------------------------------
(* Announcing an outcome concerns no handler: none works on that payment. *)
LEMMA AnnounceStep ==
    ASSUME SagaInv, NEW p \in PaymentIds, NEW e \in {"captured", "failed"}, Announce(p, e)
    PROVE  SagaInv'
  <1> USE SagaConstants
  <1>1. /\ announced[p] = "none"
        /\ \A q \in PaymentIds : announced'[q] = IF q = p THEN e ELSE announced[q]
        /\ UNCHANGED <<stock, stockLock, order, orderLock, placing, deliveries, job, hpc,
                       verdict, released>>
    BY DEF Announce, Outcomes!Announce, SagaInv, SessionTypes
  <1>2. SagaTypeOK'
    BY <1>1 DEF SagaInv, SagaTypeOK, placing
  <1>3. SessionTypes'
    BY <1>1 DEF Announce, Outcomes!Announce, SagaInv, SessionTypes, placing
  <1>4. \A o \in Orders : OrderInv(o)'
    BY <1>1 DEF SagaInv, OrderInv, placing
  <1>5. ASSUME NEW c \in Consumers
        PROVE  HandlerInv(c)'
    <2>1. hpc[c] # "idle" => job[c] \in PaymentIds /\ announced'[job[c]] = announced[job[c]]
      BY <1>1 DEF SagaInv, HandlerInv
    <2> QED
      BY <1>1, <2>1 DEF SagaInv, HandlerInv, NewStatus
  <1>6. CompensationIsAtomic'
    BY <1>1 DEF SagaInv, CompensationIsAtomic
  <1> QED
    BY <1>2, <1>3, <1>4, <1>5, <1>6 DEF SagaInv

(* An idle consumer is handed an event. *)
LEMMA DeliverStep ==
    ASSUME SagaInv, NEW c \in Consumers, NEW p \in PaymentIds, Deliver(c, p)
    PROVE  SagaInv'
  <1> USE SagaConstants
  <1>1. /\ hpc[c] = "idle" /\ announced[p] # "none"
        /\ \A d \in Consumers : /\ hpc'[d] = IF d = c THEN "select" ELSE hpc[d]
                                /\ job'[d] = IF d = c THEN p ELSE job[d]
        /\ UNCHANGED <<stock, stockLock, order, orderLock, placing, announced, verdict,
                       released>>
    BY DEF Deliver, SagaInv, SessionTypes
  <1>2. SagaTypeOK'
    BY <1>1 DEF SagaInv, SagaTypeOK, placing
  <1>3. SessionTypes'
    BY <1>1 DEF Deliver, SagaInv, SessionTypes, placing
  <1>4. \A o \in Orders : OrderInv(o)'
    BY <1>1 DEF SagaInv, OrderInv, placing
  <1>5. ASSUME NEW d \in Consumers
        PROVE  HandlerInv(d)'
    <2>1. CASE d = c
      BY <1>1, <2>1 DEF SagaInv, HandlerInv
    <2>2. CASE d # c
      BY <1>1, <2>2 DEF SagaInv, HandlerInv, NewStatus
    <2> QED
      BY <2>1, <2>2
  <1>6. CompensationIsAtomic'
    BY <1>1 DEF SagaInv, CompensationIsAtomic
  <1> QED
    BY <1>2, <1>3, <1>4, <1>5, <1>6 DEF SagaInv

(* SELECT ... FOR UPDATE takes an order that nobody holds and decides. *)
LEMMA SelectStep ==
    ASSUME SagaInv, NEW c \in Consumers, SelectOrder(c)
    PROVE  SagaInv'
  <1> USE SagaConstants
  <1> DEFINE o == PaysFor[job[c]]
             e == announced[job[c]]
  <1>1. /\ hpc[c] = "select" /\ job[c] \in PaymentIds /\ o \in Orders
        /\ e \in {"captured", "failed"} /\ order[o] \in {"reserved", "paid", "failed"}
        /\ orderLock[o] = None
    BY DEF SelectOrder, OrderFree, SagaInv, SagaTypeOK, SessionTypes, HandlerInv
  <1>2. NewStatus(order[o], e) \in {"paid", "failed", None}
    BY <1>1, NewStatusIs
  <1>3. /\ \A x \in Orders : orderLock'[x] = IF x = o THEN c ELSE orderLock[x]
        /\ \A d \in Consumers :
            /\ verdict'[d] = IF d = c THEN NewStatus(order[o], e) ELSE verdict[d]
            /\ hpc'[d] = IF d = c THEN (IF e = "failed" THEN "release" ELSE "commit")
                                  ELSE hpc[d]
        /\ UNCHANGED <<stock, stockLock, order, placing, announced, deliveries, job, released>>
    BY DEF SelectOrder, SagaInv, SagaTypeOK, SessionTypes
  <1>4. SagaTypeOK'
    <2>1. orderLock' \in [Orders -> Consumers \cup {None}]
      BY <1>1 DEF SelectOrder, SagaInv, SagaTypeOK
    <2> QED
      BY <1>1, <1>3, <2>1 DEF SagaInv, SagaTypeOK, placing
  <1>5. SessionTypes'
    <2>1. verdict' \in [Consumers -> {"paid", "failed", None}]
      BY <1>2 DEF SelectOrder, SagaInv, SessionTypes
    <2>2. hpc' \in [Consumers -> {"idle", "select", "release", "commit"}]
      BY DEF SelectOrder, SagaInv, SessionTypes
    <2> QED
      BY <1>3, <2>1, <2>2 DEF SagaInv, SessionTypes, placing
  <1>6. \A x \in Orders : OrderInv(x)'
    BY <1>3 DEF SagaInv, OrderInv, placing
  <1>7. ASSUME NEW d \in Consumers
        PROVE  HandlerInv(d)'
    <2>1. CASE d = c
      <3>1. /\ hpc'[c] \in {"release", "commit"} /\ hpc'[c] = "release" <=> e = "failed"
            /\ stockLock # c
        BY <1>1, <1>3 DEF SagaInv, HandlerInv
      <3>2. /\ orderLock'[o] = c /\ order'[o] # "none"
            /\ verdict'[c] = NewStatus(order'[o], announced'[job[c]])
        BY <1>1, <1>3
      <3> QED
        BY <1>1, <1>3, <2>1, <3>1, <3>2 DEF HandlerInv, NewStatus
    <2>2. CASE d # c
      <3>1. hpc[d] \in {"release", "commit"} => PaysFor[job[d]] \in Orders \ {o}
        BY <1>1, <2>2 DEF SagaInv, HandlerInv
      <3> QED
        BY <1>3, <2>2, <3>1 DEF SagaInv, HandlerInv, NewStatus
    <2> QED
      BY <2>1, <2>2
  <1>8. CompensationIsAtomic'
    BY <1>3 DEF SagaInv, CompensationIsAtomic
  <1> QED
    BY <1>4, <1>5, <1>6, <1>7, <1>8 DEF SagaInv

(* release takes the row lock of the stock. *)
LEMMA ReleaseStep ==
    ASSUME SagaInv, NEW c \in Consumers, ReleaseStock(c)
    PROVE  SagaInv'
  <1> USE SagaConstants
  <1>1. /\ hpc[c] = "release" /\ stockLock = None /\ stockLock' = c
        /\ \A d \in Consumers : hpc'[d] = IF d = c THEN "commit" ELSE hpc[d]
        /\ UNCHANGED <<stock, order, orderLock, placing, announced, deliveries, job,
                       verdict, released>>
    BY DEF ReleaseStock, SagaInv, SessionTypes
  <1>2. SagaTypeOK'
    BY <1>1 DEF SagaInv, SagaTypeOK, placing
  <1>3. SessionTypes'
    BY <1>1 DEF ReleaseStock, SagaInv, SessionTypes, placing
  <1>4. \A o \in Orders : OrderInv(o)'
    BY <1>1 DEF SagaInv, OrderInv, placing
  <1>5. ASSUME NEW d \in Consumers
        PROVE  HandlerInv(d)'
    BY <1>1 DEF SagaInv, HandlerInv, NewStatus
  <1>6. CompensationIsAtomic'
    BY <1>1 DEF SagaInv, CompensationIsAtomic
  <1> QED
    BY <1>2, <1>3, <1>4, <1>5, <1>6 DEF SagaInv

(* The end of a handler frees what it held.  The tables may change, as     *)
(* long as the reservations under way and the other handlers can bear it.  *)
LEMMA EndStep ==
    ASSUME SagaInv, NEW c \in Consumers, hpc[c] # "idle", EndHandler(c),
           stock' \in [version : Nat, available : Nat],
           \A o \in Orders : pc[o] = "commit" => stock'.available >= Quantity[o],
           order' \in [Orders -> {"none", "reserved", "paid", "failed"}],
           \A o \in Orders : order'[o] = "none" <=> order[o] = "none",
           \A o \in Orders : orderLock[o] # c => order'[o] = order[o],
           released' \in [Orders -> Nat],
           CompensationIsAtomic'
    PROVE  SagaInv'
  <1> USE SagaConstants
  <1>1. /\ \A d \in Consumers : /\ hpc'[d] = IF d = c THEN "idle" ELSE hpc[d]
                                /\ job'[d] = IF d = c THEN None ELSE job[d]
                                /\ verdict'[d] = IF d = c THEN None ELSE verdict[d]
        /\ \A o \in Orders : orderLock'[o] = IF orderLock[o] = c THEN None ELSE orderLock[o]
        /\ stockLock' = IF stockLock = c THEN None ELSE stockLock
        /\ UNCHANGED <<placing, announced, deliveries>>
    BY DEF EndHandler, SagaInv, SessionTypes
  <1>2. SagaTypeOK'
    <2>1. orderLock' \in [Orders -> Consumers \cup {None}]
      BY DEF EndHandler, SagaInv, SagaTypeOK
    <2> QED
      BY <1>1, <2>1 DEF SagaInv, SagaTypeOK, placing
  <1>3. SessionTypes'
    <2>1. /\ hpc' \in [Consumers -> {"idle", "select", "release", "commit"}]
          /\ job' \in [Consumers -> PaymentIds \cup {None}]
          /\ verdict' \in [Consumers -> {"paid", "failed", None}]
      BY DEF EndHandler, SagaInv, SessionTypes
    <2> QED
      BY <1>1, <2>1 DEF SagaInv, SessionTypes, placing
  <1>4. \A o \in Orders : OrderInv(o)'
    BY <1>1 DEF SagaInv, OrderInv, placing
  <1>5. ASSUME NEW d \in Consumers
        PROVE  HandlerInv(d)'
    <2>1. CASE d = c
      BY <1>1, <2>1 DEF SagaInv, HandlerInv
    <2>2. CASE d # c
      <3>1. hpc[d] \in {"release", "commit"} =>
                /\ PaysFor[job[d]] \in Orders /\ orderLock[PaysFor[job[d]]] = d
                /\ order'[PaysFor[job[d]]] = order[PaysFor[job[d]]]
        BY <2>2 DEF SagaInv, HandlerInv
      <3> QED
        BY <1>1, <2>2, <3>1 DEF SagaInv, HandlerInv, NewStatus
    <2> QED
      BY <2>1, <2>2
  <1> QED
    BY <1>2, <1>3, <1>4, <1>5 DEF SagaInv

(* A handler that rolls back, or finds no order, changes no table. *)
LEMMA RollBackStep ==
    ASSUME SagaInv, NEW c \in Consumers, OrderMissing(c) \/ AbortHandler(c)
    PROVE  SagaInv'
  <1>1. /\ hpc[c] # "idle" /\ EndHandler(c) /\ UNCHANGED <<stock, order, released>>
        /\ UNCHANGED announced
    BY DEF OrderMissing, AbortHandler, EndHandler
  <1>2. CompensationIsAtomic'
    BY <1>1 DEF SagaInv, CompensationIsAtomic
  <1>3. /\ stock \in [version : Nat, available : Nat]
        /\ \A o \in Orders : pc[o] = "commit" => stock.available >= Quantity[o]
        /\ order \in [Orders -> {"none", "reserved", "paid", "failed"}]
        /\ released \in [Orders -> Nat]
    BY DEF SagaInv, SagaTypeOK, SessionTypes, OrderInv
  <1> QED
    BY <1>1, <1>2, <1>3, EndStep

(* What a handler decided fits the order it still holds. *)
LEMMA VerdictFits ==
    ASSUME SagaInv, NEW c \in Consumers, hpc[c] = "commit"
    PROVE  /\ job[c] \in PaymentIds /\ PaysFor[job[c]] \in Orders
           /\ announced[job[c]] \in {"captured", "failed"}
           /\ order[PaysFor[job[c]]] \in {"reserved", "paid", "failed"}
           /\ orderLock[PaysFor[job[c]]] = c
           /\ verdict[c] \in {"paid", "failed", None}
           /\ verdict[c] = "failed" => announced[job[c]] = "failed"
           /\ verdict[c] # None => order[PaysFor[job[c]]] = "reserved"
  <1>1. /\ job[c] \in PaymentIds /\ PaysFor[job[c]] \in Orders
        /\ announced[job[c]] \in {"captured", "failed"}
        /\ order[PaysFor[job[c]]] \in {"reserved", "paid", "failed"}
        /\ orderLock[PaysFor[job[c]]] = c
        /\ verdict[c] = NewStatus(order[PaysFor[job[c]]], announced[job[c]])
    BY SagaConstants DEF SagaInv, SagaTypeOK, SessionTypes, HandlerInv
  <1> QED
    BY <1>1, NewStatusIs

(* Committing a handler: the status, and with it the compensation. *)
LEMMA CommitHandlerStep ==
    ASSUME SagaInv, NEW c \in Consumers, CommitHandler(c)
    PROVE  SagaInv'
  <1> USE SagaConstants
  <1> DEFINE o == PaysFor[job[c]]
             s == IF verdict[c] = None THEN order[o] ELSE verdict[c]
  <1>1. /\ hpc[c] = "commit" /\ EndHandler(c) /\ UNCHANGED announced
        /\ order' = [order EXCEPT ![o] = s]
    BY DEF CommitHandler, EndHandler
  <1>2. /\ job[c] \in PaymentIds /\ o \in Orders
        /\ announced[job[c]] \in {"captured", "failed"}
        /\ order[o] \in {"reserved", "paid", "failed"} /\ orderLock[o] = c
        /\ verdict[c] \in {"paid", "failed", None}
        /\ verdict[c] = "failed" => announced[job[c]] = "failed"
    BY <1>1, VerdictFits
  <1>3. /\ order' \in [Orders -> {"none", "reserved", "paid", "failed"}]
        /\ \A x \in Orders : order'[x] = IF x = o THEN s ELSE order[x]
    BY <1>1, <1>2 DEF SagaInv, SagaTypeOK
  <1>4. /\ stock \in [version : Nat, available : Nat] /\ Quantity[o] \in Nat
        /\ \A x \in Orders : pc[x] = "commit" => stock.available >= Quantity[x]
        /\ released \in [Orders -> Nat] /\ Quantity \in [Orders -> Nat]
    BY <1>2 DEF SagaInv, SagaTypeOK, SessionTypes, OrderInv
  <1>5. CASE announced[job[c]] = "captured"
    <2>1. UNCHANGED <<stock, released>>
      BY <1>5 DEF CommitHandler
    <2>2. verdict[c] # "failed"
      BY <1>2, <1>5
    <2>3. CompensationIsAtomic'
      BY <1>1, <1>2, <1>3, <2>1, <2>2 DEF SagaInv, CompensationIsAtomic
    <2> QED
      BY <1>1, <1>2, <1>3, <1>4, <2>1, <2>3, EndStep
  <1>6. CASE announced[job[c]] = "failed"
    <2>1. /\ stock' = [stock EXCEPT !.available = @ + Quantity[o]]
          /\ released' = [released EXCEPT ![o] = @ + 1]
      BY <1>6 DEF CommitHandler, Compensate, GiveBack
    <2>2. /\ stock' \in [version : Nat, available : Nat]
          /\ stock'.available >= stock.available
      BY <1>4, <2>1
    <2>3. \A x \in Orders : pc[x] = "commit" => stock'.available >= Quantity[x]
      BY <1>4, <2>2
    <2>4. /\ released' \in [Orders -> Nat] /\ released'[o] > 0
          /\ \A x \in Orders \ {o} : released'[x] = released[x]
      BY <1>2, <1>4, <2>1
    <2>5. CompensationIsAtomic'
      BY <1>1, <1>2, <1>3, <1>6, <2>4 DEF SagaInv, CompensationIsAtomic
    <2> QED
      BY <1>1, <1>2, <1>3, <2>2, <2>3, <2>4, <2>5, EndStep
  <1> QED
    BY <1>2, <1>5, <1>6

-----------------------------------------------------------------------------
(* A step of the whole system keeps the invariant. *)
LEMMA SagaStep == SagaInv /\ [Next]_vars => SagaInv'
  <1> SUFFICES ASSUME SagaInv, [Next]_vars
               PROVE  SagaInv'
    OBVIOUS
  <1>1. ASSUME NEW o \in Orders, Place(o) \/ AbortOrder(o)
        PROVE  SagaInv'
    BY <1>1, ReadStep, UpdateStep, CommitOrderStep, AbortOrderStep DEF Place
  <1>2. ASSUME NEW p \in PaymentIds, NEW e \in {"captured", "failed"}, Announce(p, e)
        PROVE  SagaInv'
    BY <1>2, AnnounceStep
  <1>3. ASSUME NEW c \in Consumers, NEW p \in PaymentIds, Deliver(c, p)
        PROVE  SagaInv'
    BY <1>3, DeliverStep
  <1>4. ASSUME NEW c \in Consumers, Handle(c) \/ AbortHandler(c)
        PROVE  SagaInv'
    BY <1>4, SelectStep, ReleaseStep, RollBackStep, CommitHandlerStep DEF Handle
  <1>5. CASE UNCHANGED vars
    BY <1>5 DEF vars, placing, handling, SagaInv, SagaTypeOK, SessionTypes, OrderInv,
                HandlerInv, CompensationIsAtomic, NewStatus, Open
  <1> QED
    BY <1>1, <1>2, <1>3, <1>4, <1>5 DEF Next

-----------------------------------------------------------------------------
(* What a step does to the tables: nothing, or one step of the serial      *)
(* saga.  A handler that gives stock back is counted.                      *)
SerialOrCounted ==
    \/ UNCHANGED <<stock.available, order, announced, released>>
    \/ \E o \in Orders : Serial!Place(o) /\ UNCHANGED released
    \/ Serial!Announce /\ UNCHANGED released
    \/ \E p \in PaymentIds : Serial!HandleCaptured(p) /\ UNCHANGED released
    \/ \E p \in PaymentIds :
        Serial!HandleFailed(p) /\ released' = [released EXCEPT ![PaysFor[p]] = @ + 1]

(* The commit of an order is the serial Place: nobody has changed the row  *)
(* since the UPDATE found enough in it.                                    *)
LEMMA CommitOrderIsPlace ==
    ASSUME SagaInv, NEW o \in Orders, CommitOrder(o)
    PROVE  Serial!Place(o) /\ UNCHANGED released
  <1>1. order[o] = "none" /\ stock.available >= Quantity[o]
    BY DEF CommitOrder, SagaInv, OrderInv
  <1>2. stock.available \in Nat /\ Quantity[o] \in Nat
    BY SagaConstants DEF SagaInv, SagaTypeOK
  <1>3. /\ order' = [order EXCEPT ![o] = "reserved"]
        /\ stock'.available = stock.available - Quantity[o]
        /\ UNCHANGED <<announced, released>>
    BY DEF CommitOrder, Reserved, handling
  <1> QED
    BY <1>1, <1>2, <1>3 DEF Serial!Place

(* The commit of a handler is the serial handling of its event: what it    *)
(* decided at its SELECT is what it would decide now.                      *)
LEMMA CommitHandlerIsHandle ==
    ASSUME SagaInv, NEW c \in Consumers, CommitHandler(c)
    PROVE  SerialOrCounted
  <1> DEFINE p == job[c]
             o == PaysFor[p]
  <1>1. /\ hpc[c] = "commit" /\ UNCHANGED announced
        /\ order' = [order EXCEPT ![o] = IF verdict[c] = None THEN order[o] ELSE verdict[c]]
    BY DEF CommitHandler, EndHandler
  <1>2. /\ p \in PaymentIds /\ o \in Orders /\ announced[p] \in {"captured", "failed"}
        /\ order[o] \in {"reserved", "paid", "failed"}
        /\ verdict[c] = NewStatus(order[o], announced[p])
    BY <1>1, VerdictFits DEF SagaInv, HandlerInv
  <1>3. ASSUME NEW s \in {"paid", "failed"},
               s = IF announced[p] = "captured" THEN "paid" ELSE "failed"
        PROVE  order' = Serial!Decided(o, s)
    <2>1. (IF verdict[c] = None THEN order[o] ELSE verdict[c])
            = IF order[o] = "reserved" THEN s ELSE order[o]
      BY <1>2, <1>3, SagaConstants DEF NewStatus
    <2> QED
      BY <1>1, <2>1 DEF Serial!Decided
  <1>4. CASE announced[p] = "captured"
    <2>1. UNCHANGED <<stock, released>>
      BY <1>4 DEF CommitHandler
    <2>2. Serial!HandleCaptured(p)
      BY <1>1, <1>2, <1>3, <1>4, <2>1 DEF Serial!HandleCaptured
    <2> QED
      BY <1>2, <2>1, <2>2 DEF SerialOrCounted
  <1>5. CASE announced[p] = "failed"
    <2>1. /\ stock' = [stock EXCEPT !.available = @ + Quantity[o]]
          /\ released' = [released EXCEPT ![o] = @ + 1]
      BY <1>5 DEF CommitHandler, Compensate, GiveBack
    <2>2. stock'.available = stock.available + Quantity[o]
      BY <2>1 DEF SagaInv, SagaTypeOK
    <2>3. Serial!HandleFailed(p)
      BY <1>1, <1>2, <1>3, <1>5, <2>2 DEF Serial!HandleFailed
    <2> QED
      BY <1>2, <2>1, <2>3 DEF SerialOrCounted
  <1> QED
    BY <1>2, <1>4, <1>5

(* Every step of the saga is one of these. *)
LEMMA SerialStep == SagaInv /\ [Next]_vars => SerialOrCounted
  <1> SUFFICES ASSUME SagaInv, [Next]_vars
               PROVE  SerialOrCounted
    OBVIOUS
  <1>1. ASSUME NEW o \in Orders, CommitOrder(o)
        PROVE  SerialOrCounted
    BY <1>1, CommitOrderIsPlace DEF SerialOrCounted
  <1>2. ASSUME NEW c \in Consumers, CommitHandler(c)
        PROVE  SerialOrCounted
    BY <1>2, CommitHandlerIsHandle
  <1>3. ASSUME NEW o \in Orders, GetStock(o) \/ CheckStock(o) \/ UpdateStock(o) \/ AbortOrder(o)
        PROVE  SerialOrCounted
    BY <1>3 DEF GetStock, CheckStock, UpdateStock, AbortOrder, handling, SerialOrCounted
  <1>4. ASSUME NEW p \in PaymentIds, NEW e \in {"captured", "failed"}, Announce(p, e)
        PROVE  SerialOrCounted
    <2>1. Serial!Outcomes!Next
      BY <1>4 DEF Announce, Outcomes!Announce, Serial!Outcomes!Next,
                  Serial!Outcomes!Announce, Serial!Outcomes!Outcome
    <2> QED
      BY <1>4, <2>1 DEF Announce, Serial!Announce, SerialOrCounted
  <1>5. ASSUME NEW c \in Consumers, NEW p \in PaymentIds, Deliver(c, p)
        PROVE  SerialOrCounted
    BY <1>5 DEF Deliver, SerialOrCounted
  <1>6. ASSUME NEW c \in Consumers,
               SelectOrder(c) \/ OrderMissing(c) \/ ReleaseStock(c) \/ AbortHandler(c)
        PROVE  SerialOrCounted
    BY <1>6 DEF SelectOrder, OrderMissing, ReleaseStock, AbortHandler, EndHandler,
                SerialOrCounted
  <1>7. CASE UNCHANGED vars
    BY <1>7 DEF vars, handling, SerialOrCounted
  <1> QED
    BY <1>1, <1>2, <1>3, <1>4, <1>5, <1>6, <1>7 DEF Next, Place, Handle

(* The serial saga changes no order that is PAID or FAILED. *)
LEMMA OutcomeStep == SagaInv /\ [Next]_vars => OutcomeKept
  <1> SUFFICES ASSUME SagaInv, SerialOrCounted,
                      NEW x \in Orders, order[x] \in {"paid", "failed"}
               PROVE  order'[x] = order[x]
    BY SerialStep DEF OutcomeKept
  <1>1. order \in [Orders -> {"none", "reserved", "paid", "failed"}]
    BY DEF SagaInv, SagaTypeOK
  <1> QED
    BY <1>1 DEF SerialOrCounted, Serial!Place, Serial!Announce, Serial!HandleCaptured,
                Serial!HandleFailed, Serial!Decided

-----------------------------------------------------------------------------
(* The ledger.  The sets of units are finite because they grow by one      *)
(* order's block at a time, so no assumption on the number of orders is    *)
(* needed.                                                                 *)
LedgerInv ==
    /\ IsFiniteSet(TakenUnits)
    /\ IsFiniteSet(ReturnedUnits)
    /\ StockLedger

(* A block {x} \X 1..n has n elements; added to a set it is disjoint from,  *)
(* it adds n.                                                              *)
LEMMA AddBlock ==
    ASSUME NEW S, IsFiniteSet(S), NEW x, NEW n \in Nat, S \cap ({x} \X (1 .. n)) = {}
    PROVE  /\ IsFiniteSet(S \cup ({x} \X (1 .. n)))
           /\ Cardinality(S \cup ({x} \X (1 .. n))) = Cardinality(S) + n
  <1> DEFINE B == {x} \X (1 .. n)
  <1>1. IsFiniteSet({x}) /\ Cardinality({x}) = 1
    BY FS_Singleton
  <1>2. IsFiniteSet(1 .. n) /\ Cardinality(1 .. n) = n
    BY FS_Interval
  <1>3. IsFiniteSet(B) /\ Cardinality(B) = n
    <2>1. IsFiniteSet(B) /\ Cardinality(B) = Cardinality({x}) * Cardinality(1 .. n)
      BY <1>1, <1>2, FS_Product
    <2>2. 1 * n = n
      OBVIOUS
    <2> QED
      BY <1>1, <1>2, <2>1, <2>2
  <1>4. Cardinality(S) \in Nat
    BY FS_CardinalityType
  <1>5. Cardinality(S \cap B) = 0
    BY FS_EmptySet
  <1> QED
    BY <1>3, <1>4, <1>5, FS_Union

(* An order that is placed takes its units. *)
LEMMA PlaceTakes ==
    ASSUME SagaInv, IsFiniteSet(TakenUnits), NEW o \in Orders, order[o] = "none",
           order' = [order EXCEPT ![o] = "reserved"]
    PROVE  /\ IsFiniteSet(TakenUnits')
           /\ Cardinality(TakenUnits') = Cardinality(TakenUnits) + Quantity[o]
  <1> DEFINE B == {o} \X (1 .. Quantity[o])
             placed == {x \in Orders : order[x] # "none"}
  <1>1. Quantity[o] \in Nat
    BY SagaConstants
  <1>2. {x \in Orders : order'[x] # "none"} = placed \cup {o}
    BY DEF SagaInv, SagaTypeOK
  <1>3. TakenUnits' = TakenUnits \cup B
    <2>1. TakenUnits' = UNION {{x} \X UnitsOf(x) : x \in placed \cup {o}}
      BY <1>2 DEF TakenUnits, UnitsOf
    <2> QED
      BY <2>1 DEF TakenUnits, UnitsOf
  <1>4. TakenUnits \cap B = {}
    BY DEF TakenUnits
  <1> QED
    BY <1>1, <1>3, <1>4, AddBlock

(* An order whose stock goes back once more returns them once more. *)
LEMMA ReleaseReturns ==
    ASSUME SagaInv, IsFiniteSet(ReturnedUnits), NEW o \in Orders,
           released' = [released EXCEPT ![o] = @ + 1]
    PROVE  /\ IsFiniteSet(ReturnedUnits')
           /\ Cardinality(ReturnedUnits') = Cardinality(ReturnedUnits) + Quantity[o]
  <1> DEFINE n == released[o]
             B == {<<o, n + 1>>} \X (1 .. Quantity[o])
             block(x) == ({x} \X (1 .. released[x])) \X UnitsOf(x)
             newBlock(x) == ({x} \X (1 .. released'[x])) \X UnitsOf(x)
  <1>1. Quantity[o] \in Nat /\ n \in Nat /\ released'[o] = n + 1
    BY SagaConstants DEF SagaInv, SessionTypes
  <1>2. \A x \in Orders : x # o => released'[x] = released[x]
    BY DEF SagaInv, SessionTypes
  <1>3. newBlock(o) = block(o) \cup B
    <2>1. 1 .. n + 1 = (1 .. n) \cup {n + 1}
      BY <1>1
    <2> QED
      BY <1>1, <2>1 DEF UnitsOf
  <1>4. ReturnedUnits' = ReturnedUnits \cup B
    <2>1. ReturnedUnits' = UNION {newBlock(x) : x \in Orders}
      BY DEF ReturnedUnits, UnitsOf
    <2>2. ReturnedUnits = UNION {block(x) : x \in Orders}
      BY DEF ReturnedUnits
    <2>3. \A x \in Orders : x # o => newBlock(x) = block(x)
      BY <1>2
    <2> HIDE DEF block, newBlock, B
    <2> QED
      BY <1>3, <2>1, <2>2, <2>3
  <1>5. ReturnedUnits \cap B = {}
    BY <1>1 DEF ReturnedUnits
  <1> QED
    BY <1>1, <1>4, <1>5, AddBlock

(* Nothing taken and nothing returned at first. *)
LEMMA LedgerInitially == Init => LedgerInv
  <1> SUFFICES ASSUME Init PROVE LedgerInv
    OBVIOUS
  <1>1. TakenUnits = {}
    BY DEF Init, TakenUnits
  <1>2. ReturnedUnits = {}
    <2>1. \A o \in Orders : 1 .. released[o] = {}
      BY DEF Init
    <2> QED
      BY <2>1 DEF ReturnedUnits
  <1>3. stock.available = InitialStock
    BY DEF Init
  <1> QED
    BY <1>1, <1>2, <1>3, FS_EmptySet, SagaConstants DEF LedgerInv, StockLedger

(* A step of the serial saga keeps the ledger. *)
LEMMA LedgerStep == SagaInv /\ LedgerInv /\ [Next]_vars => LedgerInv'
  <1> SUFFICES ASSUME SagaInv, LedgerInv, SerialOrCounted
               PROVE  LedgerInv'
    BY SerialStep
  <1>1. /\ stock.available \in Nat /\ InitialStock \in Nat
        /\ Cardinality(TakenUnits) \in Nat /\ Cardinality(ReturnedUnits) \in Nat
        /\ \A o \in Orders : Quantity[o] \in Nat
    BY SagaConstants, FS_CardinalityType DEF SagaInv, SagaTypeOK, LedgerInv
  <1>2. ASSUME UNCHANGED released
        PROVE  ReturnedUnits' = ReturnedUnits
    BY <1>2 DEF ReturnedUnits, UnitsOf
  <1>3. ASSUME \A o \in Orders : order'[o] = "none" <=> order[o] = "none"
        PROVE  TakenUnits' = TakenUnits
    <2>1. {x \in Orders : order'[x] # "none"} = {x \in Orders : order[x] # "none"}
      BY <1>3
    <2> QED
      BY <2>1 DEF TakenUnits, UnitsOf
  <1>4. ASSUME NEW o \in Orders, NEW s \in {"paid", "failed"}, order' = Serial!Decided(o, s)
        PROVE  TakenUnits' = TakenUnits
    <2>1. \A x \in Orders : order'[x] = "none" <=> order[x] = "none"
      BY <1>4 DEF Serial!Decided, SagaInv, SagaTypeOK
    <2> QED
      BY <2>1, <1>3
  <1>5. CASE UNCHANGED <<stock.available, order, announced, released>>
    BY <1>2, <1>3, <1>5 DEF LedgerInv, StockLedger
  <1>6. ASSUME NEW o \in Orders, Serial!Place(o), UNCHANGED released
        PROVE  LedgerInv'
    <2>1. /\ IsFiniteSet(TakenUnits')
          /\ Cardinality(TakenUnits') = Cardinality(TakenUnits) + Quantity[o]
      BY <1>6, PlaceTakes DEF Serial!Place, LedgerInv
    <2>2. stock'.available = stock.available - Quantity[o]
      BY <1>6 DEF Serial!Place
    <2> QED
      BY <1>1, <1>2, <1>6, <2>1, <2>2 DEF LedgerInv, StockLedger
  <1>7. CASE Serial!Announce /\ UNCHANGED released
    BY <1>2, <1>3, <1>7 DEF Serial!Announce, LedgerInv, StockLedger
  <1>8. ASSUME NEW p \in PaymentIds, Serial!HandleCaptured(p), UNCHANGED released
        PROVE  LedgerInv'
    <2>1. PaysFor[p] \in Orders
      BY SagaConstants
    <2>2. TakenUnits' = TakenUnits
      BY <1>4, <1>8, <2>1 DEF Serial!HandleCaptured
    <2> QED
      BY <1>2, <1>8, <2>2 DEF Serial!HandleCaptured, LedgerInv, StockLedger
  <1>9. ASSUME NEW p \in PaymentIds, Serial!HandleFailed(p),
               released' = [released EXCEPT ![PaysFor[p]] = @ + 1]
        PROVE  LedgerInv'
    <2>1. PaysFor[p] \in Orders
      BY SagaConstants
    <2>2. TakenUnits' = TakenUnits
      BY <1>4, <1>9, <2>1 DEF Serial!HandleFailed
    <2>3. /\ IsFiniteSet(ReturnedUnits')
          /\ Cardinality(ReturnedUnits') = Cardinality(ReturnedUnits) + Quantity[PaysFor[p]]
      BY <1>9, <2>1, ReleaseReturns DEF LedgerInv
    <2>4. stock'.available = stock.available + Quantity[PaysFor[p]]
      BY <1>9 DEF Serial!HandleFailed
    <2> QED
      BY <1>1, <2>1, <2>2, <2>3, <2>4 DEF LedgerInv, StockLedger
  <1> QED
    BY <1>5, <1>6, <1>7, <1>8, <1>9 DEF SerialOrCounted

-----------------------------------------------------------------------------
(* Why transactions end *)

(* t waits for a row that u has locked. *)
WaitsFor(t, u) ==
    \/ t \in Orders /\ pc[t] = "update" /\ stockLock = u
    \/ t \in Consumers /\ hpc[t] = "release" /\ stockLock = u
    \/ t \in Consumers /\ hpc[t] = "select" /\ orderLock[PaysFor[job[t]]] = u

(* How far a transaction has come with its locks. *)
LockLevel(t) ==
    IF t \in Orders THEN IF pc[t] = "commit" THEN 2 ELSE 1
    ELSE CASE hpc[t] = "commit" -> 2 [] hpc[t] = "release" -> 1 [] OTHER -> 0

(* Whoever is waited for has come further than the one who waits: handlers *)
(* lock the order before the stock and nobody locks them the other way     *)
(* round, so no transactions wait for each other in a circle.              *)
WaitsGoUp ==
    \A t, u \in Orders \cup Consumers : WaitsFor(t, u) => LockLevel(t) < LockLevel(u)

(* How much place_order may still do: every lost race costs a retry. *)
Effort(o) ==
    CASE pc[o] = "read"   -> 5 * (MaxRetries - tries[o]) + 4
      [] pc[o] = "check"  -> 5 * (MaxRetries - tries[o]) + 3
      [] pc[o] = "update" -> 5 * (MaxRetries - tries[o]) + 2
      [] pc[o] = "commit" -> 5 * (MaxRetries - tries[o]) + 1
      [] OTHER            -> 0

(* A call never does a step without using up some of its effort, and what  *)
(* others do never costs it any.                                           *)
EffortIsSpent ==
    \A o \in Orders :
        /\ Effort(o) \in 0 .. 5 * MaxRetries + 4
        /\ pc'[o] # pc[o] => Effort(o)' < Effort(o)
        /\ pc'[o] = pc[o] => tries'[o] = tries[o]

(* An order is locked by a handler that has selected it and not ended. *)
OrderLocksHeld ==
    \A o \in Orders : orderLock[o] # None => hpc[orderLock[o]] \in {"release", "commit"}

(* Handlers give their order locks back when they end. *)
LEMMA OrderLocksStep == SagaInv /\ OrderLocksHeld /\ [Next]_vars => OrderLocksHeld'
  <1> SUFFICES ASSUME SagaInv, OrderLocksHeld, [Next]_vars
               PROVE  OrderLocksHeld'
    OBVIOUS
  <1> USE SagaConstants
  <1>1. /\ orderLock \in [Orders -> Consumers \cup {None}]
        /\ hpc \in [Consumers -> {"idle", "select", "release", "commit"}]
    BY DEF SagaInv, SagaTypeOK, SessionTypes
  <1>2. CASE UNCHANGED <<orderLock, hpc>>
    BY <1>2 DEF OrderLocksHeld
  <1>3. ASSUME NEW c \in Consumers, NEW p \in PaymentIds, Deliver(c, p)
        PROVE  OrderLocksHeld'
    BY <1>1, <1>3 DEF Deliver, OrderLocksHeld
  <1>4. ASSUME NEW c \in Consumers, SelectOrder(c)
        PROVE  OrderLocksHeld'
    BY <1>1, <1>4 DEF SelectOrder, OrderLocksHeld
  <1>5. ASSUME NEW c \in Consumers, ReleaseStock(c)
        PROVE  OrderLocksHeld'
    BY <1>1, <1>5 DEF ReleaseStock, OrderLocksHeld
  <1>6. ASSUME NEW c \in Consumers, EndHandler(c)
        PROVE  OrderLocksHeld'
    BY <1>1, <1>6 DEF EndHandler, OrderLocksHeld
  <1>7. ASSUME NEW c \in Consumers, OrderMissing(c) \/ CommitHandler(c) \/ AbortHandler(c)
        PROVE  OrderLocksHeld'
    BY <1>6, <1>7 DEF OrderMissing, CommitHandler, AbortHandler
  <1>8. ASSUME NEW o \in Orders, Place(o) \/ AbortOrder(o)
        PROVE  UNCHANGED <<orderLock, hpc>>
    BY <1>8 DEF Place, GetStock, CheckStock, UpdateStock, CommitOrder, AbortOrder, handling
  <1>9. ASSUME NEW p \in PaymentIds, NEW e \in {"captured", "failed"}, Announce(p, e)
        PROVE  UNCHANGED <<orderLock, hpc>>
    BY <1>9 DEF Announce
  <1>10. CASE UNCHANGED vars
    BY <1>2, <1>10 DEF vars, handling
  <1> QED
    BY <1>2, <1>3, <1>4, <1>5, <1>7, <1>8, <1>9, <1>10 DEF Next, Handle

(* A lock belongs to a transaction that has come further than its waiters. *)
LEMMA WaitsOrdered == SagaInv /\ OrderLocksHeld => WaitsGoUp
  <1> SUFFICES ASSUME SagaInv, OrderLocksHeld, NEW t \in Orders \cup Consumers,
                      NEW u \in Orders \cup Consumers, WaitsFor(t, u)
               PROVE  LockLevel(t) < LockLevel(u)
    BY DEF WaitsGoUp
  <1> USE SagaConstants
  <1>1. stockLock = u => LockLevel(u) = 2
    BY DEF SagaInv, SagaTypeOK, HandlerInv, LockLevel
  <1>2. CASE stockLock = u /\ ~(t \in Consumers /\ hpc[t] = "select")
    BY <1>1, <1>2 DEF WaitsFor, LockLevel
  <1>3. CASE t \in Consumers /\ hpc[t] = "select"
    <2>1. u \in Consumers /\ orderLock[PaysFor[job[t]]] = u /\ PaysFor[job[t]] \in Orders
      BY <1>3 DEF WaitsFor, SagaInv, SagaTypeOK, SessionTypes, HandlerInv
    <2>2. hpc[u] \in {"release", "commit"}
      BY <2>1 DEF OrderLocksHeld
    <2> QED
      BY <1>3, <2>1, <2>2 DEF LockLevel
  <1> QED
    BY <1>2, <1>3 DEF WaitsFor

(* Each step of a call uses up effort. *)
LEMMA EffortStep == SagaInv /\ [Next]_vars => EffortIsSpent
  <1> SUFFICES ASSUME SagaInv, [Next]_vars, NEW o \in Orders
               PROVE  /\ Effort(o) \in 0 .. 5 * MaxRetries + 4
                      /\ pc'[o] # pc[o] => Effort(o)' < Effort(o)
                      /\ pc'[o] = pc[o] => tries'[o] = tries[o]
    BY DEF EffortIsSpent
  <1> USE SagaConstants
  <1>1. /\ pc \in [Orders -> {"read", "check", "update", "commit", "placed", "refused"}]
        /\ tries \in [Orders -> Nat] /\ tries[o] \in 0 .. MaxRetries
        /\ pc[o] \in Open => tries[o] < MaxRetries
    BY DEF SagaInv, SagaTypeOK, SessionTypes, OrderInv
  <1>2. Effort(o) \in 0 .. 5 * MaxRetries + 4
    BY <1>1 DEF Effort
  <1>3. ASSUME NEW x \in Orders, pc' = [pc EXCEPT ![x] = pc'[x]],
               tries' = [tries EXCEPT ![x] = tries'[x]], x # o
        PROVE  pc'[o] = pc[o] /\ tries'[o] = tries[o]
    BY <1>1, <1>3
  <1>4. ASSUME Retry(o), pc[o] \in {"check", "update"}
        PROVE  pc'[o] # pc[o] /\ Effort(o)' < Effort(o)
    <2>1. /\ tries'[o] = tries[o] + 1 /\ pc'[o] \in {"read", "refused"}
      BY <1>1, <1>4 DEF Retry
    <2> QED
      BY <1>1, <1>4, <2>1 DEF Effort, Open
  <1>5. ASSUME UNCHANGED tries, \/ pc[o] = "read" /\ pc'[o] = "check"
                                \/ pc[o] = "check" /\ pc'[o] = "update"
                                \/ pc[o] = "update" /\ pc'[o] = "commit"
                                \/ pc[o] \in {"read", "check", "update", "commit"}
                                        /\ pc'[o] \in {"placed", "refused"}
        PROVE  pc'[o] # pc[o] /\ Effort(o)' < Effort(o)
    BY <1>1, <1>5 DEF Effort
  <1>6. CASE Place(o) \/ AbortOrder(o)
    <2>1. CASE GetStock(o)
      BY <1>1, <1>2, <1>5, <2>1 DEF GetStock
    <2>2. CASE CheckStock(o)
      BY <1>1, <1>2, <1>4, <1>5, <2>2 DEF CheckStock
    <2>3. CASE UpdateStock(o)
      BY <1>1, <1>2, <1>4, <1>5, <2>3 DEF UpdateStock
    <2>4. CASE CommitOrder(o) \/ AbortOrder(o)
      BY <1>1, <1>2, <1>5, <2>4 DEF CommitOrder, AbortOrder
    <2> QED
      BY <1>6, <2>1, <2>2, <2>3, <2>4 DEF Place
  <1>7. ASSUME NEW x \in Orders, x # o, Place(x) \/ AbortOrder(x)
        PROVE  pc'[o] = pc[o] /\ tries'[o] = tries[o]
    BY <1>1, <1>7 DEF Place, GetStock, CheckStock, UpdateStock, CommitOrder, AbortOrder, Retry
  <1>8. CASE UNCHANGED <<pc, tries>>
    BY <1>2, <1>8
  <1>9. ASSUME NEW p \in PaymentIds, NEW e \in {"captured", "failed"}, Announce(p, e)
        PROVE  UNCHANGED <<pc, tries>>
    BY <1>9 DEF Announce, placing
  <1>10. ASSUME NEW c \in Consumers,
                (\E p \in PaymentIds : Deliver(c, p)) \/ Handle(c) \/ AbortHandler(c)
         PROVE  UNCHANGED <<pc, tries>>
    BY <1>10 DEF Deliver, Handle, SelectOrder, OrderMissing, ReleaseStock, CommitHandler,
                 AbortHandler, EndHandler, placing
  <1>11. CASE UNCHANGED vars
    BY <1>8, <1>11 DEF vars, placing
  <1> QED
    BY <1>2, <1>6, <1>7, <1>8, <1>9, <1>10, <1>11 DEF Next

(* The saga keeps its invariant for any orders, payments and consumers. *)
THEOREM SagaInvariant == Spec => []SagaInv
  BY SagaInitially, SagaStep, PTL DEF Spec

(* Types; the stock never goes negative and a row lock belongs to an open  *)
(* transaction, for any quantities and any number of racing calls.         *)
THEOREM SagaTypeCorrect == Spec => []SagaTypeOK
  <1>1. SagaInv => SagaTypeOK
    BY DEF SagaInv
  <1> QED
    BY <1>1, SagaInvariant, PTL

(* An order is FAILED only with its stock given back, and stock goes back  *)
(* only after a failed payment.                                            *)
THEOREM CompensationAtomic == Spec => []CompensationIsAtomic
  <1>1. SagaInv => CompensationIsAtomic
    BY DEF SagaInv
  <1> QED
    BY <1>1, SagaInvariant, PTL

(* No unit of stock is lost or made up, for any number of orders and any   *)
(* quantities, however reservations and releases race.                     *)
THEOREM LedgerBalances == Spec => []StockLedger
  <1>1. LedgerInv => StockLedger
    BY DEF LedgerInv
  <1> QED
    BY <1>1, LedgerInitially, LedgerStep, SagaInvariant, PTL DEF Spec

(* The saga implements the serial one: whatever its transactions read,     *)
(* wait for and lose, the tables go through states that they could go      *)
(* through one transaction at a time.                                      *)
THEOREM SagaSerializable == Spec => SagaIsSerial
  <1>1. Init => Serial!Init
    BY DEF Init, Serial!Init, Outcomes!Init, Serial!Outcomes!Init
  <1>2. SagaInv /\ [Next]_vars => [Serial!Next]_(Serial!vars)
    BY SerialStep DEF SerialOrCounted, Serial!Next, Serial!vars
  <1> QED
    BY <1>1, <1>2, SagaInvariant, PTL DEF Spec, SagaIsSerial, Serial!Spec

(* No late, repeated or contradictory event changes a PAID or FAILED order.*)
THEOREM OutcomeFinal == Spec => OrderOutcomeIsFinal
  <1>1. SagaInv /\ [Next]_vars => [OutcomeKept]_vars
    BY OutcomeStep
  <1> QED
    BY <1>1, SagaInvariant, PTL DEF Spec, OrderOutcomeIsFinal, OutcomeKept

(* Transactions never wait for each other in a circle, for any number of   *)
(* orders, payments and consumers: with EffortBounded, TransactionsEnd but *)
(* for the fairness of the scheduler.                                      *)
THEOREM NoCircularWait == Spec => []WaitsGoUp
  <1>1. Init => OrderLocksHeld
    BY DEF Init, OrderLocksHeld
  <1> QED
    BY <1>1, OrderLocksStep, WaitsOrdered, SagaInvariant, PTL DEF Spec

(* place_order cannot retry for ever: every step of a call lowers a number *)
(* that MaxRetries bounds and that no other transaction raises.            *)
THEOREM EffortBounded == Spec => [][EffortIsSpent]_vars
  <1>1. SagaInv /\ [Next]_vars => [EffortIsSpent]_vars
    BY EffortStep
  <1> QED
    BY <1>1, SagaInvariant, PTL DEF Spec
=============================================================================
