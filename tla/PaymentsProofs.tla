--------------------------- MODULE PaymentsProofs ---------------------------
(***************************************************************************)
(* Proofs about Payments for any sets of requests, payments and keys.      *)
(***************************************************************************)
EXTENDS Payments, TLAPS

(* A request that will commit a transition holds the row it validated it   *)
(* on, and the transition is still allowed there: the inner guard of       *)
(* process_payment, which outlives the Redis lock.                         *)
HoldsRow(w) ==
    pc[w] \in {"exitOk", "commit"} =>
        /\ rowLock[req[w].payment] = w
        /\ req[w].to \in AllowedTransitions(status[req[w].payment])

(* Until its TTL lapses, the key of a request inside the lock is its own.  *)
HoldsKey(w) == Inside(w) /\ ~lapsed[w] => lock[req[w].key] = w

(* What was announced decides which statuses are still possible. *)
OutcomeInv(p) ==
    \A i \in 1 .. Len(outbox[p]) :
        /\ outbox[p][i] = "captured" =>
                status[p] \in {"captured", "settled", "refunded"}
        /\ outbox[p][i] \in {"failed", "declined"} => status[p] = outbox[p][i]

(* The inductive invariant. *)
PaymentsInv ==
    /\ PaymentsTypeOK
    /\ \A w \in Requests : HoldsRow(w) /\ HoldsKey(w)
    /\ \A p \in PaymentIds : OutcomeInv(p)
    /\ EventsTellTheStatus

-----------------------------------------------------------------------------
(* _ALLOWED_TRANSITIONS leads to statuses only, and never out of a missing row. *)
LEMMA AllowedFacts ==
    /\ \A s : AllowedTransitions(s) \subseteq Statuses
    /\ AllowedTransitions("absent") = {}
    /\ \A s : "captured" \in AllowedTransitions(s) => s = "authorized"
    /\ \A s : "failed" \in AllowedTransitions(s) => s = "pending"
    /\ \A s : "declined" \in AllowedTransitions(s) => s \in {"pending", "authorized"}
    /\ \A s, t : s \in {"captured", "settled", "refunded"} /\ t \in AllowedTransitions(s)
            => t \in {"settled", "refunded"}
    /\ \A s \in {"failed", "declined"} : AllowedTransitions(s) = {}
  BY DEF AllowedTransitions, Statuses

(* PaymentsInv holds before any request. *)
LEMMA InitInv == Init => PaymentsInv
  <1> SUFFICES ASSUME Init PROVE PaymentsInv
    OBVIOUS
  <1>1. PaymentsTypeOK
    BY DEF Init, PaymentsTypeOK, Statuses, Control
  <1>2. ASSUME NEW w \in Requests PROVE HoldsRow(w) /\ HoldsKey(w)
    BY DEF Init, HoldsRow, HoldsKey, Inside
  <1>3. ASSUME NEW p \in PaymentIds
        PROVE  outbox[p] = << >> /\ status[p] \in {"pending", "absent"}
    BY DEF Init
  <1>4. ASSUME NEW p \in PaymentIds PROVE OutcomeInv(p)
    BY <1>3 DEF OutcomeInv
  <1>5. EventsTellTheStatus
    BY <1>3 DEF EventsTellTheStatus, Announced
  <1> QED BY <1>1, <1>2, <1>4, <1>5 DEF PaymentsInv

(* A step that leaves status and outbox alone keeps what they say. *)
LEMMA StableEvents ==
    ASSUME PaymentsInv, UNCHANGED <<status, outbox>>
    PROVE  EventsTellTheStatus' /\ \A p \in PaymentIds : OutcomeInv(p)'
  BY DEF PaymentsInv, EventsTellTheStatus, OutcomeInv, Announced

(* The end of a call, whatever else it did. *)
LEMMA EndCallStep ==
    ASSUME PaymentsInv, NEW w \in Requests, EndCall(w),
           rowLock' = UnlockedRows(w), lock' = lock,
           status' \in [PaymentIds -> Statuses \cup {"absent"}],
           outbox' \in [PaymentIds -> Seq(Statuses)],
           \A p \in PaymentIds : rowLock[p] # w => status'[p] = status[p]
    PROVE  PaymentsTypeOK' /\ \A v \in Requests : HoldsRow(v)' /\ HoldsKey(v)'
  <1> USE PaymentConstants DEF PaymentsInv
  <1>1. PaymentsTypeOK'
    <2>1. /\ rowLock' \in [PaymentIds -> Requests \cup {None}]
          /\ pc' \in [Requests -> Control]
          /\ req' \in [Requests -> Request \cup {None}]
          /\ lapsed' \in [Requests -> BOOLEAN]
      BY DEF PaymentsTypeOK, EndCall, UnlockedRows, Control
    <2>2. ASSUME NEW v \in Requests PROVE pc'[v] # "idle" => req'[v] \in Request
      BY DEF PaymentsTypeOK, EndCall
    <2>3. ASSUME NEW p \in PaymentIds, rowLock'[p] # None
          PROVE  /\ pc'[rowLock'[p]] \notin {"idle", "select"}
                 /\ req'[rowLock'[p]].payment = p
      BY <2>3 DEF PaymentsTypeOK, EndCall, UnlockedRows
    <2> QED BY <2>1, <2>2, <2>3 DEF PaymentsTypeOK
  <1>2. ASSUME NEW v \in Requests PROVE HoldsRow(v)'
    <2>1. CASE v = w
      BY <2>1 DEF HoldsRow, PaymentsTypeOK, EndCall
    <2>2. CASE v # w
      <3>1. pc'[v] = pc[v] /\ req'[v] = req[v]
        BY <2>2 DEF PaymentsTypeOK, EndCall
      <3>2. SUFFICES ASSUME pc[v] \in {"exitOk", "commit"}
                     PROVE  /\ rowLock'[req[v].payment] = v
                            /\ req[v].to \in AllowedTransitions(status'[req[v].payment])
        BY <3>1 DEF HoldsRow
      <3>3. req[v].payment \in PaymentIds
        BY <3>2 DEF PaymentsTypeOK, Request
      <3> QED BY <2>2, <3>2, <3>3 DEF HoldsRow, UnlockedRows
    <2> QED BY <2>1, <2>2
  <1>3. ASSUME NEW v \in Requests PROVE HoldsKey(v)'
    BY DEF HoldsKey, Inside, PaymentsTypeOK, EndCall
  <1> QED BY <1>1, <1>2, <1>3

(* Leaving idempotency_lock, with the key deleted or not. *)
LEMMA ExitStep ==
    ASSUME PaymentsInv, NEW w \in Requests,
           NEW n \in {"commit", "rollback"}, Exit(w, n),
           \/ pc[w] = "exitOk"
           \/ pc[w] = "exitErr" /\ n = "rollback",
           lock' = lock \/ lock' = Released(w)
    PROVE  PaymentsInv'
  <1> USE PaymentConstants DEF PaymentsInv
  <1>0. req[w].key \in Keys
    BY DEF PaymentsTypeOK, Request
  <1>1. PaymentsTypeOK'
    <2>1. /\ lock' \in [Keys -> Requests \cup {None}]
          /\ pc' \in [Requests -> Control]
      BY <1>0 DEF PaymentsTypeOK, Exit, Released, Control
    <2> QED BY <2>1 DEF PaymentsTypeOK, Exit, db
  <1>2. ASSUME NEW v \in Requests PROVE HoldsRow(v)'
    BY DEF HoldsRow, PaymentsTypeOK, Exit, db
  <1>3. ASSUME NEW v \in Requests, Inside(v)', ~lapsed'[v] PROVE lock'[req'[v].key] = v
    <2>1. v # w /\ pc'[v] = pc[v] /\ req' = req /\ lapsed' = lapsed
      BY <1>3 DEF Inside, PaymentsTypeOK, Exit
    <2>2. Inside(v) /\ ~lapsed[v]
      BY <1>3, <2>1 DEF Inside
    <2>3. lock[req[v].key] = v /\ req[v].key \in Keys
      BY <2>2 DEF HoldsKey, Inside, PaymentsTypeOK, Request
    <2> QED BY <1>0, <2>1, <2>3 DEF Released, PaymentsTypeOK
  <1> QED BY <1>1, <1>2, <1>3, StableEvents DEF Exit, db, HoldsKey

(* Taking or losing the SET NX race keeps PaymentsInv. *)
LEMMA AcquireStep ==
    ASSUME PaymentsInv, NEW w \in Requests, NEW r \in Request, Acquire(w, r)
    PROVE  PaymentsInv'
  <1> USE PaymentConstants DEF PaymentsInv
  <1>0. r.key \in Keys
    BY DEF Request
  <1>1. PaymentsTypeOK'
    BY <1>0 DEF PaymentsTypeOK, Acquire, Control, db
  <1>2. ASSUME NEW v \in Requests PROVE HoldsRow(v)'
    BY DEF HoldsRow, PaymentsTypeOK, Acquire, db
  <1>3. ASSUME NEW v \in Requests PROVE HoldsKey(v)'
    BY <1>0 DEF HoldsKey, Inside, KeyFree, PaymentsTypeOK, Acquire
  <1> QED BY <1>1, <1>2, <1>3, StableEvents DEF Acquire, db

(* An acquire whose reply is lost leaves an orphaned key and keeps PaymentsInv. *)
LEMMA LostReplyStep ==
    ASSUME PaymentsInv, NEW w \in Requests, NEW k \in Keys, AcquireReplyLost(w, k)
    PROVE  PaymentsInv'
  <1> USE PaymentConstants DEF PaymentsInv
  <1>1. PaymentsTypeOK'
    BY DEF PaymentsTypeOK, AcquireReplyLost, db
  <1>2. ASSUME NEW v \in Requests PROVE HoldsRow(v)' /\ HoldsKey(v)'
    BY DEF HoldsRow, HoldsKey, Inside, KeyFree, PaymentsTypeOK, AcquireReplyLost, db
  <1> QED BY <1>1, <1>2, StableEvents DEF AcquireReplyLost, db

(* A key's TTL may lapse under its holder and PaymentsInv still holds. *)
LEMMA ExpireStep ==
    ASSUME PaymentsInv, NEW k \in Keys, Expire(k)
    PROVE  PaymentsInv'
  <1> USE PaymentConstants DEF PaymentsInv
  <1>0. lock[k] \in Requests
    BY DEF PaymentsTypeOK, Expire
  <1>1. PaymentsTypeOK'
    <2>1. lapsed' \in [Requests -> BOOLEAN]
      BY <1>0 DEF PaymentsTypeOK, Expire, Inside
    <2> QED BY <2>1 DEF PaymentsTypeOK, Expire, db
  <1>2. ASSUME NEW v \in Requests PROVE HoldsRow(v)'
    BY DEF HoldsRow, Expire, db
  <1>3. ASSUME NEW v \in Requests, Inside(v)', ~lapsed'[v] PROVE lock'[req'[v].key] = v
    <2>1. Inside(v) /\ req' = req
      BY <1>3 DEF Inside, Expire
    <2>2. CASE v = lock[k]
      BY <1>0, <1>3, <2>1, <2>2 DEF Expire, PaymentsTypeOK, HoldsKey, Inside, Request
    <2>3. CASE v # lock[k]
      <3>1. ~lapsed[v]
        BY <1>0, <1>3, <2>3 DEF Expire, PaymentsTypeOK
      <3>2. lock[req[v].key] = v /\ req[v].key \in Keys
        BY <2>1, <3>1 DEF HoldsKey, Inside, PaymentsTypeOK, Request
      <3> QED BY <2>1, <2>3, <3>2 DEF Expire, PaymentsTypeOK
    <2> QED BY <2>2, <2>3
  <1> QED BY <1>1, <1>2, <1>3, StableEvents DEF Expire, db, HoldsKey

(* SELECT FOR UPDATE, or its failure, keeps PaymentsInv. *)
LEMMA SelectStep ==
    ASSUME PaymentsInv, NEW w \in Requests, Select(w) \/ SelectFails(w)
    PROVE  PaymentsInv'
  <1> USE PaymentConstants DEF PaymentsInv
  <1>0. /\ req[w] \in Request /\ req[w].payment \in PaymentIds
        /\ pc[w] = "select"
    BY DEF PaymentsTypeOK, Request, Select, SelectFails
  <1>1. CASE SelectFails(w)
    <2>1. PaymentsTypeOK'
      BY <1>1 DEF PaymentsTypeOK, SelectFails, Control, db
    <2>2. ASSUME NEW v \in Requests PROVE HoldsRow(v)' /\ HoldsKey(v)'
      BY <1>1 DEF HoldsRow, HoldsKey, Inside, PaymentsTypeOK, SelectFails, db
    <2> QED BY <1>1, <2>1, <2>2, StableEvents DEF SelectFails, db
  <1>2. CASE Select(w)
    <2>1. PaymentsTypeOK'
      <3>1. /\ rowLock' \in [PaymentIds -> Requests \cup {None}]
            /\ pc' \in [Requests -> Control]
        BY <1>0, <1>2 DEF PaymentsTypeOK, Select, Control
      <3>2. ASSUME NEW v \in Requests PROVE pc'[v] # "idle" => req'[v] \in Request
        BY <1>0, <1>2 DEF PaymentsTypeOK, Select
      <3>3. ASSUME NEW p \in PaymentIds, rowLock'[p] # None
            PROVE  /\ pc'[rowLock'[p]] \notin {"idle", "select"}
                   /\ req'[rowLock'[p]].payment = p
        BY <1>0, <1>2, <3>3 DEF PaymentsTypeOK, Select
      <3> QED BY <1>2, <3>1, <3>2, <3>3 DEF PaymentsTypeOK, Select
    <2>2. ASSUME NEW v \in Requests PROVE HoldsRow(v)'
      <3>1. CASE v = w
        BY <1>0, <1>2, <3>1, AllowedFacts DEF HoldsRow, PaymentsTypeOK, Select
      <3>2. CASE v # w
        BY <1>0, <1>2, <3>2 DEF HoldsRow, RowFree, PaymentsTypeOK, Select
      <3> QED BY <3>1, <3>2
    <2>3. ASSUME NEW v \in Requests PROVE HoldsKey(v)'
      BY <1>0, <1>2 DEF HoldsKey, Inside, PaymentsTypeOK, Select
    <2> QED BY <1>2, <2>1, <2>2, <2>3, StableEvents DEF Select
  <1> QED BY <1>1, <1>2

(* The commit that publishes a new status and its event keeps PaymentsInv. *)
LEMMA CommitStep ==
    ASSUME PaymentsInv, NEW w \in Requests, Commit(w)
    PROVE  PaymentsInv'
  <1> USE DEF PaymentsInv
  <1>a. req[w] \in Request
    BY DEF PaymentsTypeOK, Commit
  <1>b. PICK p \in PaymentIds, to \in Statuses : p = req[w].payment /\ to = req[w].to
    BY <1>a DEF Request
  <1>c. PICK n \in Nat : n = Len(outbox[p])
    BY DEF PaymentsTypeOK
  <1>0. /\ rowLock[p] = w /\ to \in AllowedTransitions(status[p])
        /\ outbox[p] \in Seq(Statuses) /\ n = Len(outbox[p])
        /\ status[p] # "absent"
    BY <1>b, <1>c, AllowedFacts DEF PaymentsTypeOK, Commit, HoldsRow
  <1>1. /\ status' = [status EXCEPT ![p] = to]
        /\ outbox' = [outbox EXCEPT ![p] = Append(outbox[p], to)]
        /\ rowLock' = UnlockedRows(w) /\ lock' = lock /\ EndCall(w)
    BY <1>b DEF Commit
  <1>2. /\ status' \in [PaymentIds -> Statuses \cup {"absent"}]
        /\ outbox' \in [PaymentIds -> Seq(Statuses)]
        /\ \A q \in PaymentIds : q # p => status'[q] = status[q] /\ outbox'[q] = outbox[q]
        /\ status'[p] = to /\ outbox'[p] = Append(outbox[p], to)
    BY <1>0, <1>1 DEF PaymentsTypeOK
  <1>3. PaymentsTypeOK' /\ \A v \in Requests : HoldsRow(v)' /\ HoldsKey(v)'
    BY <1>0, <1>1, <1>2, EndCallStep
  <1>4. /\ Len(outbox'[p]) = n + 1 /\ outbox'[p][n + 1] = to
        /\ \A i \in 1 .. n : outbox'[p][i] = outbox[p][i]
    BY <1>0, <1>2
  <1>5. ASSUME NEW q \in PaymentIds PROVE OutcomeInv(q)'
    <2>1. CASE q # p
      BY <1>2, <2>1 DEF OutcomeInv
    <2>2. CASE q = p
      <3> SUFFICES ASSUME NEW i \in 1 .. Len(outbox'[p])
                   PROVE  /\ outbox'[p][i] = "captured" =>
                                to \in {"captured", "settled", "refunded"}
                          /\ outbox'[p][i] \in {"failed", "declined"} => to = outbox'[p][i]
        BY <1>2, <2>2 DEF OutcomeInv
      <3>1. CASE i = n + 1
        BY <1>4, <3>1
      <3>2. CASE i \in 1 .. n
        BY <1>0, <1>4, <3>2, AllowedFacts DEF OutcomeInv
      <3> QED BY <1>0, <1>4, <3>1, <3>2
    <2> QED BY <2>1, <2>2
  <1>6. EventsTellTheStatus'
    <2> SUFFICES ASSUME NEW q \in PaymentIds
                 PROVE  IF status'[q] = "absent" THEN outbox'[q] = << >>
                        ELSE /\ status'[q] = Announced(q, Len(outbox[q]))'
                             /\ \A i \in 1 .. Len(outbox'[q]) :
                                  Announced(q, i)' \in AllowedTransitions(Announced(q, i - 1)')
      BY DEF EventsTellTheStatus
    <2>1. CASE q # p
      BY <1>2, <2>1 DEF EventsTellTheStatus, Announced
    <2>2. CASE q = p
      <3>1. Announced(p, n + 1)' = to
        BY <1>0, <1>4 DEF Announced
      <3>2. \A i \in 0 .. n : Announced(p, i)' = Announced(p, i)
        BY <1>0, <1>4 DEF Announced
      <3>3. status[p] = Announced(p, n)
        BY <1>0 DEF EventsTellTheStatus
      <3>4. to # "absent"
        BY <1>0 DEF Statuses
      <3>5. ASSUME NEW i \in 1 .. n + 1
            PROVE  Announced(p, i)' \in AllowedTransitions(Announced(p, i - 1)')
        <4>1. CASE i = n + 1
          BY <1>0, <3>1, <3>2, <3>3, <4>1
        <4>2. CASE i \in 1 .. n
          <5>1. i \in 0 .. n /\ i - 1 \in 0 .. n
            BY <1>0, <4>2
          <5> QED BY <1>0, <3>2, <4>2, <5>1 DEF EventsTellTheStatus
        <4> QED BY <1>0, <4>1, <4>2
      <3> QED BY <1>0, <1>2, <1>4, <2>2, <3>1, <3>4, <3>5
    <2> QED BY <2>1, <2>2
  <1> QED BY <1>3, <1>5, <1>6

(* Every step of every request keeps PaymentsInv. *)
LEMMA NextInv == PaymentsInv /\ [Next]_vars => PaymentsInv'
  <1> SUFFICES ASSUME PaymentsInv, [Next]_vars PROVE PaymentsInv'
    OBVIOUS
  <1>1. ASSUME NEW w \in Requests, Release(w) \/ ReleaseUnavailable(w) \/ ReleaseRaises(w)
        PROVE  PaymentsInv'
    BY <1>1, ExitStep DEF Release, ReleaseUnavailable, ReleaseRaises
  <1>2. ASSUME NEW w \in Requests, Rollback(w) \/ Crash(w) PROVE PaymentsInv'
    <2>1. /\ EndCall(w) /\ rowLock' = UnlockedRows(w)
          /\ status' = status /\ outbox' = outbox /\ lock' = lock
      BY <1>2 DEF Rollback, Crash
    <2>2. /\ status \in [PaymentIds -> Statuses \cup {"absent"}]
          /\ outbox \in [PaymentIds -> Seq(Statuses)]
      BY DEF PaymentsInv, PaymentsTypeOK
    <2>3. PaymentsTypeOK' /\ \A v \in Requests : HoldsRow(v)' /\ HoldsKey(v)'
      BY <2>1, <2>2, EndCallStep
    <2> QED BY <2>1, <2>3, StableEvents DEF PaymentsInv
  <1>3. CASE UNCHANGED vars
    <2>1. PaymentsTypeOK'
      BY <1>3 DEF PaymentsInv, PaymentsTypeOK, vars, db
    <2>2. ASSUME NEW v \in Requests PROVE HoldsRow(v)' /\ HoldsKey(v)'
      BY <1>3 DEF PaymentsInv, HoldsRow, HoldsKey, Inside, vars, db
    <2> QED BY <1>3, <2>1, <2>2, StableEvents DEF PaymentsInv, vars, db
  <1> QED BY <1>1, <1>2, <1>3, AcquireStep, LostReplyStep, ExpireStep, SelectStep,
             CommitStep DEF Next, Step

-----------------------------------------------------------------------------
(* PaymentsInv holds in every reachable state. *)
THEOREM PaymentsInvariant == Spec => []PaymentsInv
  <1>1. Init => PaymentsInv
    BY InitInv
  <1>2. PaymentsInv /\ [Next]_vars => PaymentsInv'
    BY NextInv
  <1> QED BY <1>1, <1>2, PTL DEF Spec

(* Types, and rows locked only by requests at work on them. *)
THEOREM PaymentsTypeCorrect == Spec => []PaymentsTypeOK
  <1>1. PaymentsInv => PaymentsTypeOK
    BY DEF PaymentsInv
  <1> QED BY <1>1, PaymentsInvariant, PTL

(* The outbox announces exactly the path each payment took. *)
THEOREM EventsFaithful == Spec => []EventsTellTheStatus
  <1>1. PaymentsInv => EventsTellTheStatus
    BY DEF PaymentsInv
  <1> QED BY <1>1, PaymentsInvariant, PTL

(* What was said of a payment is a single outcome, which its status is, or *)
(* has passed; a payment on its way has said none.                         *)
LEMMA SaidFacts ==
    ASSUME PaymentsInv, NEW p \in PaymentIds
    PROVE  /\ Said(p) = {} \/ \E e \in {"captured", "failed", "declined"} : Said(p) = {e}
           /\ status[p] \in {"pending", "authorized"} => Said(p) = {}
  <1>1. /\ "captured" \in Said(p) => status[p] \in {"captured", "settled", "refunded"}
        /\ "failed" \in Said(p) => status[p] = "failed"
        /\ "declined" \in Said(p) => status[p] = "declined"
    BY DEF Said, PaymentsInv, OutcomeInv
  <1>2. Said(p) \subseteq {"captured", "failed", "declined"}
    BY DEF Said
  <1> QED BY <1>1, <1>2

(* A commit announces the outcome it reaches, and no other status is one. *)
LEMMA CommitAnnounces ==
    ASSUME PaymentsInv, NEW w \in Requests, Commit(w)
    PROVE  Heard!Next \/ UNCHANGED OutcomeSaid
  <1> USE DEF PaymentsInv
  <1>a. req[w] \in Request
    BY DEF PaymentsTypeOK, Commit
  <1>b. PICK p \in PaymentIds, to \in Statuses : p = req[w].payment /\ to = req[w].to
    BY <1>a DEF Request
  <1>0. to \in AllowedTransitions(status[p]) /\ outbox[p] \in Seq(Statuses)
    BY <1>b DEF PaymentsTypeOK, Commit, HoldsRow
  <1>1. /\ \A q \in PaymentIds \ {p} : outbox'[q] = outbox[q]
        /\ outbox'[p] = Append(outbox[p], to)
    BY <1>b DEF Commit, PaymentsTypeOK
  <1>2. \A q \in PaymentIds \ {p} : Said(q)' = Said(q)
    BY <1>1 DEF Said
  <1>3. Said(p)' = Said(p) \cup ({to} \cap Heard!Outcome)
    <2>1. PICK n \in Nat : n = Len(outbox[p])
      BY <1>0
    <2>2. /\ Len(outbox'[p]) = n + 1 /\ outbox'[p][n + 1] = to
          /\ \A i \in 1 .. n : outbox'[p][i] = outbox[p][i]
      BY <1>0, <1>1, <2>1
    <2>3. 1 .. n + 1 = (1 .. n) \cup {n + 1}
      OBVIOUS
    <2> QED BY <2>1, <2>2, <2>3 DEF Said, Heard!Outcome
  <1>4. CASE to \notin Heard!Outcome
    <2>1. \A q \in PaymentIds : Said(q)' = Said(q)
      BY <1>2, <1>3, <1>4
    <2> QED BY <2>1 DEF OutcomeSaid
  <1>5. CASE to \in Heard!Outcome
    <2>1. status[p] \in {"pending", "authorized"}
      BY <1>0, <1>5, AllowedFacts DEF Heard!Outcome
    <2>2. Said(p) = {} /\ Said(p)' = {to}
      BY <1>3, <1>5, <2>1, SaidFacts
    <2>3. OutcomeSaid[p] = "none" /\ OutcomeSaid'[p] = to
      BY <1>5, <2>2 DEF OutcomeSaid, Heard!Outcome
    <2>4. \A q \in PaymentIds \ {p} : OutcomeSaid'[q] = OutcomeSaid[q]
      BY <1>2 DEF OutcomeSaid
    <2>5. /\ OutcomeSaid = [q \in PaymentIds |-> OutcomeSaid[q]]
          /\ OutcomeSaid' = [q \in PaymentIds |-> OutcomeSaid'[q]]
      BY DEF OutcomeSaid
    <2> HIDE DEF OutcomeSaid
    <2>6. OutcomeSaid' = [OutcomeSaid EXCEPT ![p] = to]
      BY <2>3, <2>4, <2>5
    <2> QED BY <1>5, <2>3, <2>6 DEF Heard!Next, Heard!Announce
  <1> QED BY <1>4, <1>5

(* Nothing else writes to the outbox. *)
LEMMA OutcomeStep == PaymentsInv /\ [Next]_vars => [Heard!Next]_OutcomeSaid
  <1> SUFFICES ASSUME PaymentsInv, [Next]_vars
               PROVE  Heard!Next \/ UNCHANGED OutcomeSaid
    OBVIOUS
  <1>1. ASSUME UNCHANGED outbox PROVE UNCHANGED OutcomeSaid
    BY <1>1 DEF OutcomeSaid, Said
  <1>2. (\E w \in Requests : Commit(w)) \/ UNCHANGED outbox
    BY DEF Next, Step, Acquire, AcquireReplyLost, Expire, Select, SelectFails, Release,
       ReleaseUnavailable, ReleaseRaises, Exit, Rollback, Crash, vars, db
  <1> QED BY <1>1, <1>2, CommitAnnounces

(* Payments implements the interface the order saga is built on: it        *)
(* announces one outcome per payment at most and never takes it back, for  *)
(* any number of requests, keys and payments.                              *)
THEOREM OutcomesAnnounced == Spec => OneOutcome
  <1>1. Init => Heard!Init
    <2> SUFFICES ASSUME Init PROVE OutcomeSaid = [p \in PaymentIds |-> "none"]
      BY DEF Heard!Init
    <2>1. \A p \in PaymentIds : Said(p) = {}
      BY DEF Init, Said
    <2> QED BY <2>1 DEF OutcomeSaid
  <1> QED BY <1>1, OutcomeStep, PaymentsInvariant, PTL DEF Spec, OneOutcome, Heard!Spec

(* The Redis lock excludes two calls with one key unless its TTL lapses. *)
THEOREM KeysExclude == Spec => []KeyExclusion
  <1>1. PaymentsInv => KeyExclusion
    BY DEF PaymentsInv, KeyExclusion, HoldsKey
  <1> QED BY <1>1, PaymentsInvariant, PTL

(* Nobody but its holder or the TTL removes a key. *)
THEOREM KeysNotStolen == Spec => LockNotStolen
  <1> DEFINE Fair == \A k \in Keys :
                lock[k] # None /\ lock'[k] # lock[k] =>
                    /\ lock'[k] = None
                    /\ \/ pc[lock[k]] \in {"exitOk", "exitErr"} /\ req[lock[k]].key = k
                       \/ Expire(k)
  <1>1. PaymentsInv /\ [Next]_vars => [Fair]_vars
    <2> SUFFICES ASSUME PaymentsInv, Next, NEW k \in Keys,
                        lock[k] # None, lock'[k] # lock[k]
                 PROVE  /\ lock'[k] = None
                        /\ \/ pc[lock[k]] \in {"exitOk", "exitErr"} /\ req[lock[k]].key = k
                           \/ Expire(k)
      OBVIOUS
    <2> USE DEF PaymentsInv
    <2>1. CASE \E j \in Keys : Expire(j)
      BY <2>1 DEF Expire, PaymentsTypeOK
    <2>2. ASSUME NEW w \in Requests, NEW r \in Request, Acquire(w, r) PROVE FALSE
      BY <2>2 DEF Acquire, KeyFree, PaymentsTypeOK, Request
    <2>3. ASSUME NEW w \in Requests, NEW j \in Keys, AcquireReplyLost(w, j) PROVE FALSE
      BY <2>3 DEF AcquireReplyLost, KeyFree, PaymentsTypeOK
    <2>4. ASSUME NEW w \in Requests, Step(w) \/ Crash(w)
          PROVE  /\ lock'[k] = None
                 /\ pc[lock[k]] \in {"exitOk", "exitErr"} /\ req[lock[k]].key = k
      <3>1. lock' = Released(w) /\ pc[w] \in {"exitOk", "exitErr"}
        BY <2>4 DEF Step, Crash, Select, SelectFails, Release, ReleaseUnavailable,
                    ReleaseRaises, Commit, Rollback
      <3> QED BY <3>1 DEF Released, PaymentsTypeOK, Request
    <2> QED BY <2>1, <2>2, <2>3, <2>4 DEF Next
  <1> QED BY <1>1, PaymentsInvariant, PTL DEF Spec, LockNotStolen
=============================================================================
