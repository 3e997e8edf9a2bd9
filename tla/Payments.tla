------------------------------ MODULE Payments ------------------------------
(***************************************************************************)
(* process_payment (src/modules/payments/services.py): concurrent requests *)
(* move payments through their status machine.  Each request takes a Redis *)
(* lock on its Idempotency-Key (SET NX EX), locks the payment row (SELECT  *)
(* FOR UPDATE), validates the transition, and leaves the new status and    *)
(* the outbox event in the caller's open transaction.  The Redis lock is   *)
(* released before process_payment returns; the caller then commits.       *)
(*                                                                         *)
(* The lock token is a fresh UUID per acquisition.  A request runs one     *)
(* call at a time and a key it left locked must lapse before anyone, it    *)
(* included, can lock it again, so the request's name stands for the token.*)
(***************************************************************************)
EXTENDS Naturals, Sequences

CONSTANTS
    Requests,   \* concurrent callers of process_payment
    PaymentIds, \* payment ids, of existing rows or not
    Keys,       \* idempotency keys
    None        \* no holder

ASSUME PaymentConstants == None \notin Requests

Statuses == {"pending", "authorized", "captured", "settled", "refunded",
             "declined", "failed"}

AllowedTransitionsReopen(from) ==
    CASE from = "pending"    -> {"authorized", "failed", "declined"}
      [] from = "authorized" -> {"captured", "declined"}
      [] from = "captured"   -> {"settled", "refunded"}
      [] from = "failed"     -> {"pending"}
      [] OTHER               -> {}
AllowedTransitions(from) ==
    CASE from = "pending"    -> {"authorized", "failed", "declined"}
      [] from = "authorized" -> {"captured", "declined"}
      [] from = "captured"   -> {"settled", "refunded"}
      [] OTHER               -> {}

VARIABLES
    status,    \* committed Payment.status, "absent" when there is no row
    outbox,    \* per payment: the statuses announced by committed outbox rows
    rowLock,   \* per payment: the request whose transaction locks the row
    lock,      \* per key: the request whose token Redis stores, or None
    pc,        \* per request: where it is in process_payment or its caller
    req,       \* per request: its ProcessPaymentRequest, None between calls
    lapsed     \* history: the TTL removed the lock under the request's feet

db   == <<status, outbox, rowLock>>
vars == <<db, lock, pc, req, lapsed>>

(* "select": inside idempotency_lock, before the row is read;             *)
(* "exitOk", "exitErr": leaving idempotency_lock by return or by raise;   *)
(* "commit", "rollback": back in the caller, which ends the transaction.  *)
Control == {"idle", "select", "exitOk", "exitErr", "commit", "rollback"}

Inside(w) == pc[w] \in {"select", "exitOk", "exitErr"}

Request == [payment : PaymentIds, key : Keys, to : Statuses]

-----------------------------------------------------------------------------
(* acquire_idempotency_lock.  A busy key, an open breaker or a Redis error *)
(* end the call with nothing changed.                                      *)
KeyFreeUnchecked(k) == TRUE
KeyFree(k) == lock[k] = None

Acquire(w, r) ==
    /\ pc[w] = "idle" /\ KeyFree(r.key)
    /\ lock' = [lock EXCEPT ![r.key] = w]
    /\ req' = [req EXCEPT ![w] = r]
    /\ pc' = [pc EXCEPT ![w] = "select"]
    /\ UNCHANGED <<db, lapsed>>

(* The SET was applied but its reply was lost: the client's own retry of   *)
(* SET NX finds the key taken, and the call fails. The key stays locked.   *)
AcquireReplyLost(w, k) ==
    /\ pc[w] = "idle" /\ KeyFree(k)
    /\ lock' = [lock EXCEPT ![k] = w]
    /\ UNCHANGED <<db, pc, req, lapsed>>

(* Redis expires the key (EX ttl). *)
Expire(k) ==
    /\ lock[k] # None
    /\ lock' = [lock EXCEPT ![k] = None]
    /\ lapsed' = [lapsed EXCEPT ![lock[k]] =
                    @ \/ (Inside(lock[k]) /\ req[lock[k]].key = k)]
    /\ UNCHANGED <<db, pc, req>>

-----------------------------------------------------------------------------
(* SELECT ... FOR UPDATE waits for the row, then the transition is checked. *)
(* A refused transition, like a missing row, raises.                        *)
RowFreeUnlocked(p) == TRUE
RowFree(p) == rowLock[p] = None

Select(w) ==
    LET p == req[w].payment IN
    /\ pc[w] = "select" /\ RowFree(p)
    /\ rowLock' = [rowLock EXCEPT ![p] = IF status[p] = "absent" THEN None ELSE w]
    /\ pc' = [pc EXCEPT ![w] = IF req[w].to \in AllowedTransitions(status[p])
                                 THEN "exitOk" ELSE "exitErr"]
    /\ UNCHANGED <<status, outbox, lock, req, lapsed>>

(* The database fails or times out waiting for the row. *)
SelectFails(w) ==
    /\ pc[w] = "select"
    /\ pc' = [pc EXCEPT ![w] = "exitErr"]
    /\ UNCHANGED <<db, lock, req, lapsed>>

(* The finally of idempotency_lock: the script deletes the key only if it  *)
(* still holds this request's token.                                       *)
ReleasedBlindly(w) == [lock EXCEPT ![req[w].key] = None]
Released(w) == [lock EXCEPT ![req[w].key] = IF @ = w THEN None ELSE @]

Exit(w, next) ==
    /\ pc' = [pc EXCEPT ![w] = next]
    /\ UNCHANGED <<db, req, lapsed>>

Release(w) ==
    \/ pc[w] = "exitOk" /\ lock' = Released(w) /\ Exit(w, "commit")
    \/ pc[w] = "exitErr" /\ lock' = Released(w) /\ Exit(w, "rollback")

(* The breaker is open: logged, the key is left to its TTL. *)
ReleaseUnavailable(w) ==
    \/ pc[w] = "exitOk" /\ lock' = lock /\ Exit(w, "commit")
    \/ pc[w] = "exitErr" /\ lock' = lock /\ Exit(w, "rollback")

(* Redis fails: the error leaves the finally block and the caller, applied *)
(* or not, rolls back work that had succeeded.                             *)
ReleaseRaises(w) ==
    /\ pc[w] \in {"exitOk", "exitErr"}
    /\ lock' \in {lock, Released(w)}
    /\ Exit(w, "rollback")

-----------------------------------------------------------------------------
(* The transaction ends, which frees the row, and the call is over. *)
UnlockedRows(w) == [p \in PaymentIds |-> IF rowLock[p] = w THEN None ELSE rowLock[p]]

EndCall(w) ==
    /\ pc' = [pc EXCEPT ![w] = "idle"]
    /\ req' = [req EXCEPT ![w] = None]
    /\ lapsed' = [lapsed EXCEPT ![w] = FALSE]

(* The caller commits the new status and the outbox row together. *)
Commit(w) ==
    LET p == req[w].payment IN
    /\ pc[w] = "commit"
    /\ status' = [status EXCEPT ![p] = req[w].to]
    /\ outbox' = [outbox EXCEPT ![p] = Append(@, req[w].to)]
    /\ rowLock' = UnlockedRows(w)
    /\ EndCall(w)
    /\ UNCHANGED lock

(* The caller rolls back, after an error or a commit that failed. *)
RollbackKeepsRow(w) ==
    /\ pc[w] \in {"commit", "rollback"}
    /\ EndCall(w)
    /\ UNCHANGED <<db, lock>>
Rollback(w) ==
    /\ pc[w] \in {"commit", "rollback"}
    /\ rowLock' = UnlockedRows(w)
    /\ EndCall(w)
    /\ UNCHANGED <<status, outbox, lock>>

(* The process dies: the database rolls back, Redis keeps the key. *)
Crash(w) ==
    /\ pc[w] # "idle"
    /\ rowLock' = UnlockedRows(w)
    /\ EndCall(w)
    /\ UNCHANGED <<status, outbox, lock>>

-----------------------------------------------------------------------------
Init ==
    /\ status \in [PaymentIds -> {"pending", "absent"}]
    /\ outbox = [p \in PaymentIds |-> << >>]
    /\ rowLock = [p \in PaymentIds |-> None]
    /\ lock = [k \in Keys |-> None]
    /\ pc = [w \in Requests |-> "idle"]
    /\ req = [w \in Requests |-> None]
    /\ lapsed = [w \in Requests |-> FALSE]

Step(w) ==
    \/ Select(w) \/ SelectFails(w)
    \/ Release(w) \/ ReleaseUnavailable(w) \/ ReleaseRaises(w)
    \/ Commit(w) \/ Rollback(w)

Next ==
    \/ \E w \in Requests :
        \/ \E r \in Request : Acquire(w, r)
        \/ \E k \in Keys : AcquireReplyLost(w, k)
        \/ Step(w)
        \/ Crash(w)
    \/ \E k \in Keys : Expire(k)

Spec == Init /\ [][Next]_vars

(* A call goes on by itself: Redis answers or times out, get_session ends  *)
(* the transaction of its caller, and PostgreSQL grants a row lock to its  *)
(* waiters in turn. The engine's lock_timeout may end a wait with an error *)
(* (SelectFails), on which the call's end does not depend.                 *)
Fairness ==
    \A w \in Requests :
        /\ SF_vars(Select(w))
        /\ WF_vars(Release(w) \/ Commit(w) \/ Rollback(w))

LiveSpec == Spec /\ Fairness

-----------------------------------------------------------------------------
(* Properties *)

(* Types; and a row is locked only by a request that is working on it. *)
PaymentsTypeOK ==
    /\ status \in [PaymentIds -> Statuses \cup {"absent"}]
    /\ outbox \in [PaymentIds -> Seq(Statuses)]
    /\ rowLock \in [PaymentIds -> Requests \cup {None}]
    /\ lock \in [Keys -> Requests \cup {None}]
    /\ pc \in [Requests -> Control]
    /\ req \in [Requests -> Request \cup {None}]
    /\ lapsed \in [Requests -> BOOLEAN]
    /\ \A w \in Requests : pc[w] # "idle" => req[w] \in Request
    /\ \A p \in PaymentIds : rowLock[p] # None =>
            pc[rowLock[p]] \notin {"idle", "select"} /\ req[rowLock[p]].payment = p

Announced(p, i) == IF i = 0 THEN "pending" ELSE outbox[p][i]

(* What the outbox has announced of a payment is the exact path its status *)
(* took: it starts at pending, follows allowed transitions only, and ends  *)
(* in the status stored, so no transition is announced twice or missed.    *)
EventsTellTheStatus ==
    \A p \in PaymentIds :
        IF status[p] = "absent" THEN outbox[p] = << >>
        ELSE /\ status[p] = Announced(p, Len(outbox[p]))
             /\ \A i \in 1 .. Len(outbox[p]) :
                    Announced(p, i) \in AllowedTransitions(Announced(p, i - 1))

(* The outcomes among the statuses announced of a payment. *)
Said(p) ==
    {e \in {"captured", "failed", "declined"} : \E i \in 1 .. Len(outbox[p]) : outbox[p][i] = e}

OutcomeSaid ==
    [p \in PaymentIds |-> CASE Said(p) = {}           -> "none"
                            [] Said(p) = {"captured"} -> "captured"
                            [] Said(p) = {"failed"}   -> "failed"
                            [] Said(p) = {"declined"} -> "declined"
                            [] OTHER                  -> "contradiction"]

(* However requests race for a payment, what the order saga hears of it is *)
(* one outcome at most, which is never taken back or contradicted: the     *)
(* interface OrderSaga is built on.                                        *)
Heard == INSTANCE PaymentOutcomes WITH announced <- OutcomeSaid

OneOutcome == Heard!Spec

(* Two requests are inside the lock of one Idempotency-Key only if the TTL *)
(* took the key from one of them.                                          *)
KeyExclusion ==
    \A v, w \in Requests :
        v # w /\ Inside(v) /\ Inside(w) /\ req[v].key = req[w].key
            => lapsed[v] \/ lapsed[w]

(* A request never takes a key away from its holder: only the holder, on   *)
(* its way out, or the TTL removes it (the compare in _LOCK_RELEASE_LUA).  *)
LockNotStolen ==
    [][\A k \in Keys :
        lock[k] # None /\ lock'[k] # lock[k] =>
            /\ lock'[k] = None
            /\ \/ pc[lock[k]] \in {"exitOk", "exitErr"} /\ req[lock[k]].key = k
               \/ Expire(k)]_vars

(* Every call ends, even when it waits for a row another request locks. *)
EveryCallEnds == \A w \in Requests : pc[w] # "idle" ~> pc[w] = "idle"

(* The order of steps in the docstring of process_payment ("7. Commit",    *)
(* "8. Release the lock"): a request about to commit still holds its key.  *)
LockHeldUntilCommit ==
    \A w \in Requests : pc[w] = "commit" => lock[req[w].key] = w \/ lapsed[w]
=============================================================================
