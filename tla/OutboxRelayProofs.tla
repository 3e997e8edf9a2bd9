------------------------- MODULE OutboxRelayProofs -------------------------
(***************************************************************************)
(* Proofs about OutboxRelay for any number of relays and rows, any batch   *)
(* size and any limit on attempts.                                         *)
(***************************************************************************)
EXTENDS OutboxRelay, FiniteSetTheorems, WellFoundedInduction, TLAPS

(* What an open batch satisfies while the loop of _publish_batch runs.     *)
(* The rows already visited are accounted for one by one, which is what    *)
(* lets a commit that only counts them be justified.                       *)
BatchInv(w) ==
    /\ pc[w] # "tick" => batch[w] = {}
    /\ todo[w] \subseteq batch[w]
    /\ sent[w] \cup bumped[w] \cup poisoned[w] \subseteq batch[w]
    /\ batch[w] \subseteq todo[w] \cup sent[w] \cup poisoned[w] \cup unexpected
    /\ batch[w] \subseteq todo[w] \cup sent[w] \cup poisoned[w] \cup bumped[w]
    /\ todo[w] \cap (sent[w] \cup poisoned[w]) = {}
    /\ sent[w] \cap poisoned[w] = {}
    /\ sent[w] \subseteq broker
    /\ \A r \in bumped[w] : attempts[r] < MaxAttempts
    /\ \A r \in poisoned[w] : r \in rejected \/ attempts[r] = MaxAttempts

(* The inductive invariant. *)
RelayInv ==
    /\ RelayTypeOK
    /\ \A w \in Relays : BatchInv(w)
    /\ ClaimsAreExclusive
    /\ ProcessedIsExplained
    /\ FailedIsExplained

-----------------------------------------------------------------------------
(* What FOR UPDATE SKIP LOCKED hands out is pending and locked by nobody. *)
LEMMA ClaimableFree ==
    ASSUME NEW w \in Relays
    PROVE  Claimable(w) \subseteq Pending \ Locked
  BY DEF Claimable, FirstN

(* _mark_batch marks rows of the batch that are not poisoned. *)
LEMMA ToMarkInBatch ==
    ASSUME NEW w \in Relays
    PROVE  ToMark(w) \subseteq batch[w] \ poisoned[w]
  BY DEF ToMark, FirstN

(* RelayInv holds of the empty outbox. *)
LEMMA InitInv == Init => RelayInv
  BY RelayConstants DEF Init, RelayInv, RelayTypeOK, BatchInv, ClaimsAreExclusive,
     ProcessedIsExplained, FailedIsExplained, Rows

(* Steps that leave the table and every open batch alone. *)
LEMMA QuietStep ==
    ASSUME RelayInv,
           UNCHANGED <<processed, failed, attempts, tick, history>>,
           inserted \subseteq inserted', inserted' \subseteq Rows,
           broker \subseteq broker', broker' \subseteq Rows,
           pc' \in [Relays -> {"off", "idle", "tick"}],
           stopping' \in [Relays -> BOOLEAN],
           \A w \in Relays : pc'[w] # "tick" => pc[w] # "tick"
    PROVE  RelayInv'
  <1>1. RelayTypeOK'
    BY DEF RelayInv, RelayTypeOK, tick, history
  <1>2. ASSUME NEW w \in Relays PROVE BatchInv(w)'
    BY DEF RelayInv, BatchInv, tick, history
  <1>3. ClaimsAreExclusive'
    BY DEF RelayInv, ClaimsAreExclusive, Pending, tick
  <1>4. ProcessedIsExplained' /\ FailedIsExplained'
    BY DEF RelayInv, ProcessedIsExplained, FailedIsExplained, history
  <1> QED BY <1>1, <1>2, <1>3, <1>4 DEF RelayInv

(* Steps that roll a transaction back. *)
LEMMA RollbackStep ==
    ASSUME RelayInv, NEW w \in Relays,
           EndTransaction(w),
           UNCHANGED <<table, stopping, history>>,
           broker \subseteq broker', broker' \subseteq Rows,
           NEW p \in {"off", "idle"}, pc' = [pc EXCEPT ![w] = p]
    PROVE  RelayInv'
  <1> USE DEF RelayInv
  <1>1. RelayTypeOK'
    BY DEF RelayTypeOK, EndTransaction, table, history
  <1>2. ASSUME NEW v \in Relays PROVE BatchInv(v)'
    BY DEF RelayTypeOK, BatchInv, EndTransaction, table, history
  <1>3. ClaimsAreExclusive'
    BY DEF RelayTypeOK, ClaimsAreExclusive, Pending, EndTransaction, table
  <1>4. ProcessedIsExplained' /\ FailedIsExplained'
    BY DEF ProcessedIsExplained, FailedIsExplained, table, history
  <1> QED BY <1>1, <1>2, <1>3, <1>4

(* A claim takes rows nobody has locked. *)
LEMMA ClaimStep ==
    ASSUME RelayInv, NEW w \in Relays, ClaimBatch(w)
    PROVE  RelayInv'
  <1> USE DEF RelayInv
  <1>0. Claimable(w) \subseteq Pending /\ Claimable(w) \cap Locked = {}
    BY ClaimableFree
  <1>1. RelayTypeOK'
    BY <1>0 DEF RelayTypeOK, ClaimBatch, Pending, table, history
  <1>2. ASSUME NEW v \in Relays PROVE BatchInv(v)'
    BY DEF RelayTypeOK, BatchInv, ClaimBatch, MayTick, table, history
  <1>3. ClaimsAreExclusive'
    <2>1. \A v \in Relays : batch[v] \subseteq Locked
      BY DEF Locked
    <2>2. \A v \in Relays : batch'[v] = IF v = w THEN Claimable(w) ELSE batch[v]
      BY DEF ClaimBatch, RelayTypeOK
    <2>3. Pending' = Pending
      BY DEF Pending, ClaimBatch, table
    <2> QED BY <1>0, <2>1, <2>2, <2>3 DEF ClaimsAreExclusive
  <1>4. ProcessedIsExplained' /\ FailedIsExplained'
    BY DEF ProcessedIsExplained, FailedIsExplained, ClaimBatch, table, history
  <1> QED BY <1>1, <1>2, <1>3, <1>4

(* A visit of the publish loop that does not abandon the batch. *)
LEMMA VisitStep ==
    ASSUME RelayInv, NEW w \in Relays, NEW r \in Rows,
           \/ SkipPoison(w, r) \/ PublishAcked(w, r)
           \/ PublishRejected(w, r) \/ PublishUnexpected(w, r)
    PROVE  RelayInv'
  <1> USE DEF RelayInv
  <1> USE DEF Visit, AtRow, table, history, FirstN, Exhausted
  <1>0. attempts[r] \in 0 .. MaxAttempts /\ MaxAttempts \in Nat
    BY RelayConstants DEF RelayTypeOK
  <1>1. RelayTypeOK'
    BY DEF RelayTypeOK, SkipPoison, PublishAcked, PublishRejected, PublishUnexpected
  <1>2. ASSUME NEW v \in Relays PROVE BatchInv(v)'
    <2>1. CASE SkipPoison(w, r)
      BY <1>0, <2>1 DEF RelayTypeOK, BatchInv, SkipPoison
    <2>2. CASE PublishAcked(w, r)
      BY <1>0, <2>2 DEF RelayTypeOK, BatchInv, PublishAcked
    <2>3. CASE PublishRejected(w, r)
      BY <1>0, <2>3 DEF RelayTypeOK, BatchInv, PublishRejected
    <2>4. CASE PublishUnexpected(w, r)
      BY <1>0, <2>4 DEF RelayTypeOK, BatchInv, PublishUnexpected
    <2> QED BY <2>1, <2>2, <2>3, <2>4
  <1>3. ClaimsAreExclusive'
    BY DEF ClaimsAreExclusive, Pending, SkipPoison, PublishAcked, PublishRejected,
           PublishUnexpected
  <1>4. ProcessedIsExplained' /\ FailedIsExplained'
    BY DEF ProcessedIsExplained, FailedIsExplained, SkipPoison, PublishAcked,
           PublishRejected, PublishUnexpected
  <1> QED BY <1>1, <1>2, <1>3, <1>4

(* A commit settles rows of its own batch only. *)
LEMMA CommitStep ==
    ASSUME RelayInv, NEW w \in Relays, CommitBatch(w)
    PROVE  RelayInv'
  <1> USE DEF RelayInv
  <1>0. /\ ToMark(w) \subseteq batch[w] \ poisoned[w]
        /\ MaxAttempts \in Nat
        /\ batch[w] \subseteq Pending
        /\ poisoned[w] \subseteq batch[w] /\ bumped[w] \subseteq batch[w]
    BY ToMarkInBatch, RelayConstants DEF ClaimsAreExclusive, BatchInv
  <1>1. RelayTypeOK'
    BY <1>0 DEF RelayTypeOK, CommitBatch, EndTransaction, BatchInv, Pending, history
  <1>2. ASSUME NEW v \in Relays PROVE BatchInv(v)'
    <2>1. CASE v = w
      BY <2>1 DEF RelayTypeOK, BatchInv, CommitBatch, EndTransaction
    <2>2. CASE v # w
      <3>1. batch[v] \cap batch[w] = {}
        BY <2>2 DEF ClaimsAreExclusive
      <3>2. \A q \in batch[v] : q \in Rows /\ attempts'[q] = attempts[q]
        BY <3>1, <1>0 DEF CommitBatch, RelayTypeOK
      <3>3. /\ pc'[v] = pc[v] /\ batch'[v] = batch[v] /\ todo'[v] = todo[v]
            /\ sent'[v] = sent[v] /\ bumped'[v] = bumped[v]
            /\ poisoned'[v] = poisoned[v]
            /\ unexpected' = unexpected /\ rejected' = rejected /\ broker' = broker
        BY <2>2 DEF RelayTypeOK, CommitBatch, EndTransaction, history
      <3> QED BY <3>2, <3>3 DEF BatchInv
    <2> QED BY <2>1, <2>2
  <1>3. ClaimsAreExclusive'
    <2>1. \A v \in Relays : batch'[v] = IF v = w THEN {} ELSE batch[v]
      BY DEF CommitBatch, EndTransaction, RelayTypeOK
    <2>2. \A v \in Relays \ {w} : batch[v] \cap batch[w] = {}
      BY DEF ClaimsAreExclusive
    <2>3. Pending \ batch[w] \subseteq Pending'
      BY <1>0 DEF Pending, CommitBatch
    <2> QED BY <2>1, <2>2, <2>3 DEF ClaimsAreExclusive
  <1>4. ProcessedIsExplained'
    <2>1. ToMark(w) \subseteq broker \cup unexpected
      BY <1>0 DEF CommitBatch, BatchInv
    <2> QED BY <2>1 DEF ProcessedIsExplained, CommitBatch, history
  <1>5. FailedIsExplained'
    <2>1. ASSUME NEW r \in failed' PROVE r \notin processed'
      BY <1>0 DEF FailedIsExplained, ProcessedIsExplained, CommitBatch, Pending
    <2>2. ASSUME NEW r \in failed' PROVE r \in rejected' \/ attempts'[r] = MaxAttempts
      <3>1. CASE r \in failed
        BY <1>0, <3>1 DEF FailedIsExplained, CommitBatch, Pending, RelayTypeOK, history
      <3>2. CASE r \in poisoned[w]
        BY <1>0, <3>2 DEF BatchInv, CommitBatch, RelayTypeOK, history
      <3> QED BY <3>1, <3>2 DEF CommitBatch
    <2> QED BY <2>1, <2>2 DEF FailedIsExplained
  <1> QED BY <1>1, <1>2, <1>3, <1>4, <1>5

(* Every step keeps the invariant. *)
LEMMA NextInv == RelayInv /\ [Next]_vars => RelayInv'
  <1> SUFFICES ASSUME RelayInv, [Next]_vars PROVE RelayInv'
    OBVIOUS
  <1>0. RelayTypeOK
    BY DEF RelayInv
  <1>1. ASSUME NEW r \in Rows, Insert(r) PROVE RelayInv'
    BY <1>0, <1>1, QuietStep DEF Insert, RelayTypeOK
  <1>2. ASSUME NEW w \in Relays, Start(w) \/ Stop(w) \/ ExitLoop(w)
        PROVE RelayInv'
    BY <1>0, <1>2, QuietStep DEF Start, Stop, ExitLoop, RelayTypeOK, table
  <1>3. ASSUME NEW w \in Relays, AbortTick(w) PROVE RelayInv'
    <2>1. InFlight(w) \subseteq Rows
      BY <1>0 DEF InFlight, FirstN, RelayTypeOK
    <2> QED BY <1>0, <1>3, <2>1, RollbackStep DEF AbortTick, RelayTypeOK
  <1>4. ASSUME NEW w \in Relays, Cancel(w) \/ Crash(w) PROVE RelayInv'
    <2>1. CASE AbortTick(w)
      BY <2>1, <1>3
    <2>2. CASE /\ pc[w] = "idle"
               /\ pc' = [pc EXCEPT ![w] = "off"]
               /\ UNCHANGED <<table, broker, stopping, tick, history>>
      BY <1>0, <2>2, QuietStep DEF RelayTypeOK, table
    <2> QED BY <1>4, <2>1, <2>2 DEF Cancel, Crash
  <1>5. ASSUME NEW w \in Relays, Tick(w) PROVE RelayInv'
    <2>1. CASE ClaimBatch(w)
      BY <2>1, ClaimStep
    <2>2. CASE \E r \in Rows : Publish(w, r)
      <3>1. PICK r \in Rows : Publish(w, r)
        BY <2>2
      <3>2. CASE PublishUnavailable(w, r)
        BY <1>0, <3>2, RollbackStep DEF PublishUnavailable, RelayTypeOK
      <3> QED BY <3>1, <3>2, VisitStep DEF Publish
    <2>3. CASE CommitBatch(w)
      BY <2>3, CommitStep
    <2>4. CASE CommitFails(w)
      BY <1>0, <2>4, RollbackStep DEF CommitFails, RelayTypeOK
    <2> QED BY <1>5, <2>1, <2>2, <2>3, <2>4 DEF Tick
  <1>6. CASE UNCHANGED vars
    BY <1>0, <1>6, QuietStep DEF RelayTypeOK, vars, table
  <1> QED BY <1>1, <1>2, <1>4, <1>5, <1>6 DEF Next, Lifecycle

-----------------------------------------------------------------------------
(* RelayInv holds in every reachable state. *)
THEOREM RelayInvariant == Spec => []RelayInv
  <1>1. Init => RelayInv
    BY InitInv
  <1>2. RelayInv /\ [Next]_vars => RelayInv'
    BY NextInv
  <1> QED BY <1>1, <1>2, PTL DEF Spec

(* Types; in particular attempt_count never passes max_attempts. *)
THEOREM RelayTypeCorrect == Spec => []RelayTypeOK
  <1>1. RelayInv => RelayTypeOK
    BY DEF RelayInv
  <1> QED BY <1>1, RelayInvariant, PTL

(* The only events the relay can lose are those whose own publish raised   *)
(* an unforeseen error.                                                    *)
THEOREM LossIsExplained == Spec => []ProcessedIsExplained
  <1>1. RelayInv => ProcessedIsExplained
    BY DEF RelayInv
  <1> QED BY <1>1, RelayInvariant, PTL

(* Poisoned rows have a cause and are never also processed. *)
THEOREM PoisonIsExplained == Spec => []FailedIsExplained
  <1>1. RelayInv => FailedIsExplained
    BY DEF RelayInv
  <1> QED BY <1>1, RelayInvariant, PTL

(* Concurrent relays work on disjoint rows, all of them still pending. *)
THEOREM ExclusiveClaims == Spec => []ClaimsAreExclusive
  <1>1. RelayInv => ClaimsAreExclusive
    BY DEF RelayInv
  <1> QED BY <1>1, RelayInvariant, PTL

(* A settled row is never touched again, by any relay. *)
THEOREM SettledForever == Spec => SettledRowsAreFinal
  <1> DEFINE Final == /\ processed \subseteq processed'
                      /\ failed \subseteq failed'
                      /\ (processed \cap failed') \cup (failed \cap processed') = {}
                      /\ \A r \in processed \cup failed : attempts'[r] = attempts[r]
  <1>1. RelayInv /\ RelayInv' /\ [Next]_vars => [Final]_vars
    <2> SUFFICES ASSUME RelayInv, RelayInv', Next PROVE Final
      OBVIOUS
    <2>1. CASE UNCHANGED <<processed, failed, attempts>>
      BY <2>1 DEF RelayInv, FailedIsExplained
    <2>2. ASSUME NEW w \in Relays, CommitBatch(w) PROVE Final
      <3>1. processed \subseteq processed' /\ failed \subseteq failed'
        BY <2>2 DEF CommitBatch
      <3>2. (processed \cap failed') \cup (failed \cap processed') = {}
        BY <3>1 DEF RelayInv, FailedIsExplained
      <3>3. bumped[w] \cap (processed \cup failed) = {}
        BY DEF RelayInv, BatchInv, ClaimsAreExclusive, Pending
      <3>4. \A r \in processed \cup failed : attempts'[r] = attempts[r]
        BY <2>2, <3>3 DEF CommitBatch, RelayInv, RelayTypeOK
      <3> QED BY <3>1, <3>2, <3>4
    <2>3. \/ UNCHANGED <<processed, failed, attempts>>
          \/ \E w \in Relays : CommitBatch(w)
      BY DEF Next, Insert, Tick, Lifecycle, Start, Stop, ExitLoop, Cancel, Crash, AbortTick,
             ClaimBatch, Publish, SkipPoison, PublishAcked, PublishRejected,
             PublishUnexpected, PublishUnavailable, CommitFails, Visit, table
    <2> QED BY <2>1, <2>2, <2>3
  <1> QED BY <1>1, RelayInvariant, PTL DEF Spec, SettledRowsAreFinal

-----------------------------------------------------------------------------
(* Counting rows *)

(* A set of numbers has a least one. *)
LEMMA Least ==
    ASSUME NEW S \in SUBSET Nat, S # {}
    PROVE  \E m \in S : \A n \in S : m <= n
  <1>1. \E m \in S : \A n \in S : <<n, m>> \notin OpToRel(<, Nat)
    BY WFMin, NatLessThanWellFounded
  <1>2. \E m \in S : \A n \in S : ~(n < m)
    BY <1>1 DEF OpToRel
  <1> QED
    BY <1>2

(* Rows are finitely many. *)
LEMMA FiniteRows ==
    ASSUME NEW S \in SUBSET Rows
    PROVE  /\ IsFiniteSet(S) /\ Cardinality(S) \in Nat
           /\ \A T \in SUBSET S : Cardinality(T) <= Cardinality(S)
  <1>1. IsFiniteSet(Rows)
    BY RelayConstants, FS_Interval DEF Rows
  <1> QED
    BY <1>1, FS_Subset, FS_CardinalityType

(* The first n + 1 rows are one more than the first n. *)
LEMMA FirstNGrows ==
    ASSUME NEW S \in SUBSET Rows, NEW n \in Nat,
           Cardinality(FirstN(S, n)) = n, n < Cardinality(S)
    PROVE  Cardinality(FirstN(S, n + 1)) = n + 1
  <1> DEFINE F == FirstN(S, n)
             G == FirstN(S, n + 1)
             before == [r \in S |-> {q \in S : q < r}]
             rank == [r \in S |-> Cardinality(before[r])]
  <1>1. F \in SUBSET S /\ G \in SUBSET S /\ S \in SUBSET Nat /\ S \ F # {}
    <2>1. F \in SUBSET S /\ G \in SUBSET S /\ S \in SUBSET Nat
      BY RelayConstants DEF FirstN, Rows
    <2>2. S # F
      BY FiniteRows
    <2> QED
      BY <2>1, <2>2
  <1>2. PICK r \in S \ F : \A q \in S \ F : r <= q
    <2>1. S \ F \in SUBSET Nat
      BY <1>1
    <2> QED
      BY <1>1, <2>1, Least
  <1>3. \A q \in S :
            /\ rank[q] \in Nat
            /\ q \in F <=> rank[q] < n
            /\ q \in G <=> rank[q] < n + 1
    <2>1. \A q \in S : before[q] \in SUBSET Rows
      OBVIOUS
    <2>2. \A q \in S : rank[q] \in Nat
      BY <2>1, FiniteRows
    <2> QED
      BY <2>2 DEF FirstN
  <1>4. \A q \in S : \A T \in SUBSET before[q] : Cardinality(T) <= rank[q]
    <2>1. \A q \in S : before[q] \in SUBSET Rows /\ rank[q] = Cardinality(before[q])
      OBVIOUS
    <2> QED
      BY <2>1, FiniteRows
  <1>5. \A p, q \in S : p \in before[q] <=> p < q
    OBVIOUS
  <1>6. \A q \in S : before[q] \in SUBSET S
    OBVIOUS
  <1>7. Cardinality(F \cup {r}) = n + 1
    BY <1>1, <1>2, FiniteRows, FS_AddElement
  <1>8. rank[r] = Cardinality(before[r]) /\ Cardinality(F) = n
    OBVIOUS
  <1> HIDE DEF F, G, before, rank
  <1>9. \A q \in F : q < r
    <2> SUFFICES ASSUME NEW q \in F, r <= q
                 PROVE  FALSE
      BY <1>1, <1>2
    <2>1. ASSUME NEW p \in before[r]
          PROVE  p \in before[q]
      <3>1. p \in S /\ p < r /\ q \in S /\ r \in S
        BY <1>1, <1>2, <1>5, <1>6
      <3>2. p \in Nat /\ q \in Nat /\ r \in Nat
        BY <1>1, <3>1
      <3>3. p < q
        BY <3>1, <3>2
      <3> QED
        BY <1>5, <3>1, <3>3
    <2>2. rank[r] <= rank[q]
      BY <1>1, <1>4, <1>8, <2>1
    <2> QED
      BY <1>1, <1>2, <1>3, <2>2
  <1>10. before[r] = F
    <2>1. F \subseteq before[r]
      BY <1>1, <1>2, <1>5, <1>9
    <2>2. ASSUME NEW p \in before[r], p \notin F
          PROVE  FALSE
      <3>1. p \in S /\ p < r /\ r \in S
        BY <1>2, <1>5, <1>6
      <3>2. r <= p
        BY <1>2, <2>2, <3>1
      <3> QED
        BY <1>1, <3>1, <3>2
    <2> QED
      BY <2>1, <2>2
  <1>11. r \in G
    BY <1>2, <1>3, <1>8, <1>10
  <1>12. ASSUME NEW q \in G, q \notin F
         PROVE  q = r
    <2> SUFFICES ASSUME q # r
                 PROVE  FALSE
      OBVIOUS
    <2>1. r < q
      BY <1>1, <1>2, <1>12
    <2>2. F \cup {r} \in SUBSET before[q]
      BY <1>1, <1>2, <1>5, <1>9, <2>1
    <2>3. n + 1 <= rank[q]
      BY <1>1, <1>4, <1>7, <2>2
    <2> QED
      BY <1>1, <1>3, <2>3
  <1>13. F \subseteq G
    BY <1>1, <1>3
  <1>14. G = F \cup {r}
    BY <1>11, <1>12, <1>13
  <1> QED
    BY <1>7, <1>14 DEF G

(* LIMIT n, and the slice of _mark_batch, yield n rows if there are so     *)
(* many: otherwise there were a least n for which they do not.             *)
LEMMA FirstNCount ==
    ASSUME NEW S \in SUBSET Rows, NEW n \in Nat, n <= Cardinality(S)
    PROVE  Cardinality(FirstN(S, n)) = n
  <1> DEFINE Wrong == {k \in Nat : k <= Cardinality(S) /\ Cardinality(FirstN(S, k)) # k}
  <1>1. Cardinality(FirstN(S, 0)) = 0
    <2>1. FirstN(S, 0) = {}
      <3>1. \A r \in S : Cardinality({q \in S : q < r}) \in Nat
        BY FiniteRows
      <3> QED
        BY <3>1 DEF FirstN
    <2> QED
      BY <2>1, FS_EmptySet
  <1>2. Wrong = {}
    <2> SUFFICES ASSUME Wrong # {}
                 PROVE  FALSE
      OBVIOUS
    <2>1. PICK m \in Wrong : \A k \in Wrong : m <= k
      BY Least
    <2>2. m \in Nat /\ m # 0 /\ m <= Cardinality(S) /\ Cardinality(S) \in Nat
      BY <1>1, FiniteRows
    <2>3. m - 1 \in Nat /\ m - 1 \notin Wrong /\ m - 1 < Cardinality(S)
      BY <2>1, <2>2
    <2>4. Cardinality(FirstN(S, m - 1)) = m - 1
      BY <2>2, <2>3
    <2>5. Cardinality(FirstN(S, (m - 1) + 1)) = (m - 1) + 1
      BY <2>3, <2>4, FirstNGrows
    <2> QED
      BY <2>2, <2>5
  <1> QED
    BY <1>2

(* A commit marks as many rows as were sent, none of them marked before;   *)
(* rows that were neither sent nor poisoned have had an attempt counted.   *)
LEMMA CommitCounts ==
    ASSUME RelayInv, NEW w \in Relays, CommitBatch(w)
    PROVE  /\ Cardinality(processed' \ processed) = Cardinality(sent[w])
           /\ \/ Cardinality(Pending') < Cardinality(Pending)
              \/ \A r \in batch[w] : attempts'[r] = attempts[r] + 1
  <1> DEFINE Live == batch[w] \ poisoned[w]
  <1>1. /\ batch[w] \in SUBSET Rows /\ sent[w] \in SUBSET Live /\ Live \in SUBSET Rows
        /\ Pending \in SUBSET Rows /\ batch[w] \subseteq Pending
        /\ poisoned[w] \subseteq batch[w]
        /\ batch[w] \subseteq sent[w] \cup poisoned[w] \cup bumped[w]
    BY DEF RelayInv, RelayTypeOK, BatchInv, ClaimsAreExclusive, CommitBatch, Pending
  <1>2. Cardinality(sent[w]) \in Nat /\ Cardinality(sent[w]) <= Cardinality(Live)
    BY <1>1, FiniteRows
  <1>3. Cardinality(ToMark(w)) = Cardinality(sent[w])
    BY <1>1, <1>2, FirstNCount DEF ToMark
  <1>4. processed' \ processed = ToMark(w)
    BY <1>1, ToMarkInBatch DEF CommitBatch, Pending
  <1>5. Pending' = Pending \ (ToMark(w) \cup poisoned[w])
    BY <1>1, ToMarkInBatch DEF CommitBatch, Pending
  <1>6. CASE ToMark(w) \cup poisoned[w] # {}
    <2>1. PICK r \in Pending : r \notin Pending'
      BY <1>1, <1>5, <1>6, ToMarkInBatch
    <2>2. Pending' \in SUBSET (Pending \ {r})
      BY <1>5, <2>1
    <2>3. /\ Cardinality(Pending \ {r}) = Cardinality(Pending) - 1
          /\ Cardinality(Pending) \in Nat
      BY <1>1, <2>1, FiniteRows, FS_RemoveElement
    <2>4. Cardinality(Pending') <= Cardinality(Pending \ {r}) /\ Cardinality(Pending') \in Nat
      BY <1>1, <1>5, <2>2, FiniteRows
    <2>5. Cardinality(Pending') < Cardinality(Pending)
      BY <2>3, <2>4
    <2> QED
      BY <1>3, <1>4, <2>5
  <1>7. CASE ToMark(w) = {} /\ poisoned[w] = {}
    <2>1. sent[w] = {}
      BY <1>1, <1>3, <1>7, FiniteRows, FS_EmptySet
    <2>2. batch[w] \subseteq bumped[w]
      BY <1>1, <1>7, <2>1
    <2> QED
      BY <1>1, <1>3, <1>4, <2>2 DEF CommitBatch
  <1> QED
    BY <1>6, <1>7

(* Every tick that commits settles as many rows as it published or, when   *)
(* it settles none, counts an attempt for each row of its batch, for any   *)
(* number of relays and rows and any batch size.                           *)
THEOREM CommitsProgress == Spec => CommitsMakeProgress
  <1> DEFINE Progress == \A w \in Relays : CommitBatch(w) =>
        /\ Cardinality(processed' \ processed) = Cardinality(sent[w])
        /\ \/ Cardinality(Pending') < Cardinality(Pending)
           \/ \A r \in batch[w] : attempts'[r] = attempts[r] + 1
  <1>1. RelayInv /\ [Next]_vars => [Progress]_vars
    BY CommitCounts
  <1> QED BY <1>1, RelayInvariant, PTL DEF Spec, CommitsMakeProgress

-----------------------------------------------------------------------------
(* The head of a set of rows has nothing of the set before it. *)
LEMMA HeadIsFirst ==
    ASSUME NEW S \in SUBSET Rows, NEW r \in FirstN(S, 1), NEW q \in S, q < r
    PROVE  FALSE
  <1> DEFINE Before == {p \in S : p < r}
  <1>1. IsFiniteSet(Rows)
    BY RelayConstants, FS_Interval DEF Rows
  <1>2. IsFiniteSet(Before) /\ Cardinality(Before) \in Nat
    BY <1>1, FS_Subset, FS_CardinalityType
  <1>3. Cardinality(Before) < 1
    BY DEF FirstN
  <1>4. Before = {}
    BY <1>2, <1>3, FS_EmptySet
  <1> QED BY <1>4

(* Only the row a relay is at gets into the topic, and it is open. *)
LEMMA AppendStep ==
    ASSUME RelayInv, Next, NEW r \in broker' \ broker
    PROVE  \E w \in Relays : r \in FirstN(todo[w], 1)
  <1> USE DEF RelayInv
  <1>1. ASSUME NEW w \in Relays, AbortTick(w)
        PROVE  r \in FirstN(todo[w], 1)
    BY <1>1 DEF AbortTick, InFlight
  <1>2. ASSUME NEW w \in Relays, NEW q \in Rows, Publish(w, q)
        PROVE  r \in FirstN(todo[w], 1)
    BY <1>2 DEF Publish, SkipPoison, PublishAcked, PublishRejected, PublishUnexpected,
       PublishUnavailable, Visit, AtRow
  <1>3. \/ broker' = broker
        \/ \E w \in Relays : AbortTick(w)
        \/ \E w \in Relays : \E q \in Rows : Publish(w, q)
    BY DEF Next, Insert, Tick, Lifecycle, Start, Stop, ExitLoop, Cancel, Crash,
       ClaimBatch, CommitBatch, CommitFails
  <1> QED BY <1>1, <1>2, <1>3

(* Rows of one batch get into the topic in the order of created_at, except *)
(* behind rows that were refused, raised or used up their attempts.        *)
THEOREM BatchOrderKept == Spec => BatchIsSentInOrder
  <1> DEFINE InOrder == \A w \in Relays : \A r \in (broker' \ broker) \cap batch[w] :
        \A q \in batch[w] : q < r => q \in broker \cup poisoned[w] \cup unexpected
  <1>1. RelayInv /\ [Next]_vars => [InOrder]_vars
    <2> SUFFICES ASSUME RelayInv, Next,
                        NEW w \in Relays, NEW r \in (broker' \ broker) \cap batch[w],
                        NEW q \in batch[w], q < r
                 PROVE  q \in broker \cup poisoned[w] \cup unexpected
      OBVIOUS
    <2>1. PICK v \in Relays : r \in FirstN(todo[v], 1)
      BY AppendStep
    <2>2. v = w
      BY <2>1 DEF RelayInv, BatchInv, ClaimsAreExclusive, FirstN
    <2>3. todo[w] \in SUBSET Rows
      BY DEF RelayInv, RelayTypeOK
    <2>4. q \notin todo[w]
      BY <2>1, <2>2, <2>3, HeadIsFirst
    <2> QED BY <2>4 DEF RelayInv, BatchInv
  <1> QED BY <1>1, RelayInvariant, PTL DEF Spec, BatchIsSentInOrder

-----------------------------------------------------------------------------
(* Every step of the relays is a step of the promise, or invisible to it. *)
LEMMA PromiseStep == RelayInv /\ [Next]_vars => [Promise!Next]_(Promise!vars)
  <1> SUFFICES ASSUME RelayInv, [Next]_vars
               PROVE  Promise!Next \/ UNCHANGED <<inserted, broker, unexpected, processed, failed>>
    BY DEF Promise!vars
  <1>1. ASSUME NEW r \in Rows, Insert(r) PROVE Promise!Next
    BY <1>1 DEF Insert, history, Promise!Next, Promise!Write
  <1>2. ASSUME NEW w \in Relays, NEW r \in Rows, r \in FirstN(todo[w], 1),
               broker' \in {broker, broker \cup {r}},
               unexpected' \in {unexpected, unexpected \cup {r}},
               UNCHANGED table
        PROVE  Promise!Next
    <2>1. r \in Promise!Open
      BY <1>2 DEF RelayInv, BatchInv, ClaimsAreExclusive, Pending, FirstN, Promise!Open
    <2> QED BY <1>2, <2>1 DEF table, Promise!Next, Promise!Attempt
  <1>3. ASSUME NEW w \in Relays, CommitBatch(w) PROVE Promise!Next
    <2>1. /\ ToMark(w) \in SUBSET Promise!Open /\ poisoned[w] \in SUBSET Promise!Open
          /\ ToMark(w) \cap poisoned[w] = {}
      BY ToMarkInBatch DEF RelayInv, BatchInv, ClaimsAreExclusive, Pending, Promise!Open
    <2>2. ToMark(w) \subseteq broker \cup unexpected
      BY <1>3, ToMarkInBatch DEF RelayInv, BatchInv, CommitBatch
    <2>3. Promise!Settle(ToMark(w), poisoned[w])
      BY <1>3, <2>1, <2>2 DEF CommitBatch, history, Promise!Settle
    <2> QED BY <2>1, <2>3 DEF Promise!Next
  <1>4. ASSUME NEW w \in Relays, AbortTick(w)
        PROVE  Promise!Next \/ UNCHANGED <<inserted, broker, unexpected, processed, failed>>
    <2>1. CASE broker' = broker
      BY <1>4, <2>1 DEF AbortTick, table, history
    <2>2. CASE broker' # broker
      <3>1. PICK r \in InFlight(w) : TRUE
        BY <1>4, <2>2 DEF AbortTick
      <3>2. InFlight(w) = {r}
        <4>1. ASSUME NEW q \in InFlight(w), q # r PROVE FALSE
          <5>1. q \in Rows /\ r \in Rows /\ todo[w] \in SUBSET Rows
                /\ q \in FirstN(todo[w], 1) /\ r \in FirstN(todo[w], 1)
            BY DEF InFlight, FirstN, RelayInv, RelayTypeOK
          <5>2. q \in todo[w] /\ r \in todo[w] /\ (q < r \/ r < q)
            BY <4>1, <5>1 DEF FirstN, Rows
          <5> QED BY <5>1, <5>2, HeadIsFirst
        <4> QED BY <4>1
      <3>3. r \in Rows /\ r \in FirstN(todo[w], 1)
        BY DEF InFlight, FirstN, RelayInv, RelayTypeOK
      <3> QED BY <1>2, <1>4, <3>2, <3>3 DEF AbortTick, history
    <2> QED BY <2>1, <2>2
  <1>5. ASSUME NEW w \in Relays, NEW r \in Rows, Publish(w, r)
        PROVE  Promise!Next \/ UNCHANGED <<inserted, broker, unexpected, processed, failed>>
    <2>1. r \in FirstN(todo[w], 1) /\ UNCHANGED table
          /\ broker' \in {broker, broker \cup {r}}
          /\ unexpected' \in {unexpected, unexpected \cup {r}}
      BY <1>5 DEF Publish, SkipPoison, PublishAcked, PublishRejected, PublishUnexpected,
         PublishUnavailable, Visit, AtRow, history
    <2> QED BY <1>2, <2>1
  <1>6. \/ \E r \in Rows : Insert(r)
        \/ \E w \in Relays : CommitBatch(w) \/ AbortTick(w)
        \/ \E w \in Relays : \E r \in Rows : Publish(w, r)
        \/ UNCHANGED <<inserted, broker, unexpected, processed, failed>>
    BY DEF Next, vars, table, history, Tick, Lifecycle, Start, Stop, ExitLoop, Cancel,
       Crash, ClaimBatch, CommitFails
  <1> QED BY <1>1, <1>3, <1>4, <1>5, <1>6

(* The outbox with its relays implements the outbox that is promised:      *)
(* written events are settled once, and delivered ones were published.     *)
THEOREM RelayKeepsPromise == Spec => OutboxPromiseKept
  <1>1. Init => Promise!Init
    BY DEF Init, Promise!Init
  <1> QED BY <1>1, PromiseStep, RelayInvariant, PTL DEF Spec, OutboxPromiseKept, Promise!Spec
=============================================================================
