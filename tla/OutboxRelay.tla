---------------------------- MODULE OutboxRelay ----------------------------
(***************************************************************************)
(* The transactional outbox and the relays that drain it to Kafka          *)
(* (src/workers/outbox_relay.py, table outbox_events of                    *)
(* src/modules/payments/models.py, KafkaProducer.publish of                *)
(* src/core/messaging.py).                                                 *)
(*                                                                         *)
(* Rows are numbered by created_at.  The committed table is the variables  *)
(* inserted, processed, failed and attempts.  A relay in a tick holds one  *)
(* open transaction: the rows it locked (batch), the ones its loop has not *)
(* reached (todo) and what the loop did to the in-memory row objects       *)
(* (sent, bumped, poisoned), which only a commit makes visible.            *)
(***************************************************************************)
EXTENDS Naturals, FiniteSets

CONSTANTS
    Relays,       \* relay instances, one per application process
    NumRows,      \* how many events the application ever writes
    BatchSize,    \* outbox_relay_batch_size
    MaxAttempts   \* outbox_relay_max_attempts

ASSUME RelayConstants ==
    /\ NumRows \in Nat
    /\ BatchSize \in Nat \ {0}
    /\ MaxAttempts \in Nat \ {0}

Rows == 1 .. NumRows

VARIABLES
    inserted,     \* rows some business transaction has committed
    processed,    \* rows whose column processed is true
    failed,       \* rows whose column failed is true
    attempts,     \* column attempt_count
    broker,       \* rows with at least one copy in the topic
    pc,           \* per relay: no task, between ticks, or inside a tick
    stopping,     \* per relay: _stop_event is set
    batch, todo,  \* per relay: rows locked; rows the loop has still to visit
    sent,         \* per relay: rows of the batch the broker acknowledged
    bumped,       \* per relay: rows whose attempt_count was raised in memory
    poisoned,     \* per relay: rows whose failed was set in memory
    unexpected,   \* history: rows whose publish ever raised an unforeseen error
    rejected      \* history: rows whose publish ever raised InfrastructureError

table   == <<inserted, processed, failed, attempts>>
tick    == <<batch, todo, sent, bumped, poisoned>>
history == <<unexpected, rejected>>
vars    == <<table, broker, pc, stopping, tick, history>>

-----------------------------------------------------------------------------
(* Helpers *)

FirstN(S, n) == {r \in S : Cardinality({q \in S : q < r}) < n}

Locked == UNION {batch[w] : w \in Relays}

Pending == inserted \ (processed \cup failed)

(* FOR UPDATE SKIP LOCKED: the first rows of the queue nobody has locked. *)
ClaimableAnyLock(w) == FirstN(Pending, BatchSize)
ClaimableProcessed(w) == FirstN(inserted \ (failed \cup Locked), BatchSize)
ClaimableFull(w) ==
    IF Cardinality(Pending \ Locked) < BatchSize THEN {}
    ELSE FirstN(Pending \ Locked, BatchSize)
Claimable(w) == FirstN(Pending \ Locked, BatchSize)

(* The row has used up its attempts. *)
ExhaustedLate(r) == attempts[r] > MaxAttempts
ExhaustedEarly(r) == attempts[r] + 1 >= MaxAttempts
Exhausted(r) == attempts[r] >= MaxAttempts

(* The row whose publish the relay is awaiting. *)
InFlight(w) == {r \in FirstN(todo[w], 1) : ~Exhausted(r)}

(* _mark_batch: it is given the number of rows published, and marks that  *)
(* many of the rows not poisoned, from the head of the batch.             *)
ToMarkPoisonToo(w) == FirstN(batch[w], Cardinality(sent[w]))
ToMark(w) == FirstN(batch[w] \ poisoned[w], Cardinality(sent[w]))

-----------------------------------------------------------------------------
(* The application writes an outbox row with its business change. Rows     *)
(* commit in any order, whatever their created_at.                         *)
Insert(r) ==
    /\ r \notin inserted
    /\ inserted' = inserted \cup {r}
    /\ UNCHANGED <<processed, failed, attempts, broker, pc, stopping, tick, history>>

(* The session is closed: in-memory changes are dropped, locks released.   *)
EndTransaction(w) ==
    /\ batch' = [batch EXCEPT ![w] = {}]
    /\ todo' = [todo EXCEPT ![w] = {}]
    /\ sent' = [sent EXCEPT ![w] = {}]
    /\ bumped' = [bumped EXCEPT ![w] = {}]
    /\ poisoned' = [poisoned EXCEPT ![w] = {}]

-----------------------------------------------------------------------------
(* Lifecycle *)

Start(w) ==
    /\ pc[w] = "off"
    /\ pc' = [pc EXCEPT ![w] = "idle"]
    /\ stopping' = [stopping EXCEPT ![w] = FALSE]
    /\ UNCHANGED <<table, broker, tick, history>>

(* stop(): the task is told to finish its tick. *)
Stop(w) ==
    /\ pc[w] # "off"
    /\ stopping' = [stopping EXCEPT ![w] = TRUE]
    /\ UNCHANGED <<table, broker, pc, tick, history>>

(* _run_forever leaves its loop. *)
ExitLoop(w) ==
    /\ pc[w] = "idle" /\ stopping[w]
    /\ pc' = [pc EXCEPT ![w] = "off"]
    /\ UNCHANGED <<table, broker, stopping, tick, history>>

(* The task ends in mid-tick and the row in flight may reach the broker    *)
(* all the same.                                                           *)
AbortTick(w) ==
    /\ pc[w] = "tick"
    /\ pc' = [pc EXCEPT ![w] = "off"]
    /\ broker' \in {broker, broker \cup InFlight(w)}
    /\ EndTransaction(w)
    /\ UNCHANGED <<table, stopping, history>>

(* stop() ran out of patience and cancelled the task. *)
Cancel(w) == stopping[w] /\ AbortTick(w)

(* The process dies. *)
Crash(w) ==
    \/ ~stopping[w] /\ AbortTick(w)
    \/ /\ pc[w] = "idle"
       /\ pc' = [pc EXCEPT ![w] = "off"]
       /\ UNCHANGED <<table, broker, stopping, tick, history>>

-----------------------------------------------------------------------------
(* One tick. A claim that fails or finds nothing leaves the state alone.   *)

MayTickForever(w) == pc[w] = "idle"
MayTick(w) == pc[w] = "idle" /\ ~stopping[w]

ClaimBatch(w) ==
    /\ MayTick(w)
    /\ Claimable(w) # {}
    /\ pc' = [pc EXCEPT ![w] = "tick"]
    /\ batch' = [batch EXCEPT ![w] = Claimable(w)]
    /\ todo' = [todo EXCEPT ![w] = Claimable(w)]
    /\ UNCHANGED <<table, broker, stopping, sent, bumped, poisoned, history>>

(* The loop of _publish_batch reaches row r. *)
AtAnyRow(w, r) == pc[w] = "tick" /\ r \in todo[w]
AtRow(w, r) ==
    /\ pc[w] = "tick"
    /\ r \in FirstN(todo[w], 1)

Visit(w, r) ==
    /\ AtRow(w, r)
    /\ todo' = [todo EXCEPT ![w] = @ \ {r}]
    /\ UNCHANGED <<table, pc, stopping, batch>>

(* attempt_count has reached the limit: poison, without publishing. *)
SkipPoison(w, r) ==
    /\ Exhausted(r)
    /\ Visit(w, r)
    /\ poisoned' = [poisoned EXCEPT ![w] = @ \cup {r}]
    /\ UNCHANGED <<broker, sent, bumped, history>>

PublishAcked(w, r) ==
    /\ ~Exhausted(r)
    /\ Visit(w, r)
    /\ broker' = broker \cup {r}
    /\ sent' = [sent EXCEPT ![w] = @ \cup {r}]
    /\ UNCHANGED <<bumped, poisoned, history>>

(* InfrastructureError: the payload does not deserialize, or Kafka refused *)
(* the message.                                                            *)
PublishRejected(w, r) ==
    /\ ~Exhausted(r)
    /\ Visit(w, r)
    /\ bumped' = [bumped EXCEPT ![w] = @ \cup {r}]
    /\ poisoned' = [poisoned EXCEPT ![w] = @ \cup {r}]
    /\ rejected' = rejected \cup {r}
    /\ UNCHANGED <<broker, sent, unexpected>>

(* Any other exception: counted, the loop goes on. Where in the publish it *)
(* arose is unknown, so the message may have been appended.                *)
PublishUnexpected(w, r) ==
    /\ ~Exhausted(r)
    /\ Visit(w, r)
    /\ broker' \in {broker, broker \cup {r}}
    /\ bumped' = [bumped EXCEPT ![w] = @ \cup {r}]
    /\ unexpected' = unexpected \cup {r}
    /\ UNCHANGED <<sent, poisoned, rejected>>

(* BrokerUnavailableError: the batch is abandoned and rolled back. After a *)
(* timeout the message may have been appended.                             *)
PublishUnavailable(w, r) ==
    /\ ~Exhausted(r)
    /\ AtRow(w, r)
    /\ broker' \in {broker, broker \cup {r}}
    /\ pc' = [pc EXCEPT ![w] = "idle"]
    /\ EndTransaction(w)
    /\ UNCHANGED <<table, stopping, history>>

(* _mark_batch, its flush, and the commit. A commit that is applied but    *)
(* reported as failed has this effect too.                                 *)
CommitBatch(w) ==
    /\ pc[w] = "tick" /\ todo[w] = {}
    /\ processed' = processed \cup ToMark(w)
    /\ failed' = failed \cup poisoned[w]
    /\ attempts' = [r \in Rows |-> IF r \in bumped[w] THEN attempts[r] + 1
                                                      ELSE attempts[r]]
    /\ pc' = [pc EXCEPT ![w] = "idle"]
    /\ EndTransaction(w)
    /\ UNCHANGED <<inserted, broker, stopping, history>>

(* The flush or the commit fails with OperationalError: rolled back. *)
CommitFails(w) ==
    /\ pc[w] = "tick" /\ todo[w] = {}
    /\ pc' = [pc EXCEPT ![w] = "idle"]
    /\ EndTransaction(w)
    /\ UNCHANGED <<table, broker, stopping, history>>

-----------------------------------------------------------------------------
Init ==
    /\ inserted = {} /\ processed = {} /\ failed = {}
    /\ attempts = [r \in Rows |-> 0]
    /\ broker = {}
    /\ pc = [w \in Relays |-> "off"]
    /\ stopping = [w \in Relays |-> FALSE]
    /\ batch = [w \in Relays |-> {}]
    /\ todo = [w \in Relays |-> {}]
    /\ sent = [w \in Relays |-> {}]
    /\ bumped = [w \in Relays |-> {}]
    /\ poisoned = [w \in Relays |-> {}]
    /\ unexpected = {} /\ rejected = {}

Publish(w, r) ==
    \/ SkipPoison(w, r)
    \/ PublishAcked(w, r)
    \/ PublishRejected(w, r)
    \/ PublishUnexpected(w, r)
    \/ PublishUnavailable(w, r)

Tick(w) ==
    \/ ClaimBatch(w)
    \/ \E r \in Rows : Publish(w, r)
    \/ CommitBatch(w)
    \/ CommitFails(w)

Lifecycle(w) ==
    \/ Start(w)
    \/ Stop(w)
    \/ ExitLoop(w)
    \/ Cancel(w)
    \/ Crash(w)

Next ==
    \/ \E r \in Rows : Insert(r)
    \/ \E w \in Relays : Tick(w) \/ Lifecycle(w)

Spec == Init /\ [][Next]_vars

-----------------------------------------------------------------------------
(* Safety *)

RelayTypeOK ==
    /\ inserted \subseteq Rows /\ processed \subseteq Rows /\ failed \subseteq Rows
    /\ attempts \in [Rows -> 0 .. MaxAttempts]
    /\ broker \subseteq Rows
    /\ pc \in [Relays -> {"off", "idle", "tick"}]
    /\ stopping \in [Relays -> BOOLEAN]
    /\ batch \in [Relays -> SUBSET Rows]
    /\ todo \in [Relays -> SUBSET Rows]
    /\ sent \in [Relays -> SUBSET Rows]
    /\ bumped \in [Relays -> SUBSET Rows]
    /\ poisoned \in [Relays -> SUBSET Rows]
    /\ unexpected \subseteq Rows /\ rejected \subseteq Rows

(* Every row taken off the queue as processed is in the topic, except one *)
(* whose own publish once raised an unforeseen error: the only way        *)
(* _mark_batch, which counts rows instead of naming them, loses an event. *)
ProcessedIsExplained ==
    \A r \in processed : r \in broker \/ r \in unexpected

(* The relay gives up on a row (failed) only for a cause: Kafka or the     *)
(* deserializer refused it, or it used up its attempts; and never on a row *)
(* it has also taken off the queue as processed.                           *)
FailedIsExplained ==
    \A r \in failed :
        /\ r \notin processed
        /\ r \in rejected \/ attempts[r] = MaxAttempts

(* A row is never in the open batches of two relays, and a row in an open  *)
(* batch is still on the queue: no relay works from a stale claim.         *)
ClaimsAreExclusive ==
    \A w \in Relays :
        /\ batch[w] \subseteq Pending
        /\ \A v \in Relays \ {w} : batch[v] \cap batch[w] = {}

(* Once a row is settled nothing ever changes it again, whatever another   *)
(* relay with an older transaction commits afterwards.                     *)
SettledRowsAreFinal ==
    [][/\ processed \subseteq processed'
       /\ failed \subseteq failed'
       /\ (processed \cap failed') \cup (failed \cap processed') = {}
       /\ \A r \in processed \cup failed : attempts'[r] = attempts[r]]_vars

(* A tick that commits is not in vain: it takes exactly as many rows off   *)
(* the queue as the broker acknowledged in it, though _mark_batch is told  *)
(* how many and not which; and if it settles no row, not even a poisoned   *)
(* one, then it has counted an attempt for every row of its batch.         *)
CommitsMakeProgress ==
    [][\A w \in Relays : CommitBatch(w) =>
        /\ Cardinality(processed' \ processed) = Cardinality(sent[w])
        /\ \/ Cardinality(Pending') < Cardinality(Pending)
           \/ \A r \in batch[w] : attempts'[r] = attempts[r] + 1]_vars

(* A relay publishes the rows of its batch in the order of created_at: one *)
(* gets into the topic before an earlier one only if that one was refused, *)
(* raised or had used up its attempts, whatever broke off or is repeated.  *)
BatchIsSentInOrder ==
    [][\A w \in Relays : \A r \in (broker' \ broker) \cap batch[w] :
        \A q \in batch[w] : q < r => q \in broker \cup poisoned[w] \cup unexpected]_vars

(* The relays together keep the promise of an outbox: their crashes,       *)
(* batches, attempts and races are invisible to the writers and readers of *)
(* events.                                                                 *)
Promise == INSTANCE OutboxPromise WITH
    Events <- Rows, written <- inserted, topic <- broker, doubtful <- unexpected,
    delivered <- processed, abandoned <- failed

OutboxPromiseKept == Promise!Spec

(* What the docstring of _mark_batch and of OutboxEvent say: processed is  *)
(* set on the rows that were published.                                    *)
ProcessedWasPublished == processed \subseteq broker

-----------------------------------------------------------------------------
(* Liveness *)

(* _run_forever survives every error of a tick and goes round again, and a *)
(* publish is bounded by the request timeout. Nothing makes a stopped      *)
(* relay start again, so no fairness is assumed of Start.                  *)
Fairness ==
    \A w \in Relays : WF_vars(Tick(w)) /\ WF_vars(ExitLoop(w))

(* The faults of the environment: outages, lost commits, restarts. *)
Fault ==
    \E w \in Relays :
        \/ CommitFails(w) \/ Stop(w) \/ Cancel(w) \/ Crash(w)
        \/ \E r \in Rows : PublishUnavailable(w, r)

LiveSpec == Spec /\ Fairness

(* If outages, lost commits and restarts stop at some point and some relay *)
(* stays up, every event written to the outbox is eventually settled:      *)
(* marked processed or, after its attempts are used up, failed.            *)
EveryEventSettles ==
    <>[][~Fault]_vars /\ <>[](\E w \in Relays : pc[w] # "off") =>
        \A r \in Rows : (r \in inserted) ~> (r \in processed \cup failed)

(* stop() completes: the task ends, by itself or cancelled, even while     *)
(* ticks keep failing.                                                     *)
StopCompletes ==
    \A w \in Relays : stopping[w] ~> pc[w] = "off"
=============================================================================
