---------------------------- MODULE EventConsumer ----------------------------
(***************************************************************************)
(* KafkaConsumer (src/core/consumer.py) with its RedisDedupe               *)
(* (src/core/dedupe.py): the members of one consumer group read one        *)
(* partition, record each event's content hash in Redis, run its handler   *)
(* in a database session and commit offsets by hand.                       *)
(*                                                                         *)
(* Kafka, Redis and PostgreSQL are external. The group coordinator may     *)
(* move the partition while a member is still working on a batch; a client *)
(* that is no longer assigned the partition cannot commit its offset. The  *)
(* Redis client repeats a SET whose reply was lost, and then reads "not    *)
(* set" for a key that it has just set itself.                             *)
(***************************************************************************)
EXTENDS Naturals

CONSTANTS
    Members,       \* consumer tasks of the group, one per process
    NumRecords,    \* records the partition will ever hold
    Ids,           \* content hashes
    Content,       \* per record: its content hash
    Kind,          \* per content: what _handle_message makes of it
    BatchSize,     \* max_records of getmany
    MaxStarts,     \* bound: starts and restarts of the members, together
    MaxRebalances, \* bound: times a live owner loses the partition
    None           \* the partition is assigned to nobody

Offsets == 1 .. NumRecords

(* An event with a handler, one without, a tombstone or malformed record. *)
Kinds == {"event", "unhandled", "malformed"}

ASSUME ConsumerConstants ==
    /\ NumRecords \in Nat
    /\ Content \in [Offsets -> Ids]
    /\ Kind \in [Ids -> Kinds]
    /\ BatchSize \in Nat \ {0}
    /\ MaxStarts \in Nat
    /\ MaxRebalances \in Nat
    /\ None \notin Members

VARIABLES
    end,         \* records in the partition
    committed,   \* the group's offset: the next record to read
    owner,       \* the member the partition is assigned to
    pc,          \* per member: where its task is
    position,    \* per member: next record its client fetches
    next, last,  \* per member: the records of the batch still to handle
    upto,        \* per member: committed_offsets of the batch, 0 if empty
    seen,        \* content hashes recorded in Redis
    starts, rebalances,  \* how much of the two bounds is used
    effects,     \* history: per content, handler sessions that committed
    tried,       \* history: records some member was done with, in whatever way
    failed,      \* history: records whose last handling raised
    unguarded,   \* history: contents let through without, or after, their key
    disturbed    \* history: contents whose handling an error or crash cut short

group   == <<owner, starts, rebalances>>
batch   == <<position, next, last, upto>>
history == <<effects, tried, failed, unguarded, disturbed>>
vars    == <<end, committed, group, pc, batch, seen, history>>

-----------------------------------------------------------------------------
(* Kafka and the life of a member *)

(* The relay publishes the next record. *)
Publish ==
    /\ end < NumRecords
    /\ end' = end + 1
    /\ UNCHANGED <<committed, group, pc, batch, seen, history>>

Running(m) == pc[m] \notin {"down", "dead"}

(* A process starts; a task that has died stays dead until then. *)
Start(m) ==
    /\ ~Running(m) /\ starts < MaxStarts
    /\ starts' = starts + 1
    /\ pc' = [pc EXCEPT ![m] = "connect"]
    /\ UNCHANGED <<end, committed, owner, rebalances, batch, seen, history>>

Connect(m) ==
    /\ pc[m] = "connect"
    /\ pc' = [pc EXCEPT ![m] = "poll"]
    /\ UNCHANGED <<end, committed, group, batch, seen, history>>

(* _connect raises outside the loop's try: nobody starts the task again. *)
ConnectFails(m) ==
    /\ pc[m] = "connect"
    /\ pc' = [pc EXCEPT ![m] = "dead"]
    /\ UNCHANGED <<end, committed, group, batch, seen, history>>

(* Where a member that is given the partition begins to read: at the       *)
(* committed offset, at the earliest record when there is none.            *)
ResumeAt == committed

Assign(m) ==
    /\ pc[m] \notin {"down", "dead", "connect"} /\ owner # m
    /\ \/ owner = None /\ UNCHANGED rebalances
       \/ /\ owner # None /\ rebalances < MaxRebalances
          /\ rebalances' = rebalances + 1
    /\ owner' = m
    /\ position' = [position EXCEPT ![m] = ResumeAt]
    /\ UNCHANGED <<end, committed, pc, next, last, upto, starts, seen, history>>

(* The member has no batch in hand. *)
DropBatch(m) ==
    /\ next' = [next EXCEPT ![m] = 1]
    /\ last' = [last EXCEPT ![m] = 0]
    /\ upto' = [upto EXCEPT ![m] = 0]

(* The task ends and its client leaves the group. *)
Leave(m) ==
    /\ pc' = [pc EXCEPT ![m] = "down"]
    /\ DropBatch(m)
    /\ owner' = IF owner = m THEN None ELSE owner
    /\ UNCHANGED <<end, committed, position, starts, rebalances, seen>>

(* stop: the loop sees _stop_event between two batches. *)
Stop(m) ==
    /\ pc[m] = "poll"
    /\ Leave(m)
    /\ UNCHANGED history

Poll(m) ==
    /\ pc[m] = "poll" /\ owner = m
    /\ \E o \in position[m] .. end :
        /\ o < position[m] + BatchSize
        /\ next' = [next EXCEPT ![m] = position[m]]
        /\ last' = [last EXCEPT ![m] = o]
        /\ position' = [position EXCEPT ![m] = o + 1]
    /\ upto' = [upto EXCEPT ![m] = 0]
    /\ pc' = [pc EXCEPT ![m] = "visit"]
    /\ UNCHANGED <<end, committed, group, seen, history>>

-----------------------------------------------------------------------------
(* _handle_message for the record at hand *)

Id(m) == Content[next[m]]

Visiting(m) == pc[m] = "visit" /\ next[m] <= last[m]

(* _handle_message returns: the record counts for the offset to commit. *)
SucceedTooFar(m) ==
    /\ upto' = [upto EXCEPT ![m] = next[m] + 2]
    /\ next' = [next EXCEPT ![m] = @ + 1]
    /\ pc' = [pc EXCEPT ![m] = "visit"]
    /\ tried' = tried \cup {next[m]}
    /\ failed' = failed \ {next[m]}
    /\ UNCHANGED last
Succeed(m) ==
    /\ upto' = [upto EXCEPT ![m] = next[m] + 1]
    /\ next' = [next EXCEPT ![m] = @ + 1]
    /\ pc' = [pc EXCEPT ![m] = "visit"]
    /\ tried' = tried \cup {next[m]}
    /\ failed' = failed \ {next[m]}
    /\ UNCHANGED last

(* It raises: the record is logged and the loop goes on with the next. *)
Raise(m) ==
    /\ next' = [next EXCEPT ![m] = @ + 1]
    /\ pc' = [pc EXCEPT ![m] = "visit"]
    /\ tried' = tried \cup {next[m]}
    /\ failed' = failed \cup {next[m]}
    /\ disturbed' = disturbed \cup {Id(m)}
    /\ UNCHANGED <<last, upto>>

SkipMalformedNever(m) ==
    /\ Visiting(m) /\ Kind[Id(m)] = "malformed"
    /\ UNCHANGED vars
SkipMalformed(m) ==
    /\ Visiting(m) /\ Kind[Id(m)] = "malformed"
    /\ Succeed(m)
    /\ UNCHANGED <<end, committed, group, position, seen, effects, unguarded, disturbed>>

(* Past the deduplication: into the handler, if the event has one. *)
Dispatch(m) ==
    \/ /\ Kind[Id(m)] = "event"
       /\ pc' = [pc EXCEPT ![m] = "handler"]
       /\ UNCHANGED <<next, last, upto, tried, failed>>
    \/ Kind[Id(m)] = "unhandled" /\ Succeed(m)

(* SET key NX: atomically test and record. *)
FreshUnchecked(id) == TRUE
Fresh(id) == id \notin seen

RecordNew(m) ==
    /\ Visiting(m) /\ Kind[Id(m)] # "malformed" /\ Fresh(Id(m))
    /\ seen' = seen \cup {Id(m)}
    /\ Dispatch(m)
    /\ UNCHANGED <<end, committed, group, position, effects, unguarded, disturbed>>

SkipSeen(m) ==
    /\ Visiting(m) /\ Kind[Id(m)] # "malformed" /\ ~Fresh(Id(m))
    /\ Succeed(m)
    /\ UNCHANGED <<end, committed, group, position, seen, effects, unguarded, disturbed>>

(* The repeated SET finds the key of the first: the event looks seen. *)
SkipOwnKey(m) ==
    /\ Visiting(m) /\ Kind[Id(m)] # "malformed" /\ Fresh(Id(m))
    /\ seen' = seen \cup {Id(m)}
    /\ Succeed(m)
    /\ disturbed' = disturbed \cup {Id(m)}
    /\ UNCHANGED <<end, committed, group, position, effects, unguarded>>

(* The breaker is open: the event is taken to be new, and not recorded. *)
FailClosed(m) == Succeed(m)
FailOpen(m) == Dispatch(m)

DedupeUnavailable(m) ==
    /\ Visiting(m) /\ Kind[Id(m)] # "malformed"
    /\ unguarded' = unguarded \cup {Id(m)}
    /\ FailOpen(m)
    /\ UNCHANGED <<end, committed, group, position, seen, effects, disturbed>>

(* Redis fails while the breaker is closed: its error is not caught, and   *)
(* the key may be there all the same.                                      *)
DedupeRaises(m) ==
    /\ Visiting(m) /\ Kind[Id(m)] # "malformed"
    /\ seen' \in {seen, seen \cup {Id(m)}}
    /\ Raise(m)
    /\ UNCHANGED <<end, committed, group, position, effects, unguarded>>

HandlerCommits(m) ==
    /\ pc[m] = "handler"
    /\ effects' = [effects EXCEPT ![Id(m)] = @ + 1]
    /\ Succeed(m)
    /\ UNCHANGED <<end, committed, group, position, seen, unguarded, disturbed>>

(* The handler raises and its session is rolled back, or the answer to the *)
(* session's COMMIT is lost after the database took it.                    *)
HandlerRaises(m) ==
    /\ pc[m] = "handler"
    /\ effects' \in {effects, [effects EXCEPT ![Id(m)] = @ + 1]}
    /\ Raise(m)
    /\ UNCHANGED <<end, committed, group, position, seen, unguarded>>

-----------------------------------------------------------------------------
(* The end of a batch *)

BatchDone(m) ==
    /\ pc[m] = "visit" /\ next[m] > last[m]
    /\ pc' = [pc EXCEPT ![m] = "poll"]
    /\ DropBatch(m)
    /\ UNCHANGED <<end, group, position, seen, history>>

CommitOffsets(m) ==
    /\ upto[m] # 0 /\ owner = m
    /\ committed' = upto[m]
    /\ BatchDone(m)

(* Nothing to commit, or the commit fails and is only logged. *)
CommitNothing(m) ==
    /\ BatchDone(m)
    /\ UNCHANGED committed

(* The process dies, or stop runs into its timeout and cancels the task:   *)
(* an open session is rolled back.                                         *)
Crash(m) ==
    /\ Running(m)
    /\ disturbed' = IF pc[m] = "handler" THEN disturbed \cup {Id(m)} ELSE disturbed
    /\ Leave(m)
    /\ UNCHANGED <<effects, tried, failed, unguarded>>

(* The key's time to live ends. *)
Expire(id) ==
    /\ id \in seen
    /\ seen' = seen \ {id}
    /\ unguarded' = unguarded \cup {id}
    /\ UNCHANGED <<end, committed, group, pc, batch, effects, tried, failed, disturbed>>

-----------------------------------------------------------------------------
Init ==
    /\ end = 0
    /\ committed = 1
    /\ owner = None
    /\ pc = [m \in Members |-> "down"]
    /\ position = [m \in Members |-> 1]
    /\ next = [m \in Members |-> 1]
    /\ last = [m \in Members |-> 0]
    /\ upto = [m \in Members |-> 0]
    /\ seen = {}
    /\ starts = 0
    /\ rebalances = 0
    /\ effects = [id \in Ids |-> 0]
    /\ tried = {}
    /\ failed = {}
    /\ unguarded = {}
    /\ disturbed = {}

HandleMessage(m) ==
    \/ SkipMalformed(m) \/ RecordNew(m) \/ SkipSeen(m) \/ SkipOwnKey(m)
    \/ DedupeUnavailable(m) \/ DedupeRaises(m)
    \/ HandlerCommits(m) \/ HandlerRaises(m)

RunForever(m) ==
    Connect(m) \/ ConnectFails(m) \/ Poll(m) \/ HandleMessage(m)
    \/ CommitOffsets(m) \/ CommitNothing(m)

Next ==
    \/ Publish
    \/ \E m \in Members :
        Start(m) \/ Assign(m) \/ RunForever(m) \/ Stop(m) \/ Crash(m)
    \/ \E id \in Ids : Expire(id)

Spec == Init /\ [][Next]_vars

(* A running task goes on, and the coordinator assigns a free partition.   *)
Fairness ==
    /\ \A m \in Members : WF_vars(RunForever(m))
    /\ WF_vars(owner = None /\ \E m \in Members : Assign(m))

LiveSpec == Spec /\ Fairness

-----------------------------------------------------------------------------
MemberShape ==
    /\ pc \in [Members -> {"down", "dead", "connect", "poll", "visit", "handler"}]
    /\ position \in [Members -> 1 .. end + 1]
    /\ next \in [Members -> 1 .. end + 1]
    /\ last \in [Members -> 0 .. end]
    /\ upto \in [Members -> 0 .. end + 1]

HistoryShape ==
    /\ seen \subseteq Ids /\ unguarded \subseteq Ids /\ disturbed \subseteq Ids
    /\ effects \in [Ids -> Nat]
    /\ tried \subseteq Offsets /\ failed \subseteq Offsets

InHand(m) ==
    /\ next[m] <= last[m] => pc[m] \in {"visit", "handler"}
    /\ pc[m] = "handler" => next[m] <= last[m] /\ Kind[Id(m)] = "event"

(* Types; a member never commits past the end of the log, what it has in   *)
(* hand was fetched, and the partition is assigned to a live member.       *)
ConsumerTypeOK ==
    /\ end \in 0 .. NumRecords
    /\ committed \in 1 .. end + 1
    /\ MemberShape
    /\ HistoryShape
    /\ owner \in Members \cup {None}
    /\ owner # None => pc[owner] \in {"poll", "visit", "handler"}
    /\ \A m \in Members : InHand(m)

(* Redelivery after crashes and rebalances, republication by the relay and *)
(* members that work on the same records at the same time never run a      *)
(* handler to its commit twice for one content, unless the deduplication   *)
(* failed open for it or its key expired.                                  *)
HandledAtMostOnce == \A id \in Ids : effects[id] > 1 => id \in unguarded

Accounted(id) ==
    Kind[id] = "event" =>
        \/ effects[id] > 0
        \/ \E m \in Members : pc[m] = "handler" /\ Id(m) = id
        \/ id \in disturbed

(* Some member was done with the record, and its event is accounted for.   *)
Passed(o) == o \in tried /\ Accounted(Content[o])

(* Nothing is skipped, and nothing is lost without a cause: every record   *)
(* the group's offset has passed went through _handle_message, and its     *)
(* event was handled, is being handled, or its handling was cut short by   *)
(* an error, a crash or a lost reply of Redis.                             *)
LossHasACause == \A o \in 1 .. committed - 1 : Passed(o)

(* As long as some member's task lives, every published record is sooner   *)
(* or later handled, or at least tried, whatever fails on the way.         *)
EveryRecordIsTried ==
    <>[](\E m \in Members : Running(m)) =>
        \A o \in Offsets : end >= o ~> o \in tried

(* What the comment in _poll_and_dispatch says of a record whose handling  *)
(* raised ("message will be redelivered"): the committed offset does not   *)
(* pass it.                                                                *)
FailedIsRedelivered == \A o \in failed : committed <= o
=============================================================================
