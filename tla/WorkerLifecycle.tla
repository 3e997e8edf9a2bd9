--------------------------- MODULE WorkerLifecycle ---------------------------
(***************************************************************************)
(* The lifespan of the application (src/main.py): it starts the Kafka      *)
(* producer, the outbox relay and the order consumer, serves, and stops    *)
(* them again (start and stop of src/core/messaging.py,                    *)
(* src/workers/outbox_relay.py and src/core/consumer.py).  The lifespan    *)
(* runs concurrently with the two worker tasks.                            *)
(*                                                                         *)
(* asyncio is external.  wait_for ends a wait by cancelling the task it    *)
(* waits for and waiting until that has ended: mostly with CancelledError, *)
(* but a task in which the cancellation was turned into another error on   *)
(* its way goes round its loop, sees the stop event, and returns.          *)
(***************************************************************************)

VARIABLES
    config,       \* outbox_relay_enabled, kafka_consumer_enabled
    main,         \* where lifespan is
    outcome,      \* how lifespan ended: clean, an error swallowed, or raised
    producer,     \* the KafkaProducer: _started, and the stop in progress
    hasRelay,     \* the local variable relay is not None
    relay,        \* the relay's task
    relayStop,    \* the relay's _stop_event
    hasConsumer,  \* the local variable order_consumer is not None
    consumer,     \* the consumer's task
    consumerStop, \* the consumer's _stop_event
    client        \* the consumer's AIOKafkaConsumer is open

relayVars    == <<hasRelay, relay, relayStop>>
consumerVars == <<hasConsumer, consumer, consumerStop, client>>
vars         == <<config, main, outcome, producer, relayVars, consumerVars>>

RelayRuns    == relay \in {"idle", "tick"}
ConsumerRuns == consumer \in {"connecting", "polling", "handling"}

-----------------------------------------------------------------------------
(* Start-up *)

(* main moves on and touches no worker. *)
Goto(place) ==
    /\ main' = place
    /\ UNCHANGED <<config, outcome, producer, relayVars, consumerVars>>

SkipRelay ==
    /\ main = "start_producer" /\ ~config.relay
    /\ Goto("start_consumer")

StartProducer ==
    /\ main = "start_producer" /\ config.relay
    /\ producer' = "started"
    /\ main' = "start_relay"
    /\ UNCHANGED <<config, outcome, relayVars, consumerVars>>

(* Kafka cannot be reached: degraded, but the application starts. *)
StartProducerFailsFatally ==
    /\ main = "start_producer" /\ config.relay
    /\ main' = "ended"
    /\ outcome' = "raised"
    /\ UNCHANGED <<config, producer, relayVars, consumerVars>>
StartProducerFails ==
    /\ main = "start_producer" /\ config.relay
    /\ Goto("start_consumer")

StartRelay ==
    /\ main = "start_relay"
    /\ hasRelay' = TRUE /\ relay' = "idle" /\ relayStop' = FALSE
    /\ main' = "start_consumer"
    /\ UNCHANGED <<config, outcome, producer, consumerVars>>

(* The engine or the relay cannot be built: the producer stays started. *)
StartRelayFails ==
    /\ main = "start_relay"
    /\ Goto("start_consumer")

(* The task begins by creating its client. *)
StartConsumer ==
    /\ main = "start_consumer" /\ config.consumer
    /\ hasConsumer' = TRUE /\ consumer' = "connecting" /\ consumerStop' = FALSE
    /\ client' = TRUE
    /\ main' = "serving"
    /\ UNCHANGED <<config, outcome, producer, relayVars>>

(* Disabled, or the consumer cannot be built. *)
NoConsumer ==
    /\ main = "start_consumer"
    /\ Goto("serving")

-----------------------------------------------------------------------------
(* The workers *)

RelayTo(t) ==
    /\ relay' = t
    /\ UNCHANGED <<config, main, outcome, producer, hasRelay, relayStop, consumerVars>>

(* A tick claims rows and publishes them through the producer. *)
TickBegins == relay = "idle" /\ ~relayStop /\ RelayTo("tick")
TickEnds   == relay = "tick" /\ RelayTo("idle")
RelayExits == relay = "idle" /\ relayStop /\ RelayTo("done")

ConsumerTo(t) ==
    /\ consumer' = t
    /\ UNCHANGED <<config, main, outcome, producer, relayVars, hasConsumer, consumerStop,
                   client>>

Connected     == consumer = "connecting" /\ ConsumerTo("polling")
ConnectFails  == consumer = "connecting" /\ ConsumerTo("failed")
BatchBegins   == consumer = "polling" /\ ~consumerStop /\ ConsumerTo("handling")
BatchEnds     == consumer = "handling" /\ ConsumerTo("polling")
ConsumerExits == consumer = "polling" /\ consumerStop /\ ConsumerTo("done")

-----------------------------------------------------------------------------
(* Shutdown: the finally block of lifespan *)

Shutdown ==
    /\ main = "serving"
    /\ Goto("stop_relay")

End(how) ==
    /\ main' = "ended"
    /\ outcome' = how

NoRelayToStop ==
    /\ main = "stop_relay" /\ ~hasRelay
    /\ Goto("stop_producer")

(* relay.stop(): set the event and wait for the task. *)
AfterRelayStopNoWait == "stop_producer"
AfterRelayStop == "join_relay"

StopRelay ==
    /\ main = "stop_relay" /\ hasRelay
    /\ relayStop' = TRUE
    /\ main' = AfterRelayStop
    /\ UNCHANGED <<config, outcome, producer, hasRelay, relay, consumerVars>>

RelayJoined ==
    /\ main = "join_relay" /\ ~RelayRuns
    /\ Goto("stop_producer")

(* The wait times out and the task is cancelled. The second await of the   *)
(* task raises CancelledError, which _Suppress(Exception) lets through and *)
(* no handler of lifespan catches.                                         *)
RelayJoinTimesOutNever == FALSE /\ UNCHANGED vars
RelayJoinGivesUp ==
    /\ main = "join_relay" /\ RelayRuns
    /\ Goto("stop_producer")
RelayJoinTimesOut ==
    /\ main = "join_relay" /\ RelayRuns
    /\ \/ relay' = "cancelled" /\ End("raised")
       \/ relay' = "done" /\ main' = "stop_producer" /\ UNCHANGED outcome
    /\ UNCHANGED <<config, producer, hasRelay, relayStop, consumerVars>>

NoProducerToStop ==
    /\ main = "stop_producer" /\ producer # "started"
    /\ Goto("stop_consumer")

(* producer.stop() begins to flush: it refuses no publish yet. *)
StopProducer ==
    /\ main = "stop_producer" /\ producer = "started"
    /\ producer' = "closing"
    /\ main' = "flush"
    /\ UNCHANGED <<config, outcome, relayVars, consumerVars>>

AfterFlushDone == "ended"
AfterFlush == "stop_consumer"

Flushed ==
    /\ main = "flush"
    /\ producer' = "stopped"
    /\ main' = AfterFlush
    /\ UNCHANGED <<config, outcome, relayVars, consumerVars>>

(* flush() or the client's stop() raises: the bare except of lifespan      *)
(* swallows it, and what comes after it in the try is skipped.             *)
FlushFails ==
    /\ main = "flush"
    /\ producer' \in {"stopped", "closing"}
    /\ End("swallowed")
    /\ UNCHANGED <<config, relayVars, consumerVars>>

NoConsumerToStop ==
    /\ main = "stop_consumer" /\ ~hasConsumer
    /\ End("clean")
    /\ UNCHANGED <<config, producer, relayVars, consumerVars>>

StopConsumer ==
    /\ main = "stop_consumer" /\ hasConsumer
    /\ consumerStop' = TRUE
    /\ main' = "join_consumer"
    /\ UNCHANGED <<config, outcome, producer, relayVars, hasConsumer, consumer, client>>

(* The task has ended. Its client is closed in any case; the error of a    *)
(* task that could not connect is raised by the wait, and swallowed.       *)
ConsumerJoined ==
    /\ main = "join_consumer" /\ ~ConsumerRuns
    /\ client' = FALSE
    /\ End(IF consumer = "failed" THEN "swallowed" ELSE "clean")
    /\ UNCHANGED <<config, producer, relayVars, hasConsumer, consumer, consumerStop>>

(* As for the relay, but the finally of stop() closes the client. *)
ConsumerJoinTimesOut ==
    /\ main = "join_consumer" /\ ConsumerRuns
    /\ \/ consumer' = "cancelled" /\ End("raised")
       \/ consumer' = "done" /\ End("clean")
    /\ client' = FALSE
    /\ UNCHANGED <<config, producer, relayVars, hasConsumer, consumerStop>>

-----------------------------------------------------------------------------
Init ==
    /\ config \in [relay : BOOLEAN, consumer : BOOLEAN]
    /\ main = "start_producer" /\ outcome = "none"
    /\ producer = "off"
    /\ hasRelay = FALSE /\ relay = "none" /\ relayStop = FALSE
    /\ hasConsumer = FALSE /\ consumer = "none" /\ consumerStop = FALSE
    /\ client = FALSE

Startup ==
    \/ SkipRelay \/ StartProducer \/ StartProducerFails
    \/ StartRelay \/ StartRelayFails
    \/ StartConsumer \/ NoConsumer

Stopping ==
    \/ NoRelayToStop \/ StopRelay \/ RelayJoined \/ RelayJoinTimesOut
    \/ NoProducerToStop \/ StopProducer \/ Flushed \/ FlushFails
    \/ NoConsumerToStop \/ StopConsumer \/ ConsumerJoined \/ ConsumerJoinTimesOut

Workers ==
    \/ TickBegins \/ TickEnds \/ RelayExits
    \/ Connected \/ ConnectFails \/ BatchBegins \/ BatchEnds \/ ConsumerExits

Next == Startup \/ Shutdown \/ Stopping \/ Workers

Spec == Init /\ [][Next]_vars

(* lifespan goes on: connecting and waiting have timeouts, and the clean-  *)
(* up of a task that was cancelled and the producer's flush come to an     *)
(* end. Nothing is assumed of a worker that is not cancelled: a tick or a  *)
(* batch may hang.                                                         *)
LiveSpec == Spec /\ WF_vars(Startup) /\ WF_vars(Stopping)

-----------------------------------------------------------------------------
(* Types; and lifespan has an outcome exactly when it has ended. *)
LifecycleTypeOK ==
    /\ config \in [relay : BOOLEAN, consumer : BOOLEAN]
    /\ main \in {"start_producer", "start_relay", "start_consumer", "serving",
                 "stop_relay", "join_relay", "stop_producer", "flush",
                 "stop_consumer", "join_consumer", "ended"}
    /\ outcome \in {"none", "clean", "swallowed", "raised"}
    /\ (outcome = "none") <=> (main # "ended")
    /\ producer \in {"off", "started", "closing", "stopped"}
    /\ relay \in {"none", "idle", "tick", "done", "cancelled"}
    /\ consumer \in {"none", "connecting", "polling", "handling", "done", "failed",
                     "cancelled"}
    /\ hasRelay \in BOOLEAN /\ relayStop \in BOOLEAN
    /\ hasConsumer \in BOOLEAN /\ consumerStop \in BOOLEAN /\ client \in BOOLEAN

(* A tick never meets a producer that is closing: its publish would be     *)
(* refused with an error that poisons the row. The relay's task is over    *)
(* before the producer is touched, even when it had to be cancelled.       *)
TicksUseALiveProducer == relay = "tick" => producer = "started"

(* What a shutdown leaves behind has a cause. The relay's task never       *)
(* survives it; after a clean one nothing does; the consumer is left       *)
(* running only when an error was swallowed with the producer or raised by *)
(* the relay's timeout, and the producer is left started only in the       *)
(* latter case.                                                            *)
LeftoversHaveACause ==
    main = "ended" =>
        /\ ~RelayRuns
        /\ outcome = "clean" =>
            ~ConsumerRuns /\ ~client /\ producer \notin {"started", "closing"}
        /\ ConsumerRuns \/ client =>
            relay = "cancelled" \/ (outcome = "swallowed" /\ hasConsumer)
        /\ producer = "started" => relay = "cancelled"

(* Whatever cannot be reached, the application comes to serve. *)
ComesToServe == <>(main = "serving")

(* A shutdown that has begun ends, even if a tick or a batch hangs until   *)
(* it is cancelled.                                                        *)
ShutdownEnds == main = "stop_relay" ~> main = "ended"
=============================================================================
