----------------------- MODULE WorkerLifecycleProofs -----------------------
(***************************************************************************)
(* Proofs about WorkerLifecycle, for every configuration.                  *)
(***************************************************************************)
EXTENDS WorkerLifecycle, TLAPS

(* The relay's task lives only between its start and the end of the wait   *)
(* for it, and all this time the producer is started. If it had to be      *)
(* cancelled, lifespan has ended at that point.                            *)
RelayInside ==
    /\ RelayRuns =>
        /\ producer = "started" /\ hasRelay
        /\ main \in {"start_consumer", "serving", "stop_relay", "join_relay"}
    /\ relay = "cancelled" => outcome = "raised"

(* Where lifespan is while the producer is not yet, or not quite, stopped. *)
ProducerInside ==
    /\ producer = "started" =>
        \/ main \in {"start_relay", "start_consumer", "serving", "stop_relay",
                     "join_relay", "stop_producer"}
        \/ relay = "cancelled"
    /\ producer = "closing" => main = "flush" \/ outcome = "swallowed"
    /\ main = "start_relay" => producer = "started"

(* A consumer nobody holds does not run, and the stop of one that somebody *)
(* holds closes its client and ends its task.                              *)
ConsumerInside ==
    /\ ~hasConsumer => ~ConsumerRuns /\ ~client
    /\ outcome = "clean" => ~ConsumerRuns /\ ~client
    /\ outcome = "raised" => relay = "cancelled" \/ (~ConsumerRuns /\ ~client)

(* The inductive invariant. *)
LifecycleInv == LifecycleTypeOK /\ RelayInside /\ ProducerInside /\ ConsumerInside

(* Every step of lifespan and of the workers keeps the invariant. *)
LEMMA LifecycleStep == LifecycleInv /\ [Next]_vars => LifecycleInv'
  <1> SUFFICES ASSUME LifecycleInv, [Next]_vars PROVE LifecycleInv'
    OBVIOUS
  <1> USE DEF LifecycleInv, LifecycleTypeOK, RelayInside, ProducerInside, ConsumerInside,
              RelayRuns, ConsumerRuns, relayVars, consumerVars
  <1>1. CASE Startup
    <2>1. CASE SkipRelay
      BY <2>1 DEF SkipRelay, Goto
    <2>2. CASE StartProducer
      BY <2>2 DEF StartProducer
    <2>3. CASE StartProducerFails
      BY <2>3 DEF StartProducerFails, Goto
    <2>4. CASE StartRelay
      BY <2>4 DEF StartRelay
    <2>5. CASE StartRelayFails
      BY <2>5 DEF StartRelayFails, Goto
    <2>6. CASE StartConsumer
      BY <2>6 DEF StartConsumer
    <2>7. CASE NoConsumer
      BY <2>7 DEF NoConsumer, Goto
    <2> QED BY <1>1, <2>1, <2>2, <2>3, <2>4, <2>5, <2>6, <2>7 DEF Startup
  <1>2. CASE Shutdown
    BY <1>2 DEF Shutdown, Goto
  <1>3. CASE Stopping
    <2>1. CASE NoRelayToStop
      BY <2>1 DEF NoRelayToStop, Goto
    <2>2. CASE StopRelay
      BY <2>2 DEF StopRelay, AfterRelayStop
    <2>3. CASE RelayJoined
      BY <2>3 DEF RelayJoined, Goto
    <2>4. CASE RelayJoinTimesOut
      BY <2>4 DEF RelayJoinTimesOut, End
    <2>5. CASE NoProducerToStop
      BY <2>5 DEF NoProducerToStop, Goto
    <2>6. CASE StopProducer
      BY <2>6 DEF StopProducer
    <2>7. CASE Flushed
      BY <2>7 DEF Flushed, AfterFlush
    <2>8. CASE FlushFails
      BY <2>8 DEF FlushFails, End
    <2>9. CASE NoConsumerToStop
      BY <2>9 DEF NoConsumerToStop, End
    <2>10. CASE StopConsumer
      BY <2>10 DEF StopConsumer
    <2>11. CASE ConsumerJoined
      BY <2>11 DEF ConsumerJoined, End
    <2>12. CASE ConsumerJoinTimesOut
      BY <2>12 DEF ConsumerJoinTimesOut, End
    <2> QED BY <1>3, <2>1, <2>2, <2>3, <2>4, <2>5, <2>6, <2>7, <2>8, <2>9, <2>10, <2>11, <2>12 DEF Stopping
  <1>4. CASE Workers
    BY <1>4 DEF Workers, TickBegins, TickEnds, RelayExits, RelayTo, Connected,
       ConnectFails, BatchBegins, BatchEnds, ConsumerExits, ConsumerTo
  <1>5. CASE UNCHANGED vars
    BY <1>5 DEF vars
  <1> QED BY <1>1, <1>2, <1>3, <1>4, <1>5 DEF Next

(* LifecycleInv holds in every reachable state. *)
THEOREM LifecycleInvariant == Spec => []LifecycleInv
  <1>1. Init => LifecycleInv
    BY DEF Init, LifecycleInv, LifecycleTypeOK, RelayInside, ProducerInside,
       ConsumerInside, RelayRuns, ConsumerRuns
  <1> QED BY <1>1, LifecycleStep, PTL DEF Spec

(* Types, and lifespan has an outcome exactly when it has ended. *)
THEOREM LifecycleTypeCorrect == Spec => []LifecycleTypeOK
  <1>1. LifecycleInv => LifecycleTypeOK
    BY DEF LifecycleInv
  <1> QED BY <1>1, LifecycleInvariant, PTL

(* No tick of the relay meets a producer that is being stopped. *)
THEOREM ProducerOutlivesRelay == Spec => []TicksUseALiveProducer
  <1>1. LifecycleInv => TicksUseALiveProducer
    BY DEF LifecycleInv, RelayInside, RelayRuns, TicksUseALiveProducer
  <1> QED BY <1>1, LifecycleInvariant, PTL

(* What is left running by a shutdown was left by a timeout of the relay   *)
(* or an error of the producer.                                            *)
THEOREM LeftoversExplained == Spec => []LeftoversHaveACause
  <1>1. LifecycleInv => LeftoversHaveACause
    BY DEF LifecycleInv, LifecycleTypeOK, RelayInside, ProducerInside, ConsumerInside,
       RelayRuns, LeftoversHaveACause
  <1> QED BY <1>1, LifecycleInvariant, PTL
=============================================================================
