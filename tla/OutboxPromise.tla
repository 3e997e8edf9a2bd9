---------------------------- MODULE OutboxPromise ----------------------------
(***************************************************************************)
(* What the transactional outbox promises, without relays, batches, locks  *)
(* and retries: an event written with its business change is open until it *)
(* is settled once and for all; while it is open it may be put into the    *)
(* topic, any number of times; and it is settled as delivered only when it *)
(* is in the topic, or when a publish of its own once ended in an          *)
(* unforeseen error (doubtful), the one loss the relay admits.             *)
(***************************************************************************)
CONSTANT Events

VARIABLES written, topic, doubtful, delivered, abandoned

vars == <<written, topic, doubtful, delivered, abandoned>>

Open == written \ (delivered \cup abandoned)

Init ==
    /\ written = {} /\ topic = {} /\ doubtful = {}
    /\ delivered = {} /\ abandoned = {}

Write(e) ==
    /\ e \notin written
    /\ written' = written \cup {e}
    /\ UNCHANGED <<topic, doubtful, delivered, abandoned>>

(* An attempt to publish: the event may get into the topic, or its fate    *)
(* may be in doubt, or both.                                               *)
Attempt(e) ==
    /\ e \in Open
    /\ topic' \in {topic, topic \cup {e}}
    /\ doubtful' \in {doubtful, doubtful \cup {e}}
    /\ UNCHANGED <<written, delivered, abandoned>>

(* Some events are taken off the queue together. *)
Settle(D, A) ==
    /\ D \cap A = {}
    /\ D \subseteq topic \cup doubtful
    /\ delivered' = delivered \cup D
    /\ abandoned' = abandoned \cup A
    /\ UNCHANGED <<written, topic, doubtful>>

Next ==
    \/ \E e \in Events : Write(e) \/ Attempt(e)
    \/ \E D, A \in SUBSET Open : Settle(D, A)

Spec == Init /\ [][Next]_vars
=============================================================================
