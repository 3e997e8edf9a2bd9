-------------------------- MODULE MCEventConsumer --------------------------
(* Two members; the relay publishes the first event again in second place. *)
EXTENDS EventConsumer, TLC

CONSTANTS m1, m2, idA, idB, idC, idD

MemberSet == {m1, m2}
IdSet == {idA, idB, idC, idD}
KindOf == idA :> "event" @@ idB :> "event" @@ idC :> "unhandled" @@ idD :> "malformed"

(* Two events, the first of them twice. *)
TwoEvents == 1 :> idA @@ 2 :> idA @@ 3 :> idB

(* All kinds of records. *)
MixedRecords == 1 :> idD @@ 2 :> idA @@ 3 :> idC
=============================================================================
