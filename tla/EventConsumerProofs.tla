------------------------ MODULE EventConsumerProofs ------------------------
(***************************************************************************)
(* Proofs about EventConsumer, for any number of members, records and      *)
(* contents: a handler commits at most once per content while its key is   *)
(* guarded, and no event is passed over without a cause.                   *)
(***************************************************************************)
EXTENDS EventConsumer, TLAPS

-----------------------------------------------------------------------------
(* The inductive invariant *)

Handling(m, id) == pc[m] = "handler" /\ Id(m) = id

(* A content whose key was never off is handled by whoever recorded it:    *)
(* while that goes on, and after it has committed, the key is there.       *)
Guarded ==
    \A id \in Ids \ unguarded :
        /\ effects[id] \in {0, 1}
        /\ effects[id] = 1 => id \in seen
        /\ \A m \in Members : Handling(m, id) => id \in seen /\ effects[id] = 0
        /\ \A m, n \in Members : Handling(m, id) /\ Handling(n, id) => m = n

(* A recorded key accounts for its event. *)
SeenIsAccounted == \A id \in seen : Accounted(id)

(* So does a member's progress through its batch, and the owner's position *)
(* up to the rest of the batch.                                            *)
Progress(m) ==
    /\ upto[m] <= next[m]
    /\ \A o \in 1 .. next[m] - 1 : Passed(o)
    /\ owner = m =>
        \A o \in 1 .. position[m] - 1 :
            Passed(o) \/ o \in next[m] .. last[m]

ProgressIsAccounted == \A m \in Members : Progress(m)

ConsumerInv ==
    /\ ConsumerTypeOK
    /\ Guarded
    /\ SeenIsAccounted
    /\ ProgressIsAccounted
    /\ LossHasACause

-----------------------------------------------------------------------------
(* What _handle_message can do, in two forms *)

(* The record at hand goes to its handler: it was recorded just now, or    *)
(* the deduplication failed open.                                          *)
Enters(m) ==
    /\ pc[m] = "visit" /\ Kind[Id(m)] = "event"
    /\ pc' = [pc EXCEPT ![m] = "handler"]
    /\ UNCHANGED <<next, upto, effects, disturbed, tried, failed>>
    /\ \/ Id(m) \notin seen /\ seen' = seen \cup {Id(m)} /\ UNCHANGED unguarded
       \/ UNCHANGED seen /\ unguarded' = unguarded \cup {Id(m)}

(* The member is done with the record at hand, in one way or another. *)
Finishes(m) ==
    /\ pc[m] \in {"visit", "handler"}
    /\ pc' = [pc EXCEPT ![m] = "visit"]
    /\ next' = [next EXCEPT ![m] = next[m] + 1]
    /\ upto' \in {upto, [upto EXCEPT ![m] = next[m] + 1]}
    /\ seen' \in {seen, seen \cup {Id(m)}}
    /\ unguarded' \in {unguarded, unguarded \cup {Id(m)}}
    /\ disturbed' \in {disturbed, disturbed \cup {Id(m)}}
    /\ tried' = tried \cup {next[m]}
    /\ failed' \in {failed \ {next[m]}, failed \cup {next[m]}}
    /\ \/ effects' = effects
       \/ pc[m] = "handler" /\ effects' = [effects EXCEPT ![Id(m)] = @ + 1]
    /\ \/ Kind[Id(m)] # "event"
       \/ Id(m) \in disturbed'
       \/ pc[m] = "handler" /\ effects' = [effects EXCEPT ![Id(m)] = @ + 1]
       \/ pc[m] = "visit" /\ Id(m) \in seen /\ seen' = seen

InBatch(m) == next[m] \in 1 .. end /\ next[m] <= last[m] /\ Id(m) \in Ids

(* Every way through _handle_message has one of the two forms. *)
LEMMA MessageForms ==
    ASSUME ConsumerTypeOK, NEW m \in Members, HandleMessage(m)
    PROVE  /\ UNCHANGED <<end, committed, owner, position, last>>
           /\ InBatch(m)
           /\ Enters(m) \/ Finishes(m)
<1> USE ConsumerConstants DEF Offsets, Kinds
<1>1. pc[m] \in {"visit", "handler"} /\ next[m] <= last[m]
  BY DEF HandleMessage, SkipMalformed, RecordNew, SkipSeen, SkipOwnKey, DedupeUnavailable,
         DedupeRaises, HandlerCommits, HandlerRaises, Visiting, ConsumerTypeOK, InHand
<1>2. next[m] \in 1 .. end /\ end \in 0 .. NumRecords
  BY <1>1 DEF ConsumerTypeOK, MemberShape
<1>3. InBatch(m)
  BY <1>1, <1>2 DEF InBatch, Id
<1>4. Kind[Id(m)] \in Kinds
  BY <1>3 DEF InBatch
<1>5. UNCHANGED <<end, committed, owner, position, last>>
  BY DEF HandleMessage, SkipMalformed, RecordNew, SkipSeen, SkipOwnKey, DedupeUnavailable,
         DedupeRaises, HandlerCommits, HandlerRaises, Dispatch, FailOpen, Succeed, Raise, group
<1>6. CASE SkipMalformed(m)
  BY <1>3, <1>5, <1>6 DEF SkipMalformed, Visiting, Succeed, Finishes
<1>7. CASE RecordNew(m)
  BY <1>3, <1>4, <1>5, <1>7 DEF RecordNew, Visiting, Fresh, Dispatch, Succeed, Finishes, Enters
<1>8. CASE SkipSeen(m)
  BY <1>3, <1>5, <1>8 DEF SkipSeen, Visiting, Fresh, Succeed, Finishes
<1>9. CASE SkipOwnKey(m)
  BY <1>3, <1>5, <1>9 DEF SkipOwnKey, Visiting, Succeed, Finishes
<1>10. CASE DedupeUnavailable(m)
  BY <1>3, <1>4, <1>5, <1>10
     DEF DedupeUnavailable, Visiting, FailOpen, Dispatch, Succeed, Finishes, Enters
<1>11. CASE DedupeRaises(m)
  BY <1>3, <1>5, <1>11 DEF DedupeRaises, Visiting, Raise, Finishes
<1>12. CASE HandlerCommits(m)
  BY <1>3, <1>5, <1>12 DEF HandlerCommits, Succeed, Finishes
<1>13. CASE HandlerRaises(m)
  BY <1>3, <1>5, <1>13 DEF HandlerRaises, Raise, Finishes
<1> QED
  BY <1>6, <1>7, <1>8, <1>9, <1>10, <1>11, <1>12, <1>13 DEF HandleMessage

-----------------------------------------------------------------------------
(* Every other step of a member: it enters no handler, and a handler that  *)
(* it leaves is cut short.                                                 *)
StepsAside(m) ==
    /\ \A n \in Members \ {m} : pc'[n] = pc[n] /\ next'[n] = next[n]
    /\ pc'[m] # "handler"
    /\ pc[m] = "handler" => Id(m) \in disturbed'
    /\ disturbed \subseteq disturbed'
    /\ UNCHANGED <<seen, effects, unguarded>>

(* A step that moves no member through its batch. *)
NobodyMoves == UNCHANGED <<pc, next, seen, effects, unguarded, disturbed>>

Aside(m) ==
    \/ Start(m) \/ Connect(m) \/ ConnectFails(m) \/ Stop(m) \/ Poll(m)
    \/ CommitOffsets(m) \/ CommitNothing(m) \/ Crash(m)

(* The steps that handle no record share one shape, so the later lemmas need one case for them. *)
LEMMA AsideForm ==
    ASSUME ConsumerTypeOK, NEW m \in Members, Aside(m)
    PROVE  StepsAside(m)
<1> USE DEF StepsAside, ConsumerTypeOK, MemberShape, history, batch, group
<1>1. CASE Start(m)
  BY <1>1 DEF Start, Running
<1>2. CASE Connect(m)
  BY <1>2 DEF Connect
<1>3. CASE ConnectFails(m)
  BY <1>3 DEF ConnectFails
<1>4. CASE Stop(m)
  BY <1>4 DEF Stop, Leave, DropBatch
<1>5. CASE Poll(m)
  BY <1>5 DEF Poll
<1>6. CASE CommitOffsets(m)
  BY <1>6 DEF CommitOffsets, BatchDone, DropBatch
<1>7. CASE CommitNothing(m)
  BY <1>7 DEF CommitNothing, BatchDone, DropBatch
<1>8. CASE Crash(m)
  BY <1>8 DEF Crash, Leave, DropBatch
<1> QED
  BY <1>1, <1>2, <1>3, <1>4, <1>5, <1>6, <1>7, <1>8 DEF Aside

(* Every step is one of these, the handling of a message, the expiry of a  *)
(* key, or stuttering.                                                     *)
LEMMA StepForms ==
    ASSUME [Next]_vars
    PROVE  \/ NobodyMoves /\ (Publish \/ (\E m \in Members : Assign(m)) \/ UNCHANGED vars)
           \/ \E m \in Members : Aside(m)
           \/ \E m \in Members : HandleMessage(m)
           \/ \E id \in Ids : Expire(id)
  BY DEF Next, RunForever, Aside, NobodyMoves, Publish, Assign, vars, history, batch

(* No member, no record: ConsumerInv holds at the start. *)
LEMMA InitInv == Init => ConsumerInv
<1> SUFFICES ASSUME Init PROVE ConsumerInv
  OBVIOUS
<1>1. ConsumerTypeOK
  BY ConsumerConstants DEF Init, ConsumerTypeOK, MemberShape, HistoryShape, InHand
<1>2. Guarded
  BY DEF Init, Guarded, Handling
<1>3. SeenIsAccounted /\ LossHasACause
  BY DEF Init, SeenIsAccounted, LossHasACause
<1>4. ProgressIsAccounted
  <2> SUFFICES ASSUME NEW m \in Members
               PROVE  upto[m] <= next[m] /\ 1 .. next[m] - 1 = {} /\ owner # m
    BY DEF ProgressIsAccounted, Progress
  <2>1. upto[m] = 0 /\ next[m] = 1 /\ owner # m
    BY ConsumerConstants DEF Init
  <2> QED
    BY <2>1
<1> QED
  BY <1>1, <1>2, <1>3, <1>4 DEF ConsumerInv

-----------------------------------------------------------------------------
(* The steps *)

(* A content that is accounted for stays so. *)
LEMMA AccountedGrows ==
    ASSUME ConsumerTypeOK, [Next]_vars, NEW id \in Ids, Accounted(id)
    PROVE  Accounted(id)'
<1>1. CASE NobodyMoves
  BY <1>1 DEF NobodyMoves, Accounted, Id
<1>2. ASSUME NEW m \in Members, Aside(m) PROVE Accounted(id)'
  <2>1. StepsAside(m)
    BY <1>2, AsideForm
  <2> QED
    BY <2>1 DEF StepsAside, Accounted, Id
<1>3. ASSUME NEW m \in Members, HandleMessage(m) PROVE Accounted(id)'
  <2>1. InBatch(m) /\ (Enters(m) \/ Finishes(m))
    BY <1>3, MessageForms
  <2>2. CASE Enters(m)
    BY <2>2 DEF Enters, Accounted, Id, ConsumerTypeOK, MemberShape
  <2>3. CASE Finishes(m)
    BY <2>1, <2>3 DEF Finishes, InBatch, Accounted, Id, ConsumerTypeOK, MemberShape, HistoryShape
  <2> QED
    BY <2>1, <2>2, <2>3
<1>4. ASSUME NEW i \in Ids, Expire(i) PROVE Accounted(id)'
  BY <1>4 DEF Expire, Accounted, Id, batch
<1> QED
  BY <1>1, <1>2, <1>3, <1>4, StepForms

(* Every step keeps the types and the bounds on positions and offsets. *)
LEMMA TypeStep ==
    ASSUME ConsumerTypeOK, [Next]_vars
    PROVE  ConsumerTypeOK'
<1> USE ConsumerConstants DEF Offsets
<1>1. CASE Publish \/ UNCHANGED vars
  <2>1. end' \in 0 .. NumRecords /\ committed' \in 1 .. end' + 1
    BY <1>1 DEF ConsumerTypeOK, MemberShape, Publish, vars, group, batch, history
  <2>2. MemberShape'
    BY <1>1 DEF ConsumerTypeOK, MemberShape, Publish, vars, group, batch, history
  <2>3. HistoryShape'
    BY <1>1 DEF ConsumerTypeOK, HistoryShape, Publish, vars, group, batch, history
  <2>4. owner' \in Members \cup {None} /\ (owner' # None => pc'[owner'] \in {"poll", "visit", "handler"})
    BY <1>1 DEF ConsumerTypeOK, MemberShape, Publish, vars, group, batch, history
  <2>5. \A n \in Members : InHand(n)'
    BY <1>1 DEF ConsumerTypeOK, MemberShape, InHand, Id, Publish, vars, group, batch, history
  <2> QED
    BY <2>1, <2>2, <2>3, <2>4, <2>5 DEF ConsumerTypeOK
<1>2. ASSUME NEW m \in Members, Assign(m) PROVE ConsumerTypeOK'
  <2>1. end' \in 0 .. NumRecords /\ committed' \in 1 .. end' + 1
    BY <1>2 DEF ConsumerTypeOK, MemberShape, Assign, ResumeAt, history
  <2>2. MemberShape'
    BY <1>2 DEF ConsumerTypeOK, MemberShape, Assign, ResumeAt, history
  <2>3. HistoryShape'
    BY <1>2 DEF ConsumerTypeOK, HistoryShape, Assign, ResumeAt, history
  <2>4. owner' \in Members \cup {None} /\ (owner' # None => pc'[owner'] \in {"poll", "visit", "handler"})
    BY <1>2 DEF ConsumerTypeOK, MemberShape, Assign, ResumeAt, history
  <2>5. \A n \in Members : InHand(n)'
    BY <1>2 DEF ConsumerTypeOK, MemberShape, InHand, Id, Assign, ResumeAt, history
  <2> QED
    BY <2>1, <2>2, <2>3, <2>4, <2>5 DEF ConsumerTypeOK
<1>3. ASSUME NEW m \in Members, Start(m) \/ Connect(m) \/ ConnectFails(m) PROVE ConsumerTypeOK'
  <2>1. end' \in 0 .. NumRecords /\ committed' \in 1 .. end' + 1
    BY <1>3 DEF ConsumerTypeOK, MemberShape, Start, Running, Connect, ConnectFails, group,
        batch, history
  <2>2. MemberShape'
    BY <1>3 DEF ConsumerTypeOK, MemberShape, Start, Running, Connect, ConnectFails, group,
        batch, history
  <2>3. HistoryShape'
    BY <1>3 DEF ConsumerTypeOK, HistoryShape, Start, Running, Connect, ConnectFails, group,
        batch, history
  <2>4. owner' \in Members \cup {None} /\ (owner' # None => pc'[owner'] \in {"poll", "visit", "handler"})
    BY <1>3 DEF ConsumerTypeOK, MemberShape, Start, Running, Connect, ConnectFails, group,
        batch, history
  <2>5. \A n \in Members : InHand(n)'
    BY <1>3 DEF ConsumerTypeOK, MemberShape, InHand, Id, Start, Running, Connect, ConnectFails, group,
        batch, history
  <2> QED
    BY <2>1, <2>2, <2>3, <2>4, <2>5 DEF ConsumerTypeOK
<1>4. ASSUME NEW m \in Members, Poll(m) PROVE ConsumerTypeOK'
  <2>1. end' \in 0 .. NumRecords /\ committed' \in 1 .. end' + 1
    BY <1>4 DEF ConsumerTypeOK, MemberShape, Poll, group, history
  <2>2. MemberShape'
    BY <1>4 DEF ConsumerTypeOK, MemberShape, Poll, group, history
  <2>3. HistoryShape'
    BY <1>4 DEF ConsumerTypeOK, HistoryShape, Poll, group, history
  <2>4. owner' \in Members \cup {None} /\ (owner' # None => pc'[owner'] \in {"poll", "visit", "handler"})
    BY <1>4 DEF ConsumerTypeOK, MemberShape, Poll, group, history
  <2>5. \A n \in Members : InHand(n)'
    BY <1>4 DEF ConsumerTypeOK, MemberShape, InHand, Id, Poll, group, history
  <2> QED
    BY <2>1, <2>2, <2>3, <2>4, <2>5 DEF ConsumerTypeOK
<1>5. ASSUME NEW m \in Members, CommitOffsets(m) \/ CommitNothing(m) PROVE ConsumerTypeOK'
  <2>1. BatchDone(m) /\ committed' \in {committed, upto[m]} /\ (committed' = committed \/ upto[m] # 0)
    BY <1>5 DEF CommitOffsets, CommitNothing
  <2>2. end' \in 0 .. NumRecords /\ committed' \in 1 .. end' + 1
    BY <2>1 DEF ConsumerTypeOK, MemberShape, BatchDone
  <2>3. MemberShape' /\ \A n \in Members : InHand(n)'
    BY <2>1 DEF ConsumerTypeOK, MemberShape, InHand, Id, BatchDone, DropBatch
  <2>4. HistoryShape'
    BY <2>1 DEF ConsumerTypeOK, HistoryShape, BatchDone, history
  <2>5. owner' = owner /\ (owner # None => pc'[owner] \in {"poll", "visit", "handler"})
    BY <2>1 DEF ConsumerTypeOK, MemberShape, BatchDone, group
  <2> QED
    BY <2>2, <2>3, <2>4, <2>5 DEF ConsumerTypeOK
<1>6. ASSUME NEW m \in Members, Stop(m) \/ Crash(m) PROVE ConsumerTypeOK'
  <2>1. Leave(m)
    BY <1>6 DEF Stop, Crash
  <2>2. pc[m] = "handler" => Id(m) \in Ids
    BY DEF ConsumerTypeOK, MemberShape, InHand, Id
  <2>3. HistoryShape'
    BY <1>6, <2>2 DEF ConsumerTypeOK, HistoryShape, Stop, Crash, Leave, history
  <2>4. MemberShape' /\ \A n \in Members : InHand(n)'
    BY <2>1 DEF ConsumerTypeOK, MemberShape, InHand, Id, Leave, DropBatch
  <2>5. UNCHANGED <<end, committed>>
    BY <2>1 DEF Leave
  <2>6. owner' \in Members \cup {None} /\ (owner' # None => pc'[owner'] \in {"poll", "visit", "handler"})
    BY <2>1 DEF ConsumerTypeOK, MemberShape, Leave
  <2> QED
    BY <2>3, <2>4, <2>5, <2>6 DEF ConsumerTypeOK
<1>7. ASSUME NEW m \in Members, HandleMessage(m) PROVE ConsumerTypeOK'
  <2>1. UNCHANGED <<end, committed, owner, position, last>> /\ InBatch(m)
    BY <1>7, MessageForms
  <2>2. CASE Enters(m)
    <3>1. HistoryShape'
      BY <2>1, <2>2 DEF ConsumerTypeOK, HistoryShape, InBatch, Enters
    <3>2. MemberShape'
      BY <2>1, <2>2 DEF ConsumerTypeOK, MemberShape, InBatch, Enters
    <3>3. \A n \in Members : InHand(n)'
      BY <2>1, <2>2 DEF ConsumerTypeOK, MemberShape, InBatch, InHand, Id, Enters
    <3>4. owner # None => pc'[owner] \in {"poll", "visit", "handler"}
      BY <2>2 DEF ConsumerTypeOK, MemberShape, Enters
    <3> QED
      BY <2>1, <3>1, <3>2, <3>3, <3>4 DEF ConsumerTypeOK
  <2>3. CASE Finishes(m)
    <3>1. HistoryShape'
      <4>1. seen' \subseteq Ids /\ unguarded' \subseteq Ids /\ disturbed' \subseteq Ids
        BY <2>1, <2>3 DEF ConsumerTypeOK, HistoryShape, InBatch, Finishes
      <4>2. effects' \in [Ids -> Nat]
        BY <2>1, <2>3 DEF ConsumerTypeOK, HistoryShape, InBatch, Finishes
      <4>3. next[m] \in Offsets
        BY <2>1 DEF ConsumerTypeOK, InBatch
      <4>4. tried' \subseteq Offsets /\ failed' \subseteq Offsets
        BY <2>3, <4>3 DEF ConsumerTypeOK, HistoryShape, Finishes
      <4> QED
        BY <4>1, <4>2, <4>4 DEF HistoryShape
    <3>2. MemberShape'
      <4>1. next[m] + 1 \in 1 .. end' + 1
        BY <2>1 DEF ConsumerTypeOK, InBatch
      <4>2. pc' \in [Members -> {"down", "dead", "connect", "poll", "visit", "handler"}]
        BY <2>3 DEF ConsumerTypeOK, MemberShape, Finishes
      <4>3. next' \in [Members -> 1 .. end' + 1] /\ upto' \in [Members -> 0 .. end' + 1]
        BY <2>1, <2>3, <4>1 DEF ConsumerTypeOK, MemberShape, Finishes
      <4> QED
        BY <2>1, <4>2, <4>3 DEF ConsumerTypeOK, MemberShape
    <3>3. \A n \in Members : InHand(n)'
      BY <2>1, <2>3 DEF ConsumerTypeOK, MemberShape, InBatch, InHand, Id, Finishes
    <3>4. owner # None => pc'[owner] \in {"poll", "visit", "handler"}
      BY <2>3 DEF ConsumerTypeOK, MemberShape, Finishes
    <3> QED
      BY <2>1, <3>1, <3>2, <3>3, <3>4 DEF ConsumerTypeOK
  <2> QED
    BY <1>7, <2>2, <2>3, MessageForms
<1>8. ASSUME NEW id \in Ids, Expire(id) PROVE ConsumerTypeOK'
  BY <1>8 DEF ConsumerTypeOK, MemberShape, HistoryShape, InHand, Id, Expire, group, batch
<1> QED
  BY <1>1, <1>2, <1>3, <1>4, <1>5, <1>6, <1>7, <1>8, StepForms DEF Aside

(* Only the member that records a key enters the handler under it. *)
LEMMA GuardedStep ==
    ASSUME ConsumerTypeOK, Guarded, [Next]_vars
    PROVE  Guarded'
<1>1. CASE NobodyMoves
  BY <1>1 DEF NobodyMoves, Guarded, Handling, Id
<1>2. ASSUME NEW m \in Members, Aside(m) PROVE Guarded'
  <2>1. StepsAside(m)
    BY <1>2, AsideForm
  <2> QED
    BY <2>1 DEF StepsAside, Guarded, Handling, Id
<1>3. ASSUME NEW m \in Members, HandleMessage(m) PROVE Guarded'
  <2>1. InBatch(m) /\ (Enters(m) \/ Finishes(m))
    BY <1>3, MessageForms
  <2>2. CASE Enters(m)
    BY <2>1, <2>2 DEF Enters, InBatch, Guarded, Handling, Id, ConsumerTypeOK, MemberShape, HistoryShape
  <2>3. CASE Finishes(m)
    <3>1. \A n \in Members \ {m} : Id(n)' = Id(n) /\ pc'[n] = pc[n]
      BY <2>3 DEF Finishes, Id, ConsumerTypeOK, MemberShape
    <3>2. pc'[m] = "visit"
      BY <2>3 DEF Finishes, ConsumerTypeOK, MemberShape
    <3>3. \A n \in Members, id \in Ids : Handling(n, id)' => n # m /\ Handling(n, id)
      BY <3>1, <3>2 DEF Handling
    <3>4. CASE effects' = effects
      BY <2>3, <3>3, <3>4 DEF Finishes, Guarded
    <3>5. CASE pc[m] = "handler" /\ effects' = [effects EXCEPT ![Id(m)] = @ + 1]
      BY <2>1, <2>3, <3>3, <3>5 DEF Finishes, InBatch, Guarded, Handling, ConsumerTypeOK, HistoryShape
    <3> QED
      BY <2>3, <3>4, <3>5 DEF Finishes
  <2> QED
    BY <2>1, <2>2, <2>3
<1>4. ASSUME NEW i \in Ids, Expire(i) PROVE Guarded'
  BY <1>4 DEF Expire, Guarded, Handling, Id, batch
<1> QED
  BY <1>1, <1>2, <1>3, <1>4, StepForms

(* What _handle_message is done with is accounted for. *)
LEMMA FinishedIsAccounted ==
    ASSUME ConsumerTypeOK, SeenIsAccounted, [Next]_vars,
           NEW m \in Members, InBatch(m), Finishes(m), NEW id, id = Id(m)
    PROVE  Accounted(id)'
<1>1. id \in Ids
  BY DEF InBatch
<1>2. CASE Kind[id] # "event" \/ id \in disturbed'
  BY <1>2 DEF Accounted
<1>3. CASE effects' = [effects EXCEPT ![Id(m)] = @ + 1]
  BY <1>1, <1>3 DEF Accounted, ConsumerTypeOK, HistoryShape
<1>4. CASE id \in seen
  BY <1>1, <1>4, AccountedGrows DEF SeenIsAccounted
<1> QED
  BY <1>2, <1>3, <1>4 DEF Finishes

(* Whoever records a key handles the event or leaves a cause behind. *)
LEMMA SeenStep ==
    ASSUME ConsumerTypeOK, SeenIsAccounted, [Next]_vars
    PROVE  SeenIsAccounted'
<1> SUFFICES ASSUME NEW id \in seen' PROVE Accounted(id)'
  BY DEF SeenIsAccounted
<1>1. CASE id \in seen
  BY <1>1, AccountedGrows DEF SeenIsAccounted, ConsumerTypeOK, HistoryShape
<1>2. CASE id \notin seen
  <2>1. PICK m \in Members : HandleMessage(m)
    BY <1>2, AsideForm, StepForms DEF NobodyMoves, StepsAside, Expire
  <2>2. InBatch(m) /\ (Enters(m) \/ Finishes(m))
    BY <2>1, MessageForms
  <2>3. id = Id(m)
    BY <1>2, <2>2 DEF Enters, Finishes
  <2>4. CASE Enters(m)
    BY <2>3, <2>4 DEF Enters, Accounted, Id, ConsumerTypeOK, MemberShape
  <2> QED
    BY <2>2, <2>3, <2>4, FinishedIsAccounted
<1> QED
  BY <1>1, <1>2

(* Nobody forgets that a record was tried. *)
LEMMA TriedGrows ==
    ASSUME ConsumerTypeOK, [Next]_vars
    PROVE  tried \subseteq tried'
<1>1. ASSUME NEW m \in Members, HandleMessage(m) PROVE tried \subseteq tried'
  BY <1>1, MessageForms DEF Enters, Finishes
<1> QED
  BY <1>1 DEF Next, RunForever, Publish, Start, Assign, Connect, ConnectFails, Poll, CommitOffsets,
       CommitNothing, BatchDone, Stop, Crash, Expire, vars, history

(* A record that was passed stays so. *)
LEMMA RecordStaysPassed ==
    ASSUME ConsumerTypeOK, [Next]_vars, NEW o \in 1 .. end, Passed(o)
    PROVE  Passed(o)'
<1>1. Content[o] \in Ids
  BY ConsumerConstants DEF ConsumerTypeOK, Offsets
<1> QED
  BY <1>1, AccountedGrows, TriedGrows DEF Passed

(* The group's offset is taken from the progress of the owner. *)
LEMMA LossStep ==
    ASSUME ConsumerTypeOK, ProgressIsAccounted, LossHasACause, [Next]_vars
    PROVE  LossHasACause'
<1> SUFFICES ASSUME NEW o \in 1 .. committed' - 1 PROVE Passed(o)'
  BY DEF LossHasACause
<1>1. CASE committed' = committed
  <2>1. o \in 1 .. end /\ o \in 1 .. committed - 1
    BY <1>1 DEF ConsumerTypeOK
  <2> QED
    BY <2>1, RecordStaysPassed DEF LossHasACause
<1>2. CASE committed' # committed
  <2>1. PICK m \in Members : committed' = upto[m]
    BY <1>2 DEF Next, RunForever, Publish, Start, Assign, Connect, ConnectFails, Poll, HandleMessage,
         SkipMalformed, RecordNew, SkipSeen, SkipOwnKey, DedupeUnavailable, DedupeRaises,
         HandlerCommits, HandlerRaises, CommitOffsets, CommitNothing, Stop, Crash, Leave, Expire, vars
  <2>2. upto[m] <= next[m] /\ next[m] \in 1 .. end + 1 /\ upto[m] \in 0 .. end + 1 /\ end \in Nat
    BY DEF ProgressIsAccounted, Progress, ConsumerTypeOK, MemberShape
  <2>3. o \in 1 .. end /\ o \in 1 .. next[m] - 1
    BY <2>1, <2>2
  <2> QED
    BY <2>3, RecordStaysPassed DEF ProgressIsAccounted, Progress
<1> QED
  BY <1>1, <1>2

(* The member neither moves in the log nor is given the partition. *)
KeepsPlace(m) ==
    /\ next'[m] = next[m] /\ last'[m] = last[m]
    /\ upto'[m] = upto[m] /\ position'[m] = position[m]
    /\ owner' = m => owner = m

(* The steps that move a member in the log. *)
LEMMA PlaceForms ==
    ASSUME ConsumerTypeOK, [Next]_vars, NEW m \in Members
    PROVE  \/ KeepsPlace(m) \/ Assign(m) \/ Poll(m) \/ BatchDone(m)
           \/ Leave(m) /\ owner' # m
           \/ HandleMessage(m) /\ InBatch(m) /\ Finishes(m)
<1> USE DEF ConsumerTypeOK, MemberShape, KeepsPlace
<1>1. CASE Publish \/ (\E id \in Ids : Expire(id)) \/ UNCHANGED vars
  BY <1>1 DEF Publish, Expire, vars, group, batch
<1>2. ASSUME NEW n \in Members, Start(n) \/ Connect(n) \/ ConnectFails(n) PROVE KeepsPlace(m)
  BY <1>2 DEF Start, Connect, ConnectFails, group, batch
<1>3. ASSUME NEW n \in Members, Assign(n), n # m PROVE KeepsPlace(m)
  BY <1>3 DEF Assign
<1>4. ASSUME NEW n \in Members, Poll(n), n # m PROVE KeepsPlace(m)
  BY <1>4 DEF Poll, group
<1>5. ASSUME NEW n \in Members, CommitOffsets(n) \/ CommitNothing(n)
      PROVE  BatchDone(n) /\ (n # m => KeepsPlace(m))
  BY <1>5 DEF CommitOffsets, CommitNothing, BatchDone, DropBatch, group
<1>6. ASSUME NEW n \in Members, Stop(n) \/ Crash(n)
      PROVE  Leave(n) /\ owner' # n /\ (n # m => KeepsPlace(m))
  BY <1>6, ConsumerConstants DEF Stop, Crash, Leave, DropBatch
<1>7. ASSUME NEW n \in Members, HandleMessage(n)
      PROVE  KeepsPlace(m) \/ (n = m /\ InBatch(n) /\ Finishes(n))
  <2>1. UNCHANGED <<owner, position, last>> /\ InBatch(n) /\ (Enters(n) \/ Finishes(n))
    BY <1>7, MessageForms
  <2> QED
    BY <2>1 DEF Enters, Finishes
<1> QED
  BY <1>1, <1>2, <1>3, <1>4, <1>5, <1>6, <1>7 DEF Next, RunForever

(* Every record a member has passed is accounted for, whatever step is taken. *)
LEMMA ProgressStep ==
    ASSUME ConsumerTypeOK, SeenIsAccounted, ProgressIsAccounted, LossHasACause, [Next]_vars
    PROVE  ProgressIsAccounted'
<1> SUFFICES ASSUME NEW m \in Members PROVE Progress(m)'
  BY DEF ProgressIsAccounted
<1>1. /\ end \in Nat /\ next[m] \in 1 .. end + 1 /\ last[m] \in 0 .. end
      /\ position[m] \in 1 .. end + 1 /\ committed \in 1 .. end + 1
      /\ upto[m] \in 0 .. end + 1
  BY DEF ConsumerTypeOK, MemberShape
<1>2. \A o \in 1 .. end : Passed(o) => Passed(o)'
  BY RecordStaysPassed
<1>3. Progress(m)
  BY DEF ProgressIsAccounted
<1>4. \A o \in 1 .. next[m] - 1 : Passed(o)'
  BY <1>1, <1>2, <1>3 DEF Progress
<1>5. next[m] > last[m] /\ owner = m => \A o \in 1 .. position[m] - 1 : Passed(o)'
  BY <1>1, <1>2, <1>3 DEF Progress
<1>6. CASE KeepsPlace(m)
  BY <1>1, <1>2, <1>3, <1>4, <1>6 DEF KeepsPlace, Progress
<1>7. CASE Assign(m)
  <2>1. next'[m] = next[m] /\ upto'[m] = upto[m] /\ position'[m] = committed
    BY <1>7 DEF Assign, ResumeAt, ConsumerTypeOK, MemberShape
  <2>2. \A o \in 1 .. committed - 1 : Passed(o)'
    BY <1>1, <1>2 DEF LossHasACause
  <2> QED
    BY <1>3, <1>4, <2>1, <2>2 DEF Progress
<1>8. CASE Poll(m)
  <2>1. PICK o \in position[m] .. end :
          next'[m] = position[m] /\ last'[m] = o /\ position'[m] = o + 1 /\ upto'[m] = 0
    BY <1>8 DEF Poll, ConsumerTypeOK, MemberShape
  <2>2. next[m] > last[m] /\ owner = m
    BY <1>1, <1>8 DEF Poll, ConsumerTypeOK, InHand
  <2> QED
    BY <1>1, <1>5, <2>1, <2>2 DEF Progress
<1>9. CASE BatchDone(m)
  <2>1. next'[m] = 1 /\ upto'[m] = 0 /\ position'[m] = position[m] /\ owner' = owner
    BY <1>9 DEF BatchDone, DropBatch, group, ConsumerTypeOK, MemberShape
  <2>2. next[m] > last[m]
    BY <1>9 DEF BatchDone
  <2> QED
    BY <1>5, <2>1, <2>2 DEF Progress
<1>10. CASE Leave(m) /\ owner' # m
  <2>1. next'[m] = 1 /\ upto'[m] = 0
    BY <1>10 DEF Leave, DropBatch, ConsumerTypeOK, MemberShape
  <2> QED
    BY <1>10, <2>1 DEF Progress
<1>11. CASE HandleMessage(m) /\ InBatch(m) /\ Finishes(m)
  <2>1. position' = position /\ last' = last /\ owner' = owner
    BY <1>11, MessageForms
  <2>2. next'[m] = next[m] + 1 /\ upto'[m] \in {upto[m], next[m] + 1}
    BY <1>11 DEF Finishes, ConsumerTypeOK, MemberShape
  <2>3. ASSUME NEW o, o = next[m] PROVE Passed(o)'
    <3>1. o \in tried'
      BY <1>11, <2>3 DEF Finishes
    <3> QED
      BY <1>11, <2>3, <3>1, FinishedIsAccounted DEF Id, Passed
  <2>4. upto'[m] <= next'[m]
    BY <1>1, <1>3, <2>2 DEF Progress
  <2>5. \A o \in 1 .. next'[m] - 1 : Passed(o)'
    BY <1>1, <1>4, <2>2, <2>3
  <2>6. ASSUME owner = m, NEW o \in 1 .. position[m] - 1
        PROVE  Passed(o)' \/ o \in next'[m] .. last'[m]
    BY <1>1, <1>2, <1>3, <2>1, <2>2, <2>3, <2>6 DEF Progress
  <2> QED
    BY <2>1, <2>4, <2>5, <2>6 DEF Progress
<1> QED
  BY <1>6, <1>7, <1>8, <1>9, <1>10, <1>11, PlaceForms

-----------------------------------------------------------------------------
(* Together the five parts are an invariant of the consumer group. *)
THEOREM ConsumerInvariant == Spec => []ConsumerInv
<1>1. Init => ConsumerInv
  BY InitInv
<1>2. ConsumerInv /\ [Next]_vars => ConsumerInv'
  BY TypeStep, GuardedStep, SeenStep, ProgressStep, LossStep DEF ConsumerInv
<1> QED
  BY <1>1, <1>2, PTL DEF Spec

(* KafkaConsumer's state keeps its types and shape: a member never commits *)
(* past the end of the log, and has only fetched records in hand.          *)
THEOREM ConsumerTypeCorrect == Spec => []ConsumerTypeOK
<1>1. ConsumerInv => ConsumerTypeOK
  BY DEF ConsumerInv
<1> QED
  BY <1>1, ConsumerInvariant, PTL

(* RedisDedupe makes the handlers' effects single: whatever crashes,       *)
(* rebalances, redeliveries and republications happen, no handler commits  *)
(* twice for a content whose key never failed open nor expired.            *)
THEOREM HandledOnce == Spec => []HandledAtMostOnce
<1>1. ConsumerInv => HandledAtMostOnce
  BY DEF ConsumerInv, Guarded, HandledAtMostOnce
<1> QED
  BY <1>1, ConsumerInvariant, PTL

(* The offsets _poll_and_dispatch commits pass over no record that nobody  *)
(* was done with, and over no event that was not handled, is not being     *)
(* handled, and was not cut short by an error.                             *)
THEOREM LossExplained == Spec => []LossHasACause
<1>1. ConsumerInv => LossHasACause
  BY DEF ConsumerInv
<1> QED
  BY <1>1, ConsumerInvariant, PTL
=============================================================================
