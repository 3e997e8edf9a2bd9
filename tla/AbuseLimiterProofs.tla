------------------------- MODULE AbuseLimiterProofs -------------------------
(***************************************************************************)
(* Proofs about AbuseLimiter for any finite number of requests, any        *)
(* window, limits, times to live, retries and skew of the clocks.          *)
(***************************************************************************)
EXTENDS AbuseLimiter, FiniteSetTheorems, TLAPS

(* What dispatch knows of a request: only one that was checked has copies  *)
(* under way, and its timestamp is not ahead of Redis by more than Skew.   *)
RequestInv(r) ==
    /\ pc[r] \in {"new", "sent"} => reply[r] = "none"
    /\ pc[r] = "new" => ghosts[r] = 0
    /\ ghosts[r] > 0 => reply[r] # "bypassed"
    /\ ghosts[r] <= tries[r] + 1
    /\ pc[r] # "done" => ghosts[r] <= tries[r]
    /\ r \in Checked => now[r] <= time + Skew

(* The sorted set outlives every one of its members' windows. *)
SetOutlivesEntries == \A y \in entries : now[y] + Window + 1 <= rlExpire + Skew

(* A request that was let through is in the set as long as it matters.     *)
AdmittedIsKept ==
    \A y \in Requests :
        reply[y] = "ok" => y \in entries \/ now[y] + Window <= time + Skew

(* A blacklist key was set for a cause. *)
BlockIsEarned == blExpire > 0 => \E z \in Checked : MoreThan(Threshold, z)

(* The blacklist key is the one that the last block set. *)
BlockIsDated == blExpire = blSince + BlacklistTtl

(* The inductive invariant. *)
AbuseInv ==
    /\ AbuseTypeOK
    /\ \A r \in Requests : RequestInv(r)
    /\ entries \subseteq Checked
    /\ SetOutlivesEntries
    /\ AdmittedIsKept
    /\ BlockIsEarned
    /\ BlockIsDated
    /\ RateLimited
    /\ RefusalIsEarned

-----------------------------------------------------------------------------
(* A set of requests that is part of another has at most its size. *)
LEMMA CountMonotone ==
    ASSUME NEW T \in SUBSET Requests, NEW S \in SUBSET T
    PROVE  /\ Cardinality(S) \in Nat /\ Cardinality(T) \in Nat
           /\ Cardinality(S) <= Cardinality(T)
  BY AbuseConstants, FS_Subset, FS_CardinalityType

(* Once earned, a refusal stays earned: requests are only added, and their *)
(* timestamps are not touched.                                             *)
LEMMA MoreThanStable ==
    ASSUME NEW n \in Nat, NEW r \in Requests, MoreThan(n, r),
           Checked \subseteq Checked',
           \A y \in Checked \cup {r} : now'[y] = now[y]
    PROVE  MoreThan(n, r)'
  <1> DEFINE S == {y \in Checked : now[y] > now[r] - Window}
  <1>1. S \subseteq S' /\ S' \in SUBSET Requests
    BY DEF Checked
  <1>2. Cardinality(S) \in Nat /\ Cardinality(S') \in Nat /\ Cardinality(S) <= Cardinality(S')
    BY <1>1, CountMonotone
  <1>3. Cardinality(S) > n
    BY DEF MoreThan
  <1>4. Cardinality(S') > n
    BY <1>2, <1>3
  <1> QED BY <1>4 DEF MoreThan

(* The requests that the script counts for r were all checked since the    *)
(* window of r began, r included.                                          *)
LEMMA CountedAreChecked ==
    ASSUME AbuseInv, NEW r \in Checked
    PROVE  /\ Counted(r) \subseteq Checked
           /\ Cardinality(Counted(r)) \in Nat
           /\ \A n \in Nat : Cardinality(Counted(r)) > n => MoreThan(n, r)
  <1> DEFINE S == {y \in Checked : now[y] > now[r] - Window}
  <1>1. Counted(r) \subseteq S
    BY AbuseConstants DEF AbuseInv, AbuseTypeOK, Checked, Counted, Kept, Live
  <1>2. S \in SUBSET Requests
    BY DEF Checked
  <1>3. /\ Cardinality(Counted(r)) \in Nat /\ Cardinality(S) \in Nat
        /\ Cardinality(Counted(r)) <= Cardinality(S)
    BY <1>1, <1>2, CountMonotone
  <1> HIDE DEF S
  <1>4. \A n \in Nat : Cardinality(Counted(r)) > n => Cardinality(S) > n
    BY <1>3
  <1> QED BY <1>1, <1>3, <1>4 DEF S, MoreThan

(* One execution of the script, by whichever copy: what it drops no longer *)
(* matters, and what it answers is earned.                                 *)
LEMMA ScriptStep ==
    ASSUME AbuseInv, NEW r \in Checked, Script(r), UNCHANGED <<time, now>>
    PROVE  /\ entries' \subseteq Checked
           /\ rlExpire' \in 0 .. time + Window + 1
           /\ blExpire' \in 0 .. time + BlacklistTtl
           /\ blSince' \in -BlacklistTtl .. time /\ BlockIsDated'
           /\ SetOutlivesEntries'
           /\ \A y \in entries : y \in entries' \/ now[y] + Window <= time + Skew
           /\ blExpire' > 0 => \E z \in Checked : MoreThan(Threshold, z)
           /\ Status(r) = "ok" => r \in entries' /\ Cardinality(entries') <= RateMax
           /\ Status(r) = "rate_limited" => MoreThan(RateMax, r)
           /\ Status(r) = "just_blacklisted" => MoreThan(Threshold, r)
           /\ Status(r) = "already_blacklisted" =>
                   \E z \in Checked : MoreThan(Threshold, z)
           /\ Status(r) \in {"ok", "rate_limited", "just_blacklisted",
                             "already_blacklisted"}
  <1> USE AbuseConstants
  <1>0. /\ time \in Nat /\ r \in Requests /\ now[r] <= time + Skew
        /\ \A y \in Requests : now[y] \in Int
        /\ entries \subseteq Requests /\ rlExpire \in Nat /\ blExpire \in Nat
    BY DEF AbuseInv, AbuseTypeOK, RequestInv, Checked
  <1>1. CASE Blacklisted /\ UNCHANGED redis
    <2>1. \E z \in Checked : MoreThan(Threshold, z)
      BY <1>0, <1>1 DEF AbuseInv, BlockIsEarned, Blacklisted
    <2>2. Status(r) = "already_blacklisted"
      BY <1>1 DEF Status
    <2>3. SetOutlivesEntries'
      BY <1>1 DEF AbuseInv, SetOutlivesEntries, redis
    <2> QED BY <1>1, <2>1, <2>2, <2>3 DEF AbuseInv, AbuseTypeOK, BlockIsDated, redis
  <1>2. CASE ~Blacklisted /\ Record(r)
    <2> DEFINE n == Cardinality(Counted(r))
    <2>1. Counted(r) \subseteq Checked /\ n \in Nat
          /\ \A k \in Nat : n > k => MoreThan(k, r)
      BY CountedAreChecked
    <2>2. entries' = Counted(r) /\ rlExpire' = time + Window + 1
          /\ blExpire' = IF n > Threshold THEN time + BlacklistTtl ELSE blExpire
      BY <1>2 DEF Record
    <2>3. SetOutlivesEntries'
      <3>1. ASSUME NEW y \in Counted(r) PROVE now[y] <= time + Skew
        BY <1>0, <2>1, <3>1 DEF AbuseInv, RequestInv, Checked
      <3> QED BY <1>0, <2>1, <2>2, <3>1 DEF SetOutlivesEntries, Checked
    <2>4. ASSUME NEW y \in entries, y \notin entries'
          PROVE  now[y] + Window <= time + Skew
      <3>1. time >= rlExpire \/ now[y] <= now[r] - Window
        BY <1>0, <2>2, <2>4 DEF Counted, Kept, Live
      <3> QED BY <1>0, <3>1 DEF AbuseInv, SetOutlivesEntries
    <2>5. blExpire' > 0 => \E z \in Checked : MoreThan(Threshold, z)
      BY <1>0, <2>1, <2>2 DEF AbuseInv, BlockIsEarned
    <2>6. Status(r) = Verdict(n)
      BY <1>2 DEF Status
    <2>7. rlExpire' \in 0 .. time + Window + 1 /\ blExpire' \in 0 .. time + BlacklistTtl
      BY <1>0, <2>1, <2>2 DEF AbuseInv, AbuseTypeOK
    <2>7a. blSince' \in -BlacklistTtl .. time /\ BlockIsDated'
      <3>1. ~(time < blExpire) /\ blSince' = IF time < blExpire' THEN time ELSE blSince
        BY <1>2 DEF Record, NoteBlock, Blacklisted
      <3>2. blSince \in -BlacklistTtl .. time /\ blExpire = blSince + BlacklistTtl
        BY DEF AbuseInv, AbuseTypeOK, BlockIsDated
      <3>3. blExpire' = time + BlacklistTtl \/ blExpire' = blExpire
        BY <2>2
      <3> QED BY <1>0, <3>1, <3>2, <3>3 DEF BlockIsDated
    <2>8. r \in entries'
      BY <2>2 DEF Counted
    <2> HIDE DEF n
    <2>9. /\ Verdict(n) = "ok" => n <= RateMax
          /\ Verdict(n) = "rate_limited" => n > RateMax
          /\ Verdict(n) = "just_blacklisted" => n > Threshold
          /\ Verdict(n) \in {"ok", "rate_limited", "just_blacklisted"}
      BY <2>1 DEF Verdict
    <2>10. entries' \subseteq Checked /\ Cardinality(entries') = n
      BY <2>1, <2>2 DEF n
    <2> QED BY <2>1, <2>3, <2>4, <2>5, <2>6, <2>7, <2>7a, <2>8, <2>9, <2>10
  <1> QED BY <1>1, <1>2 DEF Script

(* The status a request has just got is justified by the state. *)
Justified(y, s) ==
    /\ s = "ok" => y \in entries' /\ Cardinality(entries') <= RateMax
    /\ s = "rate_limited" => y \in Checked /\ MoreThan(RateMax, y)
    /\ s = "just_blacklisted" => y \in Checked /\ MoreThan(Threshold, y)
    /\ s = "already_blacklisted" => \E z \in Checked : MoreThan(Threshold, z)

(* A step that forgets nothing that matters and answers nothing without a  *)
(* justification keeps the invariant.                                      *)
LEMMA PromisesKept ==
    ASSUME AbuseInv, AbuseTypeOK', \A r \in Requests : RequestInv(r)',
           entries' \subseteq Checked', SetOutlivesEntries', BlockIsDated',
           time <= time', Checked \subseteq Checked', \A y \in Checked : now'[y] = now[y],
           \A y \in entries : y \in entries' \/ now[y] + Window <= time' + Skew,
           blExpire' > 0 => \E z \in Checked : MoreThan(Threshold, z),
           \A y \in Requests : reply'[y] = reply[y] \/ Justified(y, reply'[y])
    PROVE  AbuseInv'
  <1> USE AbuseConstants
  <1>0. /\ time \in Nat /\ time' \in Nat
        /\ \A y \in Requests : now[y] \in Int /\ now'[y] \in Int
    BY DEF AbuseInv, AbuseTypeOK
  <1>1. \A y \in Requests : reply[y] = "ok" => y \in Checked
    BY DEF AbuseInv, RequestInv, Checked, AbuseTypeOK
  <1>2. AdmittedIsKept'
    <2> SUFFICES ASSUME NEW y \in Requests, reply'[y] = "ok", y \notin entries'
                 PROVE  now'[y] + Window <= time' + Skew
      BY DEF AdmittedIsKept
    <2>1. reply[y] = "ok"
      BY DEF Justified
    <2>2. y \in entries \/ now[y] + Window <= time + Skew
      BY <2>1 DEF AbuseInv, AdmittedIsKept
    <2> QED BY <1>0, <1>1, <2>1, <2>2
  <1>3. BlockIsEarned'
    <2> SUFFICES ASSUME NEW z \in Checked, MoreThan(Threshold, z)
                 PROVE  \E v \in Checked' : MoreThan(Threshold, v)'
      BY DEF BlockIsEarned
    <2> QED BY MoreThanStable DEF Checked
  <1>4. RateLimited'
    <2>1. CASE \E y \in Requests : reply'[y] = "ok" /\ reply[y] # "ok"
      <3>1. Cardinality(entries') <= RateMax
        BY <2>1 DEF Justified
      <3>2. Admitted' \subseteq entries' /\ entries' \in SUBSET Requests
        BY <1>0, <1>2 DEF Admitted, AdmittedIsKept, AbuseTypeOK
      <3> QED BY <3>1, <3>2, CountMonotone DEF RateLimited
    <2>2. CASE \A y \in Requests : reply'[y] = "ok" => reply[y] = "ok"
      <3>1. Admitted' \subseteq Admitted /\ Admitted \in SUBSET Requests
        BY <1>0, <1>1, <2>2 DEF Admitted
      <3>2. /\ Cardinality(Admitted') \in Nat /\ Cardinality(Admitted) \in Nat
            /\ Cardinality(Admitted') <= Cardinality(Admitted)
        BY <3>1, CountMonotone
      <3> QED BY <3>2 DEF AbuseInv, RateLimited
    <2> QED BY <2>1, <2>2
  <1>5. RefusalIsEarned'
    <2> SUFFICES ASSUME NEW r \in Requests
                 PROVE  /\ reply'[r] = "rate_limited" => MoreThan(RateMax, r)'
                        /\ reply'[r] = "just_blacklisted" => MoreThan(Threshold, r)'
                        /\ reply'[r] = "already_blacklisted" =>
                              \E z \in Checked' : MoreThan(Threshold, z)'
      BY DEF RefusalIsEarned
    <2>1. /\ reply'[r] = "rate_limited" => r \in Checked /\ MoreThan(RateMax, r)
          /\ reply'[r] = "just_blacklisted" => r \in Checked /\ MoreThan(Threshold, r)
          /\ reply'[r] = "already_blacklisted" => \E z \in Checked : MoreThan(Threshold, z)
      BY DEF AbuseInv, RefusalIsEarned, Justified, RequestInv, Checked, AbuseTypeOK
    <2> QED BY <2>1, MoreThanStable DEF Checked
  <1> QED BY <1>2, <1>3, <1>4, <1>5 DEF AbuseInv

(* A step during which one copy of the script runs for r. *)
LEMMA ScriptKeeps ==
    ASSUME AbuseInv, NEW r \in Checked, Script(r), UNCHANGED <<time, now>>,
           Checked \subseteq Checked',
           pc' \in [Requests -> {"new", "sent", "done"}],
           tries' \in [Requests -> 0 .. Retries],
           ghosts' \in [Requests -> 0 .. Retries + 1],
           reply' \in [Requests -> {"none", "ok", "rate_limited", "just_blacklisted",
                              "already_blacklisted", "bypassed", "error"}],
           \A y \in Requests : RequestInv(y)',
           \A y \in Requests :
              \/ reply'[y] = reply[y] \/ reply'[y] = "error"
              \/ y = r /\ reply'[y] = Status(r)
    PROVE  AbuseInv'
  <1>1. AbuseTypeOK'
    BY ScriptStep DEF AbuseInv, AbuseTypeOK, Checked
  <1>2. \A y \in Requests : reply'[y] = reply[y] \/ Justified(y, reply'[y])
    BY ScriptStep DEF Justified
  <1> QED BY <1>1, <1>2, ScriptStep, PromisesKept DEF AbuseInv, AbuseTypeOK

-----------------------------------------------------------------------------
(* Every step of a request, of a late copy of a script and of the clock keeps AbuseInv. *)
LEMMA AbuseStep == AbuseInv /\ [Next]_vars => AbuseInv'
  <1> SUFFICES ASSUME AbuseInv, [Next]_vars PROVE AbuseInv'
    OBVIOUS
  <1> USE AbuseConstants
  <1>0. /\ AbuseTypeOK /\ \A r \in Requests : RequestInv(r)
        /\ entries \subseteq Checked /\ SetOutlivesEntries
        /\ BlockIsDated
        /\ blExpire > 0 => \E z \in Checked : MoreThan(Threshold, z)
    BY DEF AbuseInv, BlockIsEarned
  <1>1. ASSUME NEW r \in Requests, Bypass(r) PROVE AbuseInv'
    <2>1. AbuseTypeOK'
      BY <1>0, <1>1 DEF Bypass, End, AbuseTypeOK, redis
    <2>1a. \A y \in Requests : RequestInv(y)'
      BY <1>0, <1>1 DEF Bypass, End, AbuseTypeOK, RequestInv, Checked
    <2>2. Checked \subseteq Checked'
      BY <1>0, <1>1 DEF Bypass, End, Checked, AbuseTypeOK
    <2>3. SetOutlivesEntries' /\ UNCHANGED <<time, now, redis>>
      BY <1>0, <1>1 DEF Bypass, SetOutlivesEntries, redis
    <2>4. \A y \in Requests : reply'[y] = reply[y] \/ Justified(y, reply'[y])
      BY <1>0, <1>1 DEF Bypass, End, Justified, AbuseTypeOK
    <2> QED BY <1>0, <2>1, <2>1a, <2>2, <2>3, <2>4, PromisesKept DEF redis, AbuseTypeOK, BlockIsDated
  <1>2. ASSUME NEW r \in Requests, Check(r) PROVE AbuseInv'
    <2>1. AbuseTypeOK' /\ \A y \in Requests : RequestInv(y)'
      BY <1>0, <1>2 DEF Check, AbuseTypeOK, RequestInv, Checked, redis
    <2>2. Checked \subseteq Checked' /\ r \notin Checked
      BY <1>0, <1>2 DEF Check, Checked, AbuseTypeOK
    <2>3. \A y \in Checked : now'[y] = now[y]
      BY <1>0, <1>2, <2>2 DEF Check, Checked, AbuseTypeOK
    <2>4. SetOutlivesEntries' /\ UNCHANGED <<time, reply, redis>>
      BY <1>0, <1>2, <2>3 DEF Check, SetOutlivesEntries, redis
    <2> QED BY <1>0, <2>1, <2>2, <2>3, <2>4, PromisesKept DEF redis, AbuseTypeOK, BlockIsDated
  <1>3. ASSUME NEW r \in Requests, Run(r) PROVE AbuseInv'
    <2>1. r \in Checked
      BY <1>0, <1>3 DEF Run, Checked, RequestInv
    <2>2. Status(r) \in {"ok", "rate_limited", "just_blacklisted", "already_blacklisted"}
      BY <1>3, <2>1, ScriptStep DEF Run
    <2>3. Checked \subseteq Checked'
      BY <1>0, <1>3, <2>2 DEF Run, End, Checked, AbuseTypeOK
    <2>4. \A y \in Requests : RequestInv(y)'
      BY <1>0, <1>3, <2>2 DEF Run, End, RequestInv, Checked, AbuseTypeOK
    <2>5. /\ pc' \in [Requests -> {"new", "sent", "done"}]
          /\ reply' \in [Requests -> {"none", "ok", "rate_limited", "just_blacklisted",
                              "already_blacklisted", "bypassed", "error"}]
          /\ tries' \in [Requests -> 0 .. Retries]
          /\ ghosts' \in [Requests -> 0 .. Retries + 1]
          /\ \A y \in Requests : reply'[y] = reply[y] \/ (y = r /\ reply'[y] = Status(r))
      BY <1>0, <1>3, <2>2 DEF Run, End, AbuseTypeOK
    <2> QED BY <1>3, <2>1, <2>3, <2>4, <2>5, ScriptKeeps DEF Run
  <1>4. ASSUME NEW r \in Requests, RunGhost(r) PROVE AbuseInv'
    <2>1. r \in Checked
      BY <1>0, <1>4 DEF RunGhost, Checked, RequestInv, AbuseTypeOK
    <2>2. Checked \subseteq Checked'
      BY <1>0, <1>4 DEF RunGhost, Checked
    <2>3. \A y \in Requests : RequestInv(y)'
      BY <1>0, <1>4 DEF RunGhost, RequestInv, Checked, AbuseTypeOK
    <2>4. /\ pc' = pc /\ reply' = reply /\ tries' = tries
          /\ ghosts' \in [Requests -> 0 .. Retries + 1]
      BY <1>0, <1>4 DEF RunGhost, AbuseTypeOK
    <2> QED BY <1>0, <1>4, <2>1, <2>2, <2>3, <2>4, ScriptKeeps DEF RunGhost, AbuseTypeOK
  <1>5. ASSUME NEW r \in Requests, Resend(r) \/ Fail(r) PROVE AbuseInv'
    <2>0. NoReply(r) /\ UNCHANGED <<time, now>>
      BY <1>5 DEF Resend, Fail
    <2>1. r \in Checked /\ reply[r] = "none"
      BY <1>0, <2>0 DEF NoReply, Checked, RequestInv
    <2>2. \A y \in Requests : reply'[y] = reply[y] \/ reply'[y] = "error"
      BY <1>0, <1>5 DEF Resend, Fail, End, AbuseTypeOK
    <2>3. Checked \subseteq Checked'
      BY <1>0, <1>5, <2>2 DEF Resend, Fail, End, Checked, AbuseTypeOK
    <2>4. /\ ghosts' \in [Requests -> 0 .. Retries + 1]
          /\ \A y \in Requests : ghosts'[y] = ghosts[y] \/ (y = r /\ ghosts'[y] = ghosts[y] + 1)
          /\ ghosts[r] <= tries[r] /\ tries[r] <= Retries
      BY <1>0, <2>0 DEF NoReply, AbuseTypeOK, RequestInv
    <2>5. /\ pc' \in [Requests -> {"new", "sent", "done"}]
          /\ tries' \in [Requests -> 0 .. Retries]
          /\ reply' \in [Requests -> {"none", "ok", "rate_limited", "just_blacklisted",
                              "already_blacklisted", "bypassed", "error"}]
      BY <1>0, <1>5 DEF Resend, Fail, End, MayRetry, AbuseTypeOK
    <2>6. \A y \in Requests : RequestInv(y)'
      <3>1. CASE Resend(r)
        BY <1>0, <2>0, <2>1, <2>4, <3>1 DEF Resend, NoReply, RequestInv, Checked, AbuseTypeOK
      <3>2. CASE Fail(r)
        BY <1>0, <2>0, <2>1, <2>4, <3>2 DEF Fail, NoReply, End, RequestInv, Checked, AbuseTypeOK
      <3> QED BY <1>5, <3>1, <3>2
    <2>7. CASE Script(r)
      BY <2>0, <2>1, <2>2, <2>3, <2>4, <2>5, <2>6, <2>7, ScriptKeeps
    <2>8. CASE UNCHANGED redis
      <3>1. AbuseTypeOK' /\ SetOutlivesEntries'
        BY <1>0, <2>0, <2>3, <2>4, <2>5, <2>8
           DEF AbuseTypeOK, SetOutlivesEntries, Checked, redis
      <3>2. \A y \in Requests : reply'[y] = reply[y] \/ Justified(y, reply'[y])
        BY <2>2 DEF Justified
      <3> QED BY <1>0, <2>0, <2>3, <2>6, <2>8, <3>1, <3>2, PromisesKept
              DEF redis, AbuseTypeOK, BlockIsDated
    <2> QED BY <2>0, <2>7, <2>8 DEF NoReply
  <1>6. CASE Tick
    <2>1. AbuseTypeOK' /\ \A y \in Requests : RequestInv(y)'
      BY <1>0, <1>6 DEF Tick, AbuseTypeOK, RequestInv, Checked, redis
    <2>2. Checked' = Checked /\ SetOutlivesEntries' /\ UNCHANGED <<now, reply, redis>>
      BY <1>0, <1>6 DEF Tick, Checked, SetOutlivesEntries, redis
    <2>3. time <= time'
      BY <1>0, <1>6 DEF Tick, AbuseTypeOK
    <2> QED BY <1>0, <2>1, <2>2, <2>3, PromisesKept DEF redis, BlockIsDated
  <1>7. CASE UNCHANGED vars
    <2>1. AbuseTypeOK' /\ \A y \in Requests : RequestInv(y)'
      BY <1>0, <1>7 DEF vars, redis, AbuseTypeOK, RequestInv, Checked
    <2>2. Checked' = Checked /\ SetOutlivesEntries' /\ UNCHANGED <<time, now, reply, redis>>
      BY <1>0, <1>7 DEF vars, Checked, SetOutlivesEntries, redis
    <2> QED BY <1>0, <2>1, <2>2, PromisesKept DEF redis, AbuseTypeOK, BlockIsDated
  <1> QED BY <1>1, <1>2, <1>3, <1>4, <1>5, <1>6, <1>7 DEF Next, Dispatch

(* AbuseInv holds in every reachable state. *)
THEOREM AbuseInvariant == Spec => []AbuseInv
  <1>1. Init => AbuseInv
    <2> SUFFICES ASSUME Init PROVE AbuseInv
      OBVIOUS
    <2> USE AbuseConstants DEF Init
    <2>1. AbuseTypeOK /\ \A r \in Requests : RequestInv(r)
      BY DEF AbuseTypeOK, RequestInv, Checked
    <2>2. /\ SetOutlivesEntries /\ AdmittedIsKept /\ BlockIsEarned /\ BlockIsDated
          /\ RefusalIsEarned
      BY DEF SetOutlivesEntries, AdmittedIsKept, BlockIsEarned, BlockIsDated,
             RefusalIsEarned
    <2>3. Admitted = {}
      BY DEF Admitted
    <2>4. RateLimited
      BY <2>3, FS_EmptySet DEF RateLimited
    <2> QED BY <2>1, <2>2, <2>4 DEF AbuseInv
  <1> QED BY <1>1, AbuseStep, PTL DEF Spec

(* Types, and copies of a script never outnumber its attempts. *)
THEOREM AbuseTypeCorrect == Spec => []AbuseTypeOK
  <1>1. AbuseInv => AbuseTypeOK
    BY DEF AbuseInv
  <1> QED BY <1>1, AbuseInvariant, PTL

(* In no window are more than RateMax requests let through, whatever       *)
(* copies of the script run late or twice.                                 *)
THEOREM LimitHolds == Spec => []RateLimited
  <1>1. AbuseInv => RateLimited
    BY DEF AbuseInv
  <1> QED BY <1>1, AbuseInvariant, PTL

(* A 429 or a 403 was earned by enough requests of the client. *)
THEOREM RefusalsEarned == Spec => []RefusalIsEarned
  <1>1. AbuseInv => RefusalIsEarned
    BY DEF AbuseInv
  <1> QED BY <1>1, AbuseInvariant, PTL

(* A block ends abuse_blacklist_ttl_seconds after it began, however often  *)
(* the blocked client comes back.                                          *)
THEOREM BlocksRunOut == Spec => []BlockLastsItsTtl
  <1>1. AbuseInv => BlockLastsItsTtl
    BY DEF AbuseInv, BlockIsDated, BlockLastsItsTtl, Blacklisted
  <1> QED BY <1>1, AbuseInvariant, PTL
=============================================================================
