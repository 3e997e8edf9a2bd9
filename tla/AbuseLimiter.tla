---------------------------- MODULE AbuseLimiter ----------------------------
(***************************************************************************)
(* The abuse layer (src/modules/gateway/abuse.py): the requests of one     *)
(* client fingerprint are counted in a sliding window kept in Redis by a   *)
(* Lua script, and answered 429 or, past a second threshold, 403 for the   *)
(* life of a blacklist key.  Clients share no key, so one is enough.       *)
(*                                                                         *)
(* Redis is external: a script is atomic and a key is gone when its time   *)
(* to live ends (it is not evicted, and Redis does not lose its data).     *)
(* The timestamp is read in the application process before the script is  *)
(* sent, from a clock that may be off by Skew.  A script whose reply did   *)
(* not come in time is sent again with the same arguments                  *)
(* (src/core/cache.py), and the copy that was given up may still run,      *)
(* then or long after the request was answered.                            *)
(***************************************************************************)
EXTENDS Integers, FiniteSets

CONSTANTS
    Requests,    \* the HTTP requests of the client
    Window,      \* abuse_rate_limit_window_seconds
    RateMax,     \* abuse_rate_limit_max
    Threshold,   \* abuse_blacklist_threshold
    BlacklistTtl,\* abuse_blacklist_ttl_seconds
    Retries,     \* retries of the Redis client
    Skew,        \* how far a process's clock may be from that of Redis
    MaxTime      \* bound: the last tick of the clock

ASSUME AbuseConstants ==
    /\ IsFiniteSet(Requests)
    /\ Window \in Nat \ {0} /\ BlacklistTtl \in Nat \ {0}
    /\ RateMax \in Nat /\ Threshold \in Nat
    /\ Retries \in Nat /\ Skew \in Nat /\ MaxTime \in Nat

VARIABLES
    time,         \* the clock of Redis
    pc,           \* per request: where dispatch is
    now,          \* per request: the timestamp its process read
    tries,        \* per request: how often the script was sent again
    ghosts,       \* per request: copies given up that may still run
    reply,        \* per request: status the script or the layer returned
    entries,      \* members of the sorted set: a request's member is its own
    rlExpire,     \* when the sorted set expires
    blExpire,     \* when the blacklist key expires
    blSince       \* history: when the last block began

redis == <<entries, rlExpire, blExpire, blSince>>
vars  == <<time, pc, now, tries, ghosts, reply, redis>>

-----------------------------------------------------------------------------
(* The script *)

Blacklisted == time < blExpire

(* What is left of the set: nothing once it expired, and after             *)
(* ZREMRANGEBYSCORE only what is newer than now - window.                  *)
Live == IF time < rlExpire THEN entries ELSE {}

KeptInclusive(r) == {y \in Live : now[y] >= now[r] - Window}
KeptShort(r) == {y \in Live : now[y] > now[r] - Window + 1}
Kept(r) == {y \in Live : now[y] > now[r] - Window}

Counted(r) == Kept(r) \cup {r}

(* The graduated response to the count. *)
Verdict(n) ==
    IF n > Threshold THEN "just_blacklisted"
    ELSE IF n > RateMax THEN "rate_limited" ELSE "ok"

(* The status that the script returns. *)
Status(r) ==
    IF Blacklisted THEN "already_blacklisted" ELSE Verdict(Cardinality(Counted(r)))

(* A block begins when a client that was not blocked is: told from the key *)
(* itself, not from what the script means to do.                           *)
NoteBlock == blSince' = IF ~Blacklisted /\ time < blExpire' THEN time ELSE blSince

(* What it does to the keys. A request that is refused is counted like any *)
(* other, one of a blacklisted client is not.                              *)
Record(r) ==
    /\ entries' = Counted(r)
    /\ rlExpire' = time + Window + 1
    /\ blExpire' = IF Cardinality(Counted(r)) > Threshold
                     THEN time + BlacklistTtl ELSE blExpire
    /\ NoteBlock

ScriptUnguarded(r) == Record(r)
Script(r) ==
    \/ Blacklisted /\ UNCHANGED redis
    \/ ~Blacklisted /\ Record(r)

-----------------------------------------------------------------------------
(* A request *)

End(r, status) ==
    /\ pc' = [pc EXCEPT ![r] = "done"]
    /\ reply' = [reply EXCEPT ![r] = status]

(* A path that is exempt, no layer, or an open breaker: let through. *)
Bypass(r) ==
    /\ pc[r] = "new"
    /\ End(r, "bypassed")
    /\ UNCHANGED <<time, now, tries, ghosts, redis>>

(* _do_check reads the clock and sends the script. *)
Check(r) ==
    /\ pc[r] = "new"
    /\ \E t \in time - Skew .. time + Skew : now' = [now EXCEPT ![r] = t]
    /\ pc' = [pc EXCEPT ![r] = "sent"]
    /\ UNCHANGED <<time, tries, ghosts, reply, redis>>

(* The script runs and its reply arrives: the response follows from it. *)
Run(r) ==
    /\ pc[r] = "sent"
    /\ Script(r)
    /\ End(r, Status(r))
    /\ UNCHANGED <<time, now, tries, ghosts>>

(* A copy runs that nobody waits for any more. *)
RunGhost(r) ==
    /\ ghosts[r] > 0
    /\ ghosts' = [ghosts EXCEPT ![r] = @ - 1]
    /\ Script(r)
    /\ UNCHANGED <<time, pc, now, tries, reply>>

(* No reply within the socket timeout: the script never arrived, may still *)
(* run, or ran and its reply was lost.                                     *)
NoReply(r) ==
    /\ pc[r] = "sent"
    /\ \/ ghosts' \in {ghosts, [ghosts EXCEPT ![r] = @ + 1]} /\ UNCHANGED redis
       \/ Script(r) /\ UNCHANGED ghosts

MayRetryOnceMore(r) == tries[r] <= Retries
MayRetry(r) == tries[r] < Retries

Resend(r) ==
    /\ NoReply(r)
    /\ MayRetry(r)
    /\ tries' = [tries EXCEPT ![r] = @ + 1]
    /\ UNCHANGED <<time, pc, now, reply>>

(* The error of the last attempt is not CacheUnavailableError: HTTP 500. *)
Fail(r) ==
    /\ NoReply(r)
    /\ ~MayRetry(r)
    /\ End(r, "error")
    /\ UNCHANGED <<time, now, tries>>

Tick ==
    /\ time < MaxTime
    /\ time' = time + 1
    /\ UNCHANGED <<pc, now, tries, ghosts, reply, redis>>

-----------------------------------------------------------------------------
Init ==
    /\ time = 0
    /\ pc = [r \in Requests |-> "new"]
    /\ now = [r \in Requests |-> 0]
    /\ tries = [r \in Requests |-> 0]
    /\ ghosts = [r \in Requests |-> 0]
    /\ reply = [r \in Requests |-> "none"]
    /\ entries = {} /\ rlExpire = 0 /\ blExpire = 0
    /\ blSince = -BlacklistTtl   \* as if a block had just run out

Dispatch(r) == Run(r) \/ Resend(r) \/ Fail(r)

Next ==
    \/ \E r \in Requests : Bypass(r) \/ Check(r) \/ Dispatch(r) \/ RunGhost(r)
    \/ Tick

Spec == Init /\ [][Next]_vars

-----------------------------------------------------------------------------
(* Types; the members of the set are requests that were checked, and a key *)
(* expires within its time to live from now.                               *)
AbuseTypeOK ==
    /\ time \in 0 .. MaxTime
    /\ pc \in [Requests -> {"new", "sent", "done"}]
    /\ now \in [Requests -> -Skew .. MaxTime + Skew]
    /\ tries \in [Requests -> 0 .. Retries]
    /\ ghosts \in [Requests -> 0 .. Retries + 1]
    /\ reply \in [Requests -> {"none", "ok", "rate_limited", "just_blacklisted",
                              "already_blacklisted", "bypassed", "error"}]
    /\ entries \subseteq {r \in Requests : pc[r] # "new"}
    /\ rlExpire \in 0 .. time + Window + 1
    /\ blExpire \in 0 .. time + BlacklistTtl
    /\ blSince \in -BlacklistTtl .. time

(* Requests the limiter let through whose timestamp is in the window that  *)
(* ends now, less what the clocks may differ by.                           *)
Admitted == {r \in Requests : reply[r] = "ok" /\ now[r] + Window > time + Skew}

(* The limit holds in every window, not only in windows that begin at some *)
(* request: whatever scripts run late, twice or with an older timestamp    *)
(* than their neighbours, no entry is dropped that a request still needs.  *)
RateLimited == Cardinality(Admitted) <= RateMax

Checked == {r \in Requests : pc[r] # "new" /\ reply[r] # "bypassed"}

(* More than n requests of the client were checked in the window of r or   *)
(* after it.                                                               *)
MoreThan(n, r) == Cardinality({y \in Checked : now[y] > now[r] - Window}) > n

(* Nobody is refused without a cause: a 429 takes more than RateMax        *)
(* requests since the window of the refused one began, a 403 more than     *)
(* Threshold, and the repetition of a script counts no request twice.      *)
RefusalIsEarned ==
    \A r \in Requests :
        /\ reply[r] = "rate_limited" => MoreThan(RateMax, r)
        /\ reply[r] = "just_blacklisted" => MoreThan(Threshold, r)
        /\ reply[r] = "already_blacklisted" => \E z \in Checked : MoreThan(Threshold, z)

(* A block lasts exactly its time to live, which is the Retry-After of the *)
(* 403 that began it: the requests of the blocked client, repetitions of   *)
(* their scripts and copies that run late neither extend it nor end it.    *)
BlockLastsItsTtl == Blacklisted <=> time < blSince + BlacklistTtl
=============================================================================
