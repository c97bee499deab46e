----------------------------- MODULE RateLimiter -----------------------------
(***************************************************************************)
(* The rate limiter (pkg/ratelimit): Manager.Take asks Redis, falls back   *)
(* to the counters of the process while Redis is unavailable, and lets one *)
(* caller probe Redis after each retry interval.  Who decides a request is *)
(* followed, not what is decided: the counters of the buckets never reach  *)
(* the switch between the two.  Time is what the switch asks of it:        *)
(* whether the retry interval is over.                                     *)
(***************************************************************************)
EXTENDS Naturals

CONSTANTS Takers,      \* goroutines that call Take
          MaxOutages,  \* bound: outages of Redis
          MaxCancels   \* bound: callers that give up

ASSUME RateConstants == {MaxOutages, MaxCancels} \subseteq Nat

VARIABLES
    taking,       \* each caller: "idle", "primary", "doomed" primary, "fallback"
    unavailable,  \* unavailableTo: "zero", "future" or "past"
    probing,
    redis,        \* "up" or "down"
    outages, cancels

rateVars == <<taking, unavailable, probing, redis, outages, cancels>>

(* beginPrimaryAttempt. *)
BeginTake(c) ==
    /\ taking[c] = "idle"
    /\ LET probe == unavailable = "past" /\ ~probing
       IN  /\ taking' = [taking EXCEPT ![c] =
                           IF unavailable # "zero" /\ ~probe THEN "fallback"
                           ELSE IF redis = "up" THEN "primary" ELSE "doomed"]
           /\ probing' = (probing \/ probe)
    /\ UNCHANGED <<unavailable, redis, outages, cancels>>

(* The script ran: finishPrimaryAttempt(true). *)
PrimaryDecides(c) ==
    /\ taking[c] = "primary"
    /\ taking' = [taking EXCEPT ![c] = "idle"]
    /\ probing' = FALSE /\ unavailable' = "zero"
    /\ UNCHANGED <<redis, outages, cancels>>

(* Redis failed: finishPrimaryAttempt(false), then the fallback decides. *)
PrimaryFails(c) ==
    /\ taking[c] = "doomed"
    /\ taking' = [taking EXCEPT ![c] = "fallback"]
    /\ probing' = FALSE /\ unavailable' = "future"
    /\ UNCHANGED <<redis, outages, cancels>>

(* Fault: a probe that is canceled goes on counting as one. *)
CancelKeepsProbing(c) ==
    /\ taking[c] \in {"primary", "doomed"} /\ cancels < MaxCancels
    /\ taking' = [taking EXCEPT ![c] = "idle"]
    /\ cancels' = cancels + 1
    /\ UNCHANGED <<unavailable, probing, redis, outages>>

(* The caller's context ended: cancelPrimaryAttempt, and an error. *)
CancelPrimaryAttempt(c) ==
    /\ taking[c] \in {"primary", "doomed"} /\ cancels < MaxCancels
    /\ taking' = [taking EXCEPT ![c] = "idle"]
    /\ probing' = FALSE
    /\ cancels' = cancels + 1
    /\ UNCHANGED <<unavailable, redis, outages>>

(* LocalBackend.Take, under its lock: a decision, or an error for a caller    *)
(* whose context has ended.                                                  *)
FallbackDecides(c) ==
    /\ taking[c] = "fallback"
    /\ taking' = [taking EXCEPT ![c] = "idle"]
    /\ UNCHANGED <<unavailable, probing, redis, outages, cancels>>

-------------------------------------------------------------------------------
RetryIntervalPasses ==
    /\ unavailable = "future" /\ unavailable' = "past"
    /\ UNCHANGED <<taking, probing, redis, outages, cancels>>

(* Redis stops answering: calls that are under way fail. *)
RedisFails ==
    /\ redis = "up" /\ outages < MaxOutages
    /\ redis' = "down" /\ outages' = outages + 1
    /\ taking' = [c \in Takers |-> IF taking[c] = "primary" THEN "doomed" ELSE taking[c]]
    /\ UNCHANGED <<unavailable, probing, cancels>>

RedisRecovers ==
    /\ redis = "down" /\ redis' = "up"
    /\ UNCHANGED <<taking, unavailable, probing, outages, cancels>>

RateInit ==
    /\ taking = [c \in Takers |-> "idle"]
    /\ unavailable = "zero" /\ probing = FALSE
    /\ redis = "up"
    /\ outages = 0 /\ cancels = 0

TakeReturns(c) == PrimaryDecides(c) \/ PrimaryFails(c) \/ FallbackDecides(c)

RateNext ==
    \/ \E c \in Takers : BeginTake(c) \/ TakeReturns(c) \/ CancelPrimaryAttempt(c)
    \/ RetryIntervalPasses \/ RedisFails \/ RedisRecovers

(* A call returns and time passes; requests keep coming once one of them has *)
(* met an outage.                                                            *)
RateFairness ==
    /\ \A c \in Takers : /\ WF_rateVars(TakeReturns(c))
                         /\ WF_rateVars(unavailable # "zero" /\ BeginTake(c))
    /\ WF_rateVars(RetryIntervalPasses)

RateSpec == RateInit /\ [][RateNext]_rateVars /\ RateFairness

-------------------------------------------------------------------------------
(* The limiter comes back to Redis: when Redis stays up and requests keep    *)
(* coming, they are decided by Redis again for good, whichever probes of     *)
(* late, failed and canceled callers overlapped (ratelimit.go,               *)
(* beginPrimaryAttempt, finishPrimaryAttempt, cancelPrimaryAttempt).         *)
PrimaryReturns == <>[](redis = "up") => <>[](unavailable = "zero")

===============================================================================
