------------------------- MODULE SnapshotScheduler --------------------------
(***************************************************************************)
(* When a REST request may be made: cpp/include/snapshot_scheduler.hpp,    *)
(* used by the quote handlers for snapshots and by TradeBackfill, with one *)
(* symbol, for pages of trades.                                            *)
(*                                                                         *)
(* Instants are kept as the time that is left until them, or that has      *)
(* passed since, so that time needs no bound.  Tokens are counted in       *)
(* Minute-ths of a weight: a refill is then a whole number, as it is a     *)
(* fraction in the code.  The bucket starts full, so that the first call,  *)
(* which only starts the refill's clock, is a refill like any other.       *)
(*                                                                         *)
(* The caller is a symbol that asks until it is granted a request, waits   *)
(* for the answer, and reports it.                                         *)
(***************************************************************************)
EXTENDS Integers, Sequences, FiniteSets, FiniteSetsExt

CONSTANTS
    Symbols,
    Minute,           \* the exchange's accounting period
    WeightPerRequest,
    WeightLimit,      \* the exchange's limit per Minute
    BudgetShare,      \* one over the share of it that is ours
    InitialBackoff,
    MaxBackoff,
    JitterShare,      \* one over the jitter's share of a delay
    MinPause429,
    MinPause418,
    UsedWeightPause,
    RetryAfters,      \* what Retry-After may say
    MaxFailures,      \* bound on failures
    MaxUses           \* bound on how often symbols come to need a request

ASSUME SchedulerConstants ==
    /\ {Minute, WeightPerRequest, WeightLimit, BudgetShare, InitialBackoff, MaxBackoff,
        JitterShare, MinPause429, MinPause418, UsedWeightPause} \subseteq Nat \ {0}
    /\ RetryAfters \subseteq Nat
    /\ {MaxFailures, MaxUses} \subseteq Nat

VARIABLES
    tokens,     \* the bucket, as of the last refill
    age,        \* time since the last refill
    pause,      \* time left until requests are allowed again
    failures,   \* failures in a row, per symbol
    backoff,    \* time left until the symbol's next request
    use,        \* what the symbol does: "none", "asks", "waits" or "fetched"
    grants,     \* time since each grant of the last Minute, oldest first
    bans,       \* time left of every pause the exchange asked for
    since,      \* time since the symbol's last failure
    left        \* failures and uses still to come

scheduler == <<tokens, age, pause, failures, backoff>>
history == <<grants, bans, since>>
vars == <<scheduler, use, history, left>>

Budget == Max({WeightPerRequest, WeightLimit \div BudgetShare})

Init ==
    /\ tokens = Budget * Minute
    /\ age = 0
    /\ pause = 0
    /\ failures = [s \in Symbols |-> 0]
    /\ backoff = [s \in Symbols |-> 0]
    /\ use = [s \in Symbols |-> "none"]
    /\ grants = <<>>
    /\ bans = {}
    /\ since = [s \in Symbols |-> 0]
    /\ left = [failures |-> MaxFailures, uses |-> MaxUses]

\* The refill without the cap, and a refill in whole weights.
RefilledUncapped == tokens + Budget * age
RefilledTruncated == Min({Budget * Minute, tokens + ((Budget * age) \div Minute) * Minute})

Refilled == Min({Budget * Minute, tokens + Budget * age})

Cost == WeightPerRequest * Minute

AllowedIfAny(s) ==
    /\ pause = 0
    /\ backoff[s] = 0
    /\ Refilled > 0

Allowed(s) ==
    /\ pause = 0
    /\ backoff[s] = 0
    /\ Refilled >= Cost

Grant(s) ==
    /\ use[s] = "asks"
    /\ Allowed(s)
    /\ tokens' = Refilled - Cost
    /\ age' = 0
    /\ use' = [use EXCEPT ![s] = "waits"]
    /\ grants' = Append(grants, 0)
    /\ UNCHANGED <<pause, failures, backoff, bans, since, left>>

Refuse(s) ==
    /\ use[s] = "asks"
    /\ ~Allowed(s)
    /\ tokens' = Refilled
    /\ age' = 0
    /\ UNCHANGED <<pause, failures, backoff, use, history, left>>

PauseAllLatest(ms) == ms

PauseAll(ms) == Max({pause, ms})

\* The header of used weight at or above half the limit.
UsedWeight(used, p) == IF used = "high" THEN Max({p, UsedWeightPause}) ELSE p

Answered(s, then) == use' = [use EXCEPT ![s] = then]

FetchOk(s, used) ==
    /\ use[s] = "waits"
    /\ pause' = UsedWeight(used, pause)
    /\ bans' = IF used = "high" THEN bans \cup {UsedWeightPause} ELSE bans
    /\ Answered(s, "fetched")
    /\ UNCHANGED <<tokens, age, failures, backoff, grants, since, left>>

\* The book got valid, or the page had trades of use.
Synced(s) ==
    /\ use[s] = "fetched"
    /\ failures' = [failures EXCEPT ![s] = 0]
    /\ backoff' = [backoff EXCEPT ![s] = 0]
    /\ Answered(s, "none")
    /\ UNCHANGED <<tokens, age, pause, history, left>>

\* Doubled n - 1 times, up to the first value that reaches MaxBackoff.
Delay[n \in Nat] ==
    IF n <= 1 THEN Min({InitialBackoff, MaxBackoff}) ELSE Min({2 * Delay[n - 1], MaxBackoff})

Floor(status) == IF status = 418 THEN MinPause418 ELSE MinPause429

\* No answer, an error, or an answer that was of no use.
Failure(s, status, retryAfter, used, jitter) ==
    LET limited == status \in {429, 418}
        ms == Max({Floor(status), retryAfter})
    IN  /\ use[s] = "waits" \/ (use[s] = "fetched" /\ status = 0)
        /\ left.failures > 0
        /\ left' = [left EXCEPT !.failures = @ - 1]
        /\ failures' = [failures EXCEPT ![s] = @ + 1]
        /\ jitter <= Delay[failures[s] + 1] \div JitterShare
        /\ backoff' = [backoff EXCEPT ![s] = Delay[failures[s] + 1] + jitter]
        /\ pause' = UsedWeight(used, IF limited THEN PauseAll(ms) ELSE pause)
        /\ bans' = bans \cup (IF limited THEN {ms} ELSE {})
                        \cup (IF used = "high" THEN {UsedWeightPause} ELSE {})
        /\ since' = [since EXCEPT ![s] = 0]
        /\ Answered(s, "asks")
        /\ UNCHANGED <<tokens, age, grants>>

\* A symbol's book is invalid, or a gap is queued.
Needs(s) ==
    /\ use[s] = "none"
    /\ left.uses > 0
    /\ left' = [left EXCEPT !.uses = @ - 1]
    /\ Answered(s, "asks")
    /\ UNCHANGED <<scheduler, history>>

Less(t) == IF t = 0 THEN 0 ELSE t - 1

\* A refill, a backoff and the look back at grants matter up to these ages.
Tick ==
    /\ age' = Min({age + 1, Minute})
    /\ pause' = Less(pause)
    /\ backoff' = [s \in Symbols |-> Less(backoff[s])]
    /\ \E n \in 0..Len(grants) :              \* the first n are as old as that
        /\ \A i \in 1..Len(grants) : i <= n <=> grants[i] = Minute
        /\ grants' = [i \in 1..(Len(grants) - n) |-> grants[n + i] + 1]
    /\ bans' = {b - 1 : b \in bans} \ {0}
    /\ since' = [s \in Symbols |-> Min({since[s] + 1, MaxBackoff})]
    /\ UNCHANGED <<tokens, failures, use, left>>

Next ==
    \/ \E s \in Symbols :
        \/ Grant(s)
        \/ Refuse(s)
        \/ Needs(s)
        \/ Synced(s)
        \/ \E used \in {"low", "high"} : FetchOk(s, used)
        \/ \E status \in {0, 429, 418}, retryAfter \in RetryAfters,
              used \in {"low", "high"}, jitter \in 0..(MaxBackoff \div JitterShare) :
                Failure(s, status, retryAfter, used, jitter)
    \/ Tick

Spec == Init /\ [][Next]_vars

\* Time passes, and the handler asks at every turn of its loop.  Nothing is
\* assumed of the answers.
LiveSpec ==
    /\ Spec
    /\ WF_vars(Tick)
    /\ \A s \in Symbols : WF_vars(Grant(s))

(* ---------------------------- properties ------------------------------- *)

\* The types; the bucket is never overdrawn or above its size.
TypeOK ==
    /\ tokens \in 0..(Budget * Minute)
    /\ age \in 0..Minute
    /\ pause \in Nat
    /\ failures \in [Symbols -> Nat]
    /\ backoff \in [Symbols -> Nat]
    /\ use \in [Symbols -> {"none", "asks", "waits", "fetched"}]
    /\ grants \in Seq(0..Minute)
    /\ bans \subseteq Nat
    /\ since \in [Symbols -> Nat]
    /\ left \in [failures : Nat, uses : Nat]

\* The promise at the head of snapshot_scheduler.hpp: in any stretch of up to a
\* minute the weight granted is at most the budget for that time plus one full
\* bucket, however the symbols ask and however long nobody asked before.
BudgetKept ==
    \A i \in 1..Len(grants) : \A j \in i..Len(grants) :
        (j - i + 1) * Cost <= Budget * Minute + Budget * (grants[i] - grants[j])

PowerOf2[n \in Nat] == IF n = 0 THEN 1 ELSE 2 * PowerOf2[n - 1]

\* 2^(n-1) times the first delay, at most the longest.
Promised(n) == Min({InitialBackoff * PowerOf2[n - 1], MaxBackoff})

\* No request is granted while any pause the exchange asked for still runs, also
\* one announced before a shorter one, nor before the symbol's own backoff is
\* over; another symbol's success does not end either.
NoEarlyRequest ==
    [][\A s \in Symbols :
        (use[s] = "asks" /\ use'[s] = "waits") =>
            /\ bans = {}
            /\ failures[s] > 0 => since[s] >= Promised(failures[s])]_vars

\* A symbol that asks gets its request in the end: pauses and backoffs end and
\* the bucket fills although every refused call restarts the refill's clock.
AskIsGranted == \A s \in Symbols : use[s] = "asks" ~> use[s] = "waits"

=============================================================================
