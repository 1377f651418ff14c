----------------------------- MODULE RateLimiter -----------------------------
(***************************************************************************)
(* RateLimiter: the token bucket all workers of a run share.  Time is a    *)
(* whole number of ticks and weight a whole number of tokens; each         *)
(* operation is one critical section of the limiter's mutex.  Whoever      *)
(* holds the limiter may call it in any order: Requests says how the       *)
(* client does.                                                            *)
(***************************************************************************)
EXTENDS Integers

CONSTANTS
    Worker,      \* tasks that share the limiter
    Weights,     \* weights of the endpoints
    Capacity,    \* size of the pool
    Rate,        \* tokens that come back per tick
    MinInterval, \* spacing of two requests
    Threshold,   \* max(10 % of the capacity, 5): below it headers count
    ResetPause,  \* window / 10: the pause when no reset is announced
    Delays,      \* delays penalize may be given
    Remaining,   \* values of gw-ratelimit-remaining
    Resets,      \* values of gw-ratelimit-reset
    MaxTime,     \* bound on the clock
    None         \* Option::None

ASSUME LimiterAssumption ==
    /\ Capacity \in Nat \ {0} /\ Rate \in Nat \ {0}
    /\ MinInterval \in Nat /\ Threshold \in Nat /\ ResetPause \in Nat
    /\ Weights \subseteq Nat /\ Delays \subseteq Nat
    /\ Remaining \subseteq Nat /\ Resets \subseteq Nat
    /\ MaxTime \in Nat
    /\ None \notin Nat

VARIABLES
    now,         \* Instant::now()
    tokens,      \* State::tokens
    lastRefill,  \* State::last_refill
    nextAllowed, \* State::next_allowed
    asks,        \* worker -> the weight its acquire waits for
    wake,        \* worker -> when its sleep is over
    spent,       \* history: weight granted so far
    lastGrant,   \* history: when the last request was let through
    paused,      \* history: the latest end of a pause that was asked for
    mark         \* history: a moment somebody began to count at

bucket == <<tokens, lastRefill, nextAllowed>>
callers == <<asks, wake>>
history == <<spent, lastGrant, paused, mark>>
limiterVars == <<now, bucket, callers, history>>

Greater(a, b) == IF a >= b THEN a ELSE b
Lesser(a, b) == IF a <= b THEN a ELSE b

LimiterInit ==
    /\ now = 0
    /\ tokens = Capacity
    /\ lastRefill = 0
    /\ nextAllowed = 0
    /\ asks = [w \in Worker |-> None]
    /\ wake = [w \in Worker |-> 0]
    /\ spent = 0
    /\ lastGrant = None
    /\ paused = 0
    /\ mark = [at |-> 0, spent |-> 0]

-----------------------------------------------------------------------------
(* The critical sections *)

\* (mutated form: what comes back is not capped)
RefilledUncapped == tokens + (now - lastRefill) * Rate

\* refill: whatever came back since the last look, up to the capacity.
Refilled == Lesser(Capacity, tokens + (now - lastRefill) * Rate)

TicksForTruncated(n) == Greater(1, n \div Rate)

\* ceil(n / Rate), at least one tick (the code's millisecond).
TicksFor(n) == Greater(1, (n + Rate - 1) \div Rate)

Affordable(weight) == Refilled >= weight /\ now >= nextAllowed

GrantUnspaced(weight) ==
    /\ Affordable(weight)
    /\ tokens' = Refilled - weight
    /\ lastRefill' = now
    /\ nextAllowed' = nextAllowed
    /\ spent' = spent + weight
    /\ lastGrant' = now
    /\ UNCHANGED <<paused, mark>>

Grant(weight) ==
    /\ Affordable(weight)
    /\ tokens' = Refilled - weight
    /\ lastRefill' = now
    /\ nextAllowed' = Greater(nextAllowed, now) + MinInterval
    /\ spent' = spent + weight
    /\ lastGrant' = now
    /\ UNCHANGED <<paused, mark>>

Wait(weight) == Greater(TicksFor(Greater(weight - Refilled, 0)), nextAllowed - now)

Deny(weight) ==
    /\ ~Affordable(weight)
    /\ tokens' = Refilled
    /\ lastRefill' = now
    /\ UNCHANGED <<nextAllowed, history>>

\* A 429: the pool is taken for empty, and nobody goes before the delay is over.
Penalize(delay) ==
    /\ tokens' = 0
    /\ lastRefill' = now
    /\ nextAllowed' = now + delay
    /\ paused' = Greater(paused, now + delay)
    /\ UNCHANGED <<spent, lastGrant, mark>>

NoteHeadersTrusting(remaining, reset) ==
    IF remaining = None THEN UNCHANGED <<bucket, history>>
      ELSE LET until == now + (IF reset = None THEN ResetPause ELSE reset)
           IN /\ tokens' = Lesser(Capacity, remaining)
              /\ lastRefill' = now
              /\ nextAllowed' = Greater(nextAllowed, until)
              /\ paused' = Greater(paused, until)
              /\ UNCHANGED <<spent, lastGrant, mark>>

Healthy(remaining) == remaining # None => remaining > Threshold

\* What a response says of the pool, when little is left of it.
NoteHeaders(remaining, reset) ==
    IF Healthy(remaining) THEN UNCHANGED <<bucket, history>>
      ELSE LET until == now + (IF reset = None THEN ResetPause ELSE reset)
           IN /\ tokens' = Lesser(Refilled, remaining)
              /\ lastRefill' = now
              /\ nextAllowed' = Greater(nextAllowed, until)
              /\ paused' = Greater(paused, until)
              /\ UNCHANGED <<spent, lastGrant, mark>>

-----------------------------------------------------------------------------
(* acquire, in its loop around the critical section *)

AskUnclamped(w, weight) ==
    /\ asks[w] = None
    /\ asks' = [asks EXCEPT ![w] = weight]
    /\ wake' = [wake EXCEPT ![w] = now]

\* A weight beyond the capacity is cut down to it, or it would never be granted.
Ask(w, weight) ==
    /\ asks[w] = None
    /\ asks' = [asks EXCEPT ![w] = Lesser(weight, Capacity)]
    /\ wake' = [wake EXCEPT ![w] = now]

Awake(w) == asks[w] # None /\ wake[w] <= now

Acquired(w) ==
    /\ Awake(w)
    /\ Grant(asks[w])
    /\ asks' = [asks EXCEPT ![w] = None]
    /\ UNCHANGED <<now, wake>>

Sleeps(w) ==
    /\ Awake(w)
    /\ Deny(asks[w])
    /\ wake' = [wake EXCEPT ![w] = now + Wait(asks[w])]
    /\ UNCHANGED <<now, asks>>

Tick ==
    /\ now < MaxTime
    /\ now' = now + 1
    /\ UNCHANGED <<bucket, callers, history>>

\* Somebody begins to count what the run spends.
Mark ==
    /\ mark' = [at |-> now, spent |-> spent]
    /\ UNCHANGED <<now, bucket, callers, spent, lastGrant, paused>>

LimiterNext ==
    \/ Tick
    \/ Mark
    \/ \E w \in Worker :
          \/ \E weight \in Weights :
                Ask(w, weight) /\ UNCHANGED <<now, bucket, history>>
          \/ Acquired(w)
          \/ Sleeps(w)
    \/ \E d \in Delays : Penalize(d) /\ UNCHANGED <<now, callers>>
    \/ \E m \in Remaining, r \in Resets \cup {None} :
          NoteHeaders(m, r) /\ UNCHANGED <<now, callers>>

LimiterSpec == LimiterInit /\ [][LimiterNext]_limiterVars

-----------------------------------------------------------------------------
(* Properties *)

\* The type invariant; the bucket neither overdraws nor overflows.
LimiterTypeOK ==
    /\ now \in Nat
    /\ tokens \in 0 .. Capacity
    /\ lastRefill \in 0 .. now
    /\ nextAllowed \in Nat
    /\ asks \in [Worker -> 0 .. Capacity \cup {None}]
    /\ wake \in [Worker -> Nat]
    /\ spent \in Nat
    /\ lastGrant \in 0 .. now \cup {None}
    /\ paused \in Nat
    /\ mark \in [at : 0 .. now, spent : 0 .. spent]

\* From any moment on, all workers together are let spend the capacity once and
\* what came back since, whatever was denied, penalized and announced between.
WithinBudget == spent - mark.spent <= Capacity + (now - mark.at) * Rate

\* Why WithinBudget holds: what is in the bucket counts as if it were spent, and
\* nothing was granted since the mark if nobody looked at the bucket since.
BudgetInv ==
    /\ spent - mark.spent + tokens
           <= Capacity + Greater(lastRefill - mark.at, 0) * Rate
    /\ lastRefill < mark.at => spent = mark.spent

\* Two requests are at least MinInterval apart.  (As long as no delay is shorter
\* than that: penalize would cut the spacing short.)
Spaced == [][(spent' # spent /\ lastGrant # None)
                 => lastGrant' - lastGrant >= MinInterval]_limiterVars

\* Why Spaced holds.
SpacingInv == lastGrant # None => nextAllowed >= lastGrant + MinInterval

\* A denied worker sleeps until the first moment it could be let through, as
\* things stand: not shorter, which would be a busy loop, and not longer.
AffordableAt(t, weight) ==
    /\ Lesser(Capacity, tokens + (t - lastRefill) * Rate) >= weight
    /\ t >= nextAllowed
SleepIsExact ==
    [][\A w \in Worker : Sleeps(w) =>
           /\ AffordableAt(wake'[w], asks[w])
           /\ \A t \in now .. wake'[w] - 1 : ~AffordableAt(t, asks[w])]_limiterVars

\* What rate_limit.rs and client.rs say of penalize and of the headers: every
\* worker is blocked, and the reset is waited for.
PauseHonoured == [][spent' # spent => now >= paused]_limiterVars

\* Grants keep their distance, and a worker that is told to sleep sleeps
\* neither too short nor too long.
KeepsTime == Spaced /\ SleepIsExact

=============================================================================
