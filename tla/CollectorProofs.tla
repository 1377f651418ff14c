---------------------------- MODULE CollectorProofs ----------------------------
(***************************************************************************)
(* Theorems about a collector process and the file it rewrites.            *)
(*                                                                         *)
(* RateLimiter, for any number of workers, any pool and spacing and any    *)
(* order of calls; then Requests, whatever the exchange answers: the retry *)
(* loops use the limiter as RateLimiter expects, so its budget is one of   *)
(* the requests that go out.                                               *)
(*                                                                         *)
(* RunJobs, for any number of series and permits, with and without panics, *)
(* interrupts and kills at any step.  JobsInv is the inductive invariant.  *)
(* Its parts need each other: permits balance because Spawn finds a job    *)
(* that does not run yet (SpawnOrder), and the exit code tells the truth   *)
(* because a run gets to its report with all jobs joined (AllIn) and each  *)
(* joined job in the report.                                               *)
(*                                                                         *)
(* PartitionFile, for any number of bars, values and processes: what is    *)
(* under the partition's name, or may come back under it after a power     *)
(* loss, is whole and synced, and no tmp file is any of that (FileInv).    *)
(* It rests on every writer having a process, hence a tmp name, of its     *)
(* own.  For a single writer, MergeInv adds that a rewrite carries over    *)
(* what it found.                                                          *)
(***************************************************************************)
EXTENDS PartitionFile, Requests, RunJobs, FiniteSetTheorems, TLAPS

\* Greater and Lesser of two numbers.
LEMMA Choices ==
    ASSUME NEW a \in Int, NEW b \in Int
    PROVE  /\ Greater(a, b) \in {a, b} /\ Greater(a, b) >= a /\ Greater(a, b) >= b
           /\ Lesser(a, b) \in {a, b} /\ Lesser(a, b) <= a /\ Lesser(a, b) <= b
  BY DEF Greater, Lesser

\* What came back since the last look is a number of tokens.
LEMMA ComesBack ==
    ASSUME LimiterTypeOK
    PROVE  (now - lastRefill) * Rate \in Nat
  <1>1. now - lastRefill \in Nat
    BY DEF LimiterTypeOK
  <1>2. ASSUME NEW n \in Nat
        PROVE  n * Rate \in Nat
    BY LimiterAssumption
  <1>3. QED
    BY <1>1, <1>2

\* A refill never takes tokens away, and never fills beyond the capacity.
LEMMA RefilledType ==
    ASSUME LimiterTypeOK
    PROVE  Refilled \in 0 .. Capacity
  <1>1. tokens + (now - lastRefill) * Rate \in Nat
    BY ComesBack DEF LimiterTypeOK
  <1>2. QED
    BY <1>1, LimiterAssumption, Choices DEF Refilled, Lesser

-----------------------------------------------------------------------------
(* Types *)

LEMMA TypeInit == LimiterInit => LimiterTypeOK
  BY LimiterAssumption DEF LimiterInit, LimiterTypeOK

\* A worker that is denied sleeps for at least a tick.
LEMMA WaitType ==
    ASSUME LimiterTypeOK, NEW weight \in 0 .. Capacity
    PROVE  Wait(weight) \in Nat \ {0}
  <1>1. Greater(weight - Refilled, 0) \in Nat
    BY RefilledType, LimiterAssumption DEF Greater
  <1>2. TicksFor(Greater(weight - Refilled, 0)) \in Nat \ {0}
    BY <1>1, LimiterAssumption DEF TicksFor, Greater
  <1>3. QED
    BY <1>2 DEF Wait, Greater, LimiterTypeOK

LEMMA TypeAcquired ==
    ASSUME LimiterTypeOK, NEW w \in Worker, Acquired(w)
    PROVE  LimiterTypeOK'
  <1>1. asks[w] \in 0 .. Capacity
    BY DEF LimiterTypeOK, Acquired, Awake
  <1>2. Refilled - asks[w] \in 0 .. Capacity
    BY <1>1, RefilledType, LimiterAssumption DEF Acquired, Grant, Affordable
  <1>3. Greater(nextAllowed, now) + MinInterval \in Nat
    BY LimiterAssumption DEF LimiterTypeOK, Greater
  <1>4. /\ spent' \in Nat /\ spent' >= spent
        /\ lastGrant' \in 0 .. now
    BY <1>1 DEF Acquired, Grant, LimiterTypeOK
  <1>5. mark' \in [at : 0 .. now', spent : 0 .. spent']
    BY <1>4 DEF Acquired, Grant, LimiterTypeOK
  <1>6. QED
    BY <1>2, <1>3, <1>4, <1>5 DEF Acquired, Grant, LimiterTypeOK

LEMMA TypeSleeps ==
    ASSUME LimiterTypeOK, NEW w \in Worker, Sleeps(w)
    PROVE  LimiterTypeOK'
  <1>1. asks[w] \in 0 .. Capacity
    BY DEF LimiterTypeOK, Sleeps, Awake
  <1>2. now + Wait(asks[w]) \in Nat
    BY <1>1, WaitType DEF LimiterTypeOK
  <1>3. QED
    BY <1>2, RefilledType DEF Sleeps, Deny, LimiterTypeOK, history

LEMMA TypeAsk ==
    ASSUME LimiterTypeOK, NEW w \in Worker, NEW weight \in Weights, Ask(w, weight),
           UNCHANGED <<now, bucket, history>>
    PROVE  LimiterTypeOK'
  <1>1. Lesser(weight, Capacity) \in 0 .. Capacity
    BY LimiterAssumption DEF Lesser
  <1>2. QED
    BY <1>1 DEF Ask, LimiterTypeOK, bucket, history

LEMMA TypePenalize ==
    ASSUME LimiterTypeOK, NEW d \in Delays, Penalize(d), UNCHANGED <<now, callers>>
    PROVE  LimiterTypeOK'
  <1>1. now + d \in Nat /\ Greater(paused, now + d) \in Nat
    BY LimiterAssumption DEF LimiterTypeOK, Greater
  <1>2. QED
    BY <1>1, LimiterAssumption DEF Penalize, LimiterTypeOK, callers

LEMMA TypeNoteHeaders ==
    ASSUME LimiterTypeOK, NEW m \in Remaining \cup {None}, NEW r \in Resets \cup {None},
           NoteHeaders(m, r), UNCHANGED <<now, callers>>
    PROVE  LimiterTypeOK'
  <1>1. CASE Healthy(m)
    BY <1>1 DEF NoteHeaders, LimiterTypeOK, callers, bucket, history
  <1>2. CASE ~Healthy(m)
    <2> DEFINE until == now + (IF r = None THEN ResetPause ELSE r)
    <2>1. m \in Nat
      BY <1>2, LimiterAssumption DEF Healthy
    <2>2. until \in Nat
      BY LimiterAssumption DEF LimiterTypeOK
    <2>3. Lesser(Refilled, m) \in 0 .. Capacity
      BY <2>1, RefilledType, LimiterAssumption DEF Lesser
    <2>4. Greater(nextAllowed, until) \in Nat /\ Greater(paused, until) \in Nat
      BY <2>2 DEF LimiterTypeOK, Greater
    <2>5. QED
      BY <1>2, <2>3, <2>4 DEF NoteHeaders, LimiterTypeOK, callers
  <1>3. QED
    BY <1>1, <1>2

\* Every call of the limiter keeps the types: the bucket neither overdraws nor
\* overflows.
LEMMA TypeStep == LimiterTypeOK /\ [LimiterNext]_limiterVars => LimiterTypeOK'
  <1> SUFFICES ASSUME LimiterTypeOK, [LimiterNext]_limiterVars
               PROVE  LimiterTypeOK'
    OBVIOUS
  <1>1. CASE Tick
    BY <1>1 DEF Tick, LimiterTypeOK, bucket, callers, history
  <1>2. CASE Mark
    BY <1>2 DEF Mark, LimiterTypeOK, bucket, callers
  <1>3. ASSUME NEW w \in Worker, NEW weight \in Weights,
               Ask(w, weight) /\ UNCHANGED <<now, bucket, history>>
        PROVE  LimiterTypeOK'
    BY <1>3, TypeAsk
  <1>4. ASSUME NEW w \in Worker, Acquired(w) \/ Sleeps(w)
        PROVE  LimiterTypeOK'
    BY <1>4, TypeAcquired, TypeSleeps
  <1>5. ASSUME NEW d \in Delays, Penalize(d) /\ UNCHANGED <<now, callers>>
        PROVE  LimiterTypeOK'
    BY <1>5, TypePenalize
  <1>6. ASSUME NEW m \in Remaining, NEW r \in Resets \cup {None},
               NoteHeaders(m, r) /\ UNCHANGED <<now, callers>>
        PROVE  LimiterTypeOK'
    BY <1>6, TypeNoteHeaders
  <1>7. CASE UNCHANGED limiterVars
    BY <1>7 DEF limiterVars, LimiterTypeOK, bucket, callers, history
  <1>8. QED
    BY <1>1, <1>2, <1>3, <1>4, <1>5, <1>6, <1>7 DEF LimiterNext

\* The limiter's fields, whatever workers do: tokens stay between nothing and
\* the capacity, and a worker asks for no more than that.
THEOREM LimiterTypeCorrect == LimiterSpec => []LimiterTypeOK
  BY TypeInit, TypeStep, PTL DEF LimiterSpec

-----------------------------------------------------------------------------
(* The budget *)

\* However the elapsed time is cut in two, the same number of tokens comes back.
LEMMA Distributes ==
    ASSUME NEW a \in Int, NEW b \in Int, NEW c \in Int
    PROVE  (c - a) * Rate = (b - a) * Rate + (c - b) * Rate
  <1>1. Rate \in Int
    BY LimiterAssumption
  <1>2. ASSUME NEW r \in Int
        PROVE  (c - a) * r = (b - a) * r + (c - b) * r
    OBVIOUS
  <1>3. QED
    BY <1>1, <1>2

LEMMA MoreTimeMoreTokens ==
    ASSUME NEW a \in Nat, NEW b \in Nat, a <= b
    PROVE  a * Rate \in Nat /\ b * Rate \in Nat /\ a * Rate <= b * Rate
  <1>1. Rate \in Nat
    BY LimiterAssumption
  <1>2. ASSUME NEW r \in Nat
        PROVE  a * r \in Nat /\ b * r \in Nat /\ a * r <= b * r
    OBVIOUS
  <1>3. QED
    BY <1>1, <1>2

LEMMA BudgetInit == LimiterInit => BudgetInv
  <1>1. 0 * Rate = 0
    BY LimiterAssumption
  <1>2. QED
    BY <1>1, LimiterAssumption DEF LimiterInit, BudgetInv, Greater

\* Looking at the bucket turns the time since the last look into tokens: the
\* account is the same before and after.
LEMMA AccountRefilled ==
    ASSUME LimiterTypeOK, BudgetInv
    PROVE  spent - mark.spent + Refilled <= Capacity + (now - mark.at) * Rate
  <1>1. /\ spent \in Nat /\ mark.spent \in 0 .. spent /\ mark.at \in 0 .. now
        /\ lastRefill \in 0 .. now /\ now \in Nat /\ tokens \in 0 .. Capacity
    BY DEF LimiterTypeOK
  <1>2. Refilled \in 0 .. Capacity
    BY RefilledType
  <1>3. (now - mark.at) * Rate \in Nat
    BY <1>1, MoreTimeMoreTokens
  <1>4. CASE lastRefill < mark.at
    BY <1>1, <1>2, <1>3, <1>4, LimiterAssumption DEF BudgetInv
  <1>5. CASE lastRefill >= mark.at
    <2>1. (now - mark.at) * Rate
             = (lastRefill - mark.at) * Rate + (now - lastRefill) * Rate
      BY <1>1, Distributes
    <2>2. /\ (lastRefill - mark.at) * Rate \in Nat
          /\ (now - lastRefill) * Rate \in Nat
      BY <1>1, <1>5, MoreTimeMoreTokens
    <2>3. Greater(lastRefill - mark.at, 0) = lastRefill - mark.at
      BY <1>1, <1>5 DEF Greater
    <2>4. spent - mark.spent + tokens <= Capacity + (lastRefill - mark.at) * Rate
      BY <2>3 DEF BudgetInv
    <2>5. Refilled <= tokens + (now - lastRefill) * Rate
      BY <1>1, <2>2, LimiterAssumption DEF Refilled, Lesser
    <2>6. QED
      BY <1>1, <1>2, <1>3, <2>1, <2>2, <2>4, <2>5, LimiterAssumption
  <1>6. QED
    BY <1>1, <1>4, <1>5

\* After a look at the bucket that leaves no more in it than it found, less
\* what was granted, the account is balanced again.
LEMMA Balanced ==
    ASSUME LimiterTypeOK, BudgetInv, lastRefill' = now,
           UNCHANGED <<now, mark>>,
           spent' \in Nat, tokens' \in Int,
           tokens' + spent' <= Refilled + spent
    PROVE  BudgetInv'
  <1>1. /\ spent \in Nat /\ mark.spent \in 0 .. spent /\ mark.at \in 0 .. now
        /\ now \in Nat
    BY DEF LimiterTypeOK
  <1>2. Greater(lastRefill' - mark'.at, 0) = now - mark.at
    BY <1>1 DEF Greater
  <1>3. (now - mark.at) * Rate \in Nat
    BY <1>1, MoreTimeMoreTokens
  <1>4. spent' - mark'.spent + tokens' <= Capacity + (now - mark.at) * Rate
    BY <1>1, <1>3, AccountRefilled, RefilledType, LimiterAssumption
  <1>5. ~(lastRefill' < mark'.at)
    BY <1>1
  <1>6. QED
    BY <1>2, <1>4, <1>5 DEF BudgetInv

LEMMA BudgetStep == LimiterTypeOK /\ BudgetInv /\ [LimiterNext]_limiterVars => BudgetInv'
  <1> SUFFICES ASSUME LimiterTypeOK, BudgetInv, [LimiterNext]_limiterVars
               PROVE  BudgetInv'
    OBVIOUS
  <1>1. CASE Tick
    BY <1>1 DEF Tick, BudgetInv, bucket, history, Greater
  <1>2. CASE Mark
    <2>1. /\ Greater(lastRefill' - mark'.at, 0) = 0
          /\ spent' - mark'.spent = 0
      BY <1>2 DEF Mark, LimiterTypeOK, bucket, Greater
    <2>2. 0 * Rate = 0
      BY LimiterAssumption
    <2>3. QED
      BY <1>2, <2>1, <2>2, LimiterAssumption DEF Mark, LimiterTypeOK, BudgetInv, bucket
  <1>3. ASSUME NEW w \in Worker, NEW weight \in Weights,
               Ask(w, weight) /\ UNCHANGED <<now, bucket, history>>
        PROVE  BudgetInv'
    BY <1>3 DEF BudgetInv, bucket, history, Greater
  <1>4. ASSUME NEW w \in Worker, Acquired(w)
        PROVE  BudgetInv'
    <2>1. asks[w] \in 0 .. Capacity
      BY <1>4 DEF LimiterTypeOK, Acquired, Awake
    <2>2. /\ tokens' = Refilled - asks[w] /\ spent' = spent + asks[w]
          /\ lastRefill' = now /\ UNCHANGED <<now, mark>>
      BY <1>4 DEF Acquired, Grant
    <2>3. QED
      BY <2>1, <2>2, Balanced, RefilledType, LimiterAssumption DEF LimiterTypeOK
  <1>5. ASSUME NEW w \in Worker, Sleeps(w)
        PROVE  BudgetInv'
    <2>1. tokens' = Refilled /\ lastRefill' = now /\ UNCHANGED <<now, mark, spent>>
      BY <1>5 DEF Sleeps, Deny, history
    <2>2. QED
      BY <2>1, Balanced, RefilledType, LimiterAssumption DEF LimiterTypeOK
  <1>6. ASSUME NEW d \in Delays, Penalize(d) /\ UNCHANGED <<now, callers>>
        PROVE  BudgetInv'
    BY <1>6, Balanced, RefilledType, LimiterAssumption DEF Penalize, LimiterTypeOK
  <1>7. ASSUME NEW m \in Remaining, NEW r \in Resets \cup {None},
               NoteHeaders(m, r) /\ UNCHANGED <<now, callers>>
        PROVE  BudgetInv'
    <2>1. CASE Healthy(m)
      BY <1>7, <2>1 DEF NoteHeaders, BudgetInv, bucket, history, Greater
    <2>2. CASE ~Healthy(m)
      <3>1. /\ tokens' = Lesser(Refilled, m) /\ lastRefill' = now
            /\ UNCHANGED <<now, mark, spent>>
        BY <1>7, <2>2 DEF NoteHeaders
      <3>2. Lesser(Refilled, m) \in Int /\ Lesser(Refilled, m) <= Refilled
        BY RefilledType, LimiterAssumption DEF Lesser
      <3>3. QED
        BY <3>1, <3>2, Balanced, RefilledType, LimiterAssumption DEF LimiterTypeOK
    <2>3. QED
      BY <2>1, <2>2
  <1>8. CASE UNCHANGED limiterVars
    BY <1>8 DEF limiterVars, BudgetInv, bucket, history, Greater
  <1>9. QED
    BY <1>1, <1>2, <1>3, <1>4, <1>5, <1>6, <1>7, <1>8 DEF LimiterNext

LEMMA BudgetBounds == LimiterTypeOK /\ BudgetInv => WithinBudget
  <1> SUFFICES ASSUME LimiterTypeOK, BudgetInv
               PROVE  WithinBudget
    OBVIOUS
  <1>1. (now - mark.at) * Rate \in Nat
    BY MoreTimeMoreTokens DEF LimiterTypeOK
  <1>2. QED
    BY <1>1, AccountRefilled, RefilledType, LimiterAssumption DEF LimiterTypeOK, WithinBudget

\* From any moment on, acquire lets all workers together spend no more than the
\* capacity and what came back since, whatever 429s and headers arrive.
THEOREM BudgetHolds == LimiterSpec => []WithinBudget
  <1>1. LimiterInit => LimiterTypeOK /\ BudgetInv
    BY TypeInit, BudgetInit
  <1>2. LimiterTypeOK /\ BudgetInv /\ [LimiterNext]_limiterVars
            => (LimiterTypeOK /\ BudgetInv)'
    BY TypeStep, BudgetStep
  <1>3. LimiterTypeOK /\ BudgetInv => WithinBudget
    BY BudgetBounds
  <1>4. QED
    BY <1>1, <1>2, <1>3, PTL DEF LimiterSpec

-----------------------------------------------------------------------------
(* The spacing *)

LEMMA SpacingStep ==
    ASSUME \A d \in Delays : d >= MinInterval
    PROVE  LimiterTypeOK /\ SpacingInv /\ [LimiterNext]_limiterVars => SpacingInv'
  <1> SUFFICES ASSUME LimiterTypeOK, SpacingInv, [LimiterNext]_limiterVars
               PROVE  SpacingInv'
    OBVIOUS
  <1>1. CASE UNCHANGED <<nextAllowed, lastGrant>>
    BY <1>1 DEF SpacingInv
  <1>2. ASSUME NEW w \in Worker, Acquired(w)
        PROVE  SpacingInv'
    BY <1>2, LimiterAssumption
       DEF Acquired, Grant, SpacingInv, LimiterTypeOK, Greater
  <1>3. ASSUME NEW d \in Delays, Penalize(d)
        PROVE  SpacingInv'
    BY <1>3, LimiterAssumption DEF Penalize, SpacingInv, LimiterTypeOK
  <1>4. ASSUME NEW m \in Remaining, NEW r \in Resets \cup {None}, NoteHeaders(m, r)
        PROVE  SpacingInv'
    <2>1. CASE Healthy(m)
      BY <1>1, <1>4, <2>1 DEF NoteHeaders, bucket, history
    <2>2. CASE ~Healthy(m)
      <3>1. nextAllowed' \in Nat /\ nextAllowed' >= nextAllowed
        BY <1>4, <2>2, LimiterAssumption DEF NoteHeaders, LimiterTypeOK, Greater
      <3>2. UNCHANGED lastGrant
        BY <1>4, <2>2 DEF NoteHeaders
      <3>3. QED
        BY <3>1, <3>2, LimiterAssumption DEF SpacingInv, LimiterTypeOK
    <2>3. QED
      BY <2>1, <2>2
  <1>5. QED
    BY <1>1, <1>2, <1>3, <1>4
       DEF LimiterNext, limiterVars, Tick, Mark, Sleeps, Deny, bucket, history

\* Only a grant spends.
LEMMA OnlyGrantsSpend ==
    ASSUME LimiterNext, spent' # spent
    PROVE  \E w \in Worker : Acquired(w)
  <1>1. ~(UNCHANGED history)
    BY DEF history
  <1>2. QED
    BY <1>1 DEF LimiterNext, Tick, Mark, Sleeps, Deny, Penalize, NoteHeaders, history

\* Two requests of any workers are MinInterval apart, as long as no delay that
\* penalize gets is shorter than that.
THEOREM RequestsSpaced ==
    ASSUME \A d \in Delays : d >= MinInterval
    PROVE  LimiterSpec => Spaced
  <1> DEFINE Apart == (spent' # spent /\ lastGrant # None)
                          => lastGrant' - lastGrant >= MinInterval
  <1>1. LimiterInit => LimiterTypeOK /\ SpacingInv
    BY TypeInit DEF LimiterInit, SpacingInv
  <1>2. LimiterTypeOK /\ SpacingInv /\ [LimiterNext]_limiterVars
            => (LimiterTypeOK /\ SpacingInv)'
    BY TypeStep, SpacingStep
  <1>3. LimiterTypeOK /\ SpacingInv /\ [LimiterNext]_limiterVars => [Apart]_limiterVars
    <2> SUFFICES ASSUME LimiterTypeOK, SpacingInv, LimiterNext,
                        spent' # spent, lastGrant # None
                 PROVE  lastGrant' - lastGrant >= MinInterval
      OBVIOUS
    <2>1. PICK w \in Worker : Acquired(w)
      BY OnlyGrantsSpend
    <2>2. now >= nextAllowed /\ lastGrant' = now
      BY <2>1 DEF Acquired, Grant, Affordable
    <2>3. QED
      BY <2>2, LimiterAssumption DEF SpacingInv, LimiterTypeOK
  <1>4. QED
    BY <1>1, <1>2, <1>3, PTL DEF LimiterSpec, Spaced

-----------------------------------------------------------------------------
(* The sleep *)

\* TicksFor is the least number of ticks, but one, after which n tokens are back.
LEMMA TicksAreExact ==
    ASSUME NEW n \in Nat
    PROVE  /\ TicksFor(n) \in Nat \ {0}
           /\ TicksFor(n) * Rate >= n
           /\ n > 0 => (TicksFor(n) - 1) * Rate < n
           /\ n = 0 => TicksFor(n) = 1
  <1>1. Rate \in Nat \ {0}
    BY LimiterAssumption
  <1> DEFINE q == (n + Rate - 1) \div Rate
  <1>2. q \in Nat /\ q * Rate <= n + Rate - 1 /\ n + Rate - 1 < (q + 1) * Rate
    BY <1>1
  <1>3. (q + 1) * Rate = q * Rate + Rate /\ (q - 1) * Rate = q * Rate - Rate
    BY <1>1, <1>2
  <1>4. n <= q * Rate /\ (q - 1) * Rate < n
    BY <1>1, <1>2, <1>3
  <1>5. CASE q = 0
    BY <1>1, <1>4, <1>5 DEF TicksFor, Greater
  <1>6. CASE q # 0
    <2>1. TicksFor(n) = q
      BY <1>2, <1>6 DEF TicksFor, Greater
    <2>2. n = 0 => q <= 1
      BY <1>1, <1>2, <1>4
    <2>3. QED
      BY <1>2, <1>4, <1>6, <2>1, <2>2
  <1>7. QED
    BY <1>5, <1>6

\* What the bucket will hold at t, if nobody calls the limiter before.
LEMMA BucketAt ==
    ASSUME LimiterTypeOK, NEW t \in Nat, t >= now
    PROVE  /\ (t - now) * Rate \in Nat
           /\ tokens + (t - lastRefill) * Rate >= Refilled + (t - now) * Rate
           /\ Refilled < Capacity =>
                 tokens + (t - lastRefill) * Rate = Refilled + (t - now) * Rate
  <1>1. /\ now \in Nat /\ lastRefill \in 0 .. now /\ tokens \in 0 .. Capacity
        /\ (now - lastRefill) * Rate \in Nat
    BY ComesBack DEF LimiterTypeOK
  <1>2. (t - lastRefill) * Rate = (now - lastRefill) * Rate + (t - now) * Rate
    <2> DEFINE a == now - lastRefill
               b == t - now
    <2>1. a \in Nat /\ b \in Nat /\ t - lastRefill = a + b
      BY <1>1
    <2>2. (a + b) * Rate = a * Rate + b * Rate
      <3> HIDE DEF a, b
      <3> QED
        BY <2>1, LimiterAssumption
    <2>3. QED
      BY <2>1, <2>2
  <1>3. (t - now) * Rate \in Nat
    BY <1>1, MoreTimeMoreTokens
  <1>4. /\ Refilled <= tokens + (now - lastRefill) * Rate
        /\ Refilled < Capacity => Refilled = tokens + (now - lastRefill) * Rate
    BY <1>1, LimiterAssumption DEF Refilled, Lesser
  <1>5. QED
    BY <1>1, <1>2, <1>3, <1>4, RefilledType, LimiterAssumption

LEMMA SleepEndsInTime ==
    ASSUME LimiterTypeOK, NEW weight \in 0 .. Capacity
    PROVE  AffordableAt(now + Wait(weight), weight)
  <1> DEFINE n == Greater(weight - Refilled, 0)
             t == now + Wait(weight)
  <1>1. n \in Nat /\ n >= weight - Refilled
    BY RefilledType, LimiterAssumption DEF Greater
  <1>2. Wait(weight) \in Nat /\ Wait(weight) >= TicksFor(n) /\ t >= nextAllowed
    BY <1>1, TicksAreExact DEF Wait, Greater, LimiterTypeOK
  <1>3. t \in Nat /\ t >= now /\ t - now = Wait(weight)
    BY <1>2 DEF LimiterTypeOK
  <1>4. (t - now) * Rate >= n
    <2>1. TicksFor(n) \in Nat /\ TicksFor(n) * Rate >= n
      BY <1>1, TicksAreExact
    <2>2. TicksFor(n) * Rate <= Wait(weight) * Rate
      BY <1>2, <2>1, MoreTimeMoreTokens
    <2>3. /\ TicksFor(n) * Rate \in Nat /\ Wait(weight) * Rate \in Nat
      BY <1>2, <2>1, MoreTimeMoreTokens
    <2>4. Wait(weight) * Rate >= n
      BY <1>1, <2>1, <2>2, <2>3
    <2>5. QED
      BY <1>3, <2>4
  <1>5. /\ (t - now) * Rate \in Nat
        /\ tokens + (t - lastRefill) * Rate >= Refilled + (t - now) * Rate
    BY <1>3, BucketAt
  <1>6. (t - lastRefill) * Rate \in Int
    <2>1. t - lastRefill \in Nat
      BY <1>3 DEF LimiterTypeOK
    <2>2. QED
      BY <2>1, MoreTimeMoreTokens
  <1>7. tokens + (t - lastRefill) * Rate >= weight
    BY <1>1, <1>4, <1>5, <1>6, RefilledType, LimiterAssumption DEF LimiterTypeOK
  <1>8. Lesser(Capacity, tokens + (t - lastRefill) * Rate) >= weight
    BY <1>6, <1>7, LimiterAssumption DEF LimiterTypeOK, Lesser
  <1>9. QED
    BY <1>2, <1>8 DEF AffordableAt

LEMMA SleepIsNeeded ==
    ASSUME LimiterTypeOK, NEW weight \in 0 .. Capacity, ~Affordable(weight),
           NEW t \in now .. now + Wait(weight) - 1
    PROVE  ~AffordableAt(t, weight)
  <1> DEFINE n == Greater(weight - Refilled, 0)
  <1>1. n \in Nat /\ TicksFor(n) \in Nat \ {0}
    BY RefilledType, TicksAreExact, LimiterAssumption DEF Greater
  <1>2. /\ now \in Nat /\ nextAllowed \in Nat /\ Wait(weight) \in Nat /\ t \in Nat
        /\ now <= t /\ t < now + Wait(weight)
    BY WaitType DEF LimiterTypeOK
  <1>3. CASE t < nextAllowed
    BY <1>2, <1>3 DEF AffordableAt
  <1>4. CASE t >= nextAllowed
    <2>1. Wait(weight) = TicksFor(n) /\ t - now <= TicksFor(n) - 1
      BY <1>1, <1>2, <1>4 DEF Wait, Greater
    <2>2. Refilled < weight
      <3>1. CASE n = 0
        <4>1. t = now
          BY <1>2, <2>1, <3>1, TicksAreExact
        <4>2. now >= nextAllowed
          BY <1>4, <4>1
        <4>3. QED
          BY <4>2, RefilledType, LimiterAssumption DEF Affordable
      <3>2. CASE n # 0
        BY <3>2, RefilledType, LimiterAssumption DEF Greater
      <3>3. QED
        BY <3>1, <3>2
    <2>3. n = weight - Refilled /\ n > 0
      BY <2>2, RefilledType, LimiterAssumption DEF Greater
    <2>4. (t - now) * Rate < n
      <3>1. (TicksFor(n) - 1) * Rate < n
        BY <1>1, <2>3, TicksAreExact
      <3>2. /\ (t - now) * Rate \in Nat /\ (TicksFor(n) - 1) * Rate \in Nat
            /\ (t - now) * Rate <= (TicksFor(n) - 1) * Rate
        <4>1. t - now \in Nat /\ TicksFor(n) - 1 \in Nat
          BY <1>1, <1>2
        <4>2. QED
          BY <2>1, <4>1, MoreTimeMoreTokens
      <3>3. QED
        BY <1>1, <3>1, <3>2
    <2>5. tokens + (t - lastRefill) * Rate = Refilled + (t - now) * Rate
      BY <1>2, <2>2, BucketAt, RefilledType, LimiterAssumption
    <2>6. tokens + (t - lastRefill) * Rate < weight
      BY <1>2, <2>3, <2>4, <2>5, BucketAt, RefilledType, LimiterAssumption
    <2>7. ~(Lesser(Capacity, tokens + (t - lastRefill) * Rate) >= weight)
      <3>1. (t - now) * Rate \in Nat
        BY <1>2, BucketAt
      <3>2. tokens + (t - lastRefill) * Rate \in Int
        BY <2>5, <3>1, RefilledType, LimiterAssumption
      <3>3. QED
        BY <2>6, <3>2, LimiterAssumption DEF Lesser
    <2>8. QED
      BY <2>7 DEF AffordableAt
  <1>5. QED
    BY <1>2, <1>3, <1>4

\* acquire's sleep is over at the first moment the request could be let through,
\* as things stand when it goes to sleep.
THEOREM SleepsExactly == LimiterSpec => SleepIsExact
  <1> DEFINE Exact == \A w \in Worker : Sleeps(w) =>
                /\ AffordableAt(wake'[w], asks[w])
                /\ \A t \in now .. wake'[w] - 1 : ~AffordableAt(t, asks[w])
  <1>1. LimiterTypeOK => Exact
    <2> SUFFICES ASSUME LimiterTypeOK, NEW w \in Worker, Sleeps(w)
                 PROVE  /\ AffordableAt(wake'[w], asks[w])
                        /\ \A t \in now .. wake'[w] - 1 : ~AffordableAt(t, asks[w])
      OBVIOUS
    <2>1. asks[w] \in 0 .. Capacity /\ ~Affordable(asks[w])
      BY DEF LimiterTypeOK, Sleeps, Awake, Deny
    <2>2. wake'[w] = now + Wait(asks[w])
      BY DEF Sleeps, LimiterTypeOK
    <2>3. AffordableAt(now + Wait(asks[w]), asks[w])
      BY <2>1, SleepEndsInTime
    <2>4. AffordableAt(wake'[w], asks[w])
      BY <2>2, <2>3
    <2>5. ASSUME NEW t \in now .. wake'[w] - 1
          PROVE  ~AffordableAt(t, asks[w])
      <3>1. now \in Nat /\ Wait(asks[w]) \in Nat
        BY <2>1, WaitType DEF LimiterTypeOK
      <3>2. t \in now .. now + Wait(asks[w]) - 1
        BY <2>2, <3>1
      <3>3. QED
        BY <2>1, <3>2, SleepIsNeeded
    <2>6. QED
      BY <2>4, <2>5, Zenon
  <1>2. LimiterSpec => [][LimiterNext]_limiterVars
    BY DEF LimiterSpec
  <1>3. QED
    BY <1>1, LimiterTypeCorrect, PTL DEF SleepIsExact

\* Grants keep their distance and sleeps are exact, under the same condition.
THEOREM LimiterKeepsTime ==
    ASSUME \A d \in Delays : d >= MinInterval
    PROVE  LimiterSpec => KeepsTime
  BY RequestsSpaced, SleepsExactly DEF KeepsTime

-----------------------------------------------------------------------------
(* Refinement *)

\* Any header the client passes on is one RateLimiter knows of, or says nothing.
LEMMA HeadersMap ==
    ASSUME NEW m \in Remaining \cup {None}, NEW r \in Resets \cup {None},
           NoteHeaders(m, r), UNCHANGED <<now, callers>>
    PROVE  [LimiterNext]_limiterVars
  <1>1. CASE m \in Remaining
    BY <1>1 DEF LimiterNext
  <1>2. CASE m = None
    BY <1>2 DEF NoteHeaders, Healthy, limiterVars
  <1>3. QED
    BY <1>1, <1>2

\* Each step of a worker is one call of the limiter, or none.
LEMMA WorkerStepMaps ==
    ASSUME NEW w \in Worker, Step(w)
    PROVE  [LimiterNext]_limiterVars
  <1>1. CASE Call(w) \/ WakesUp(w) \/ Unreachable(w) \/ Broken(w) \/ ServerError(w)
                \/ BodyBreaks(w) \/ Answer(w)
    BY <1>1 DEF Call, WakesUp, Unreachable, Broken, ServerError, BodyBreaks, Answer
  <1>2. CASE BeginAttempt(w)
    BY <1>2, RequestAssumption DEF BeginAttempt, LimiterNext
  <1>3. CASE Denied(w) \/ Send(w)
    BY <1>3 DEF Denied, Send, LimiterNext
  <1>4. CASE Hears(w)
    BY <1>4, HeadersMap DEF Hears
  <1>5. CASE Limited(w)
    BY <1>5 DEF Limited, LimiterNext
  <1>6. QED
    BY <1>1, <1>2, <1>3, <1>4, <1>5 DEF Step

LEMMA StepMaps == [Next]_vars => [LimiterNext]_limiterVars
  <1>1. CASE UNCHANGED vars
    BY <1>1 DEF vars
  <1>2. CASE (Tick \/ Mark) /\ UNCHANGED loop
    BY <1>2 DEF LimiterNext
  <1>3. QED
    BY <1>1, <1>2, WorkerStepMaps DEF Next

\* The client is a user of the limiter as RateLimiter knows it: initial states
\* map to initial states, and every step to one critical section or a stutter.
THEOREM ClientUsesLimiter == Spec => UsesLimiter
  <1>1. Init => LimiterInit
    BY DEF Init
  <1>2. QED
    BY <1>1, StepMaps, PTL DEF Spec, UsesLimiter, LimiterSpec

\* Hence all retry loops together stay within the budget of the bucket.
THEOREM ClientWithinBudget == Spec => []WithinBudget
  BY ClientUsesLimiter, BudgetHolds, PTL DEF UsesLimiter

-----------------------------------------------------------------------------
(* The loop *)

LEMMA LoopInit == Init => TypeOK /\ LoopInv
  BY TypeInit, RequestAssumption DEF Init, LimiterInit, TypeOK, LoopInv, Progress, Attempt,
     LastAttempt

\* A call that ends counts what it sent.
LEMMA AfterEnd ==
    ASSUME TypeOK, LoopInv, LimiterTypeOK', NEW w \in Worker,
           NEW how \in {"ok", "refused", "exhausted", "transport"}, End(w, how),
           pc[w] \in {"sent", "heard"}, how = "exhausted" => LastAttempt(w),
           UNCHANGED <<asks, counters>>, reply' \in [Worker -> Reply \cup {None}]
    PROVE  (TypeOK /\ LoopInv)'
  <1>1. TypeOK'
    BY DEF End, counters, TypeOK
  <1>2. /\ pc'[w] = "idle" /\ verdict'[w] = how
        /\ \A v \in Worker : v # w => pc'[v] = pc[v] /\ verdict'[v] = verdict[v]
        /\ UNCHANGED <<attempt, tries, asks>>
    BY DEF End, counters, TypeOK
  <1>3. tries[w] = attempt[w] + 1
    BY DEF LoopInv, Progress
  <1>4. asks[w] = None
    BY DEF LoopInv, Progress
  <1>5. LoopInv'
    BY <1>2, <1>3, <1>4 DEF LoopInv, Progress, LastAttempt
  <1>6. QED
    BY <1>1, <1>5

\* A call that sleeps has an attempt left.
LEMMA AfterLater ==
    ASSUME TypeOK, LoopInv, LimiterTypeOK', NEW w \in Worker, Later(w),
           pc[w] \in {"sent", "heard"}, ~LastAttempt(w),
           UNCHANGED <<asks, counters>>, reply' \in [Worker -> Reply \cup {None}]
    PROVE  (TypeOK /\ LoopInv)'
  <1>1. PICK d \in BackOff[attempt[w]] : resume' = [resume EXCEPT ![w] = now + d]
    BY DEF Later
  <1>2. d \in Nat /\ now \in Nat
    BY RequestAssumption, LimiterAssumption DEF TypeOK, LimiterTypeOK
  <1>3. TypeOK'
    <2>1. now + d \in Nat
      BY <1>2
    <2>2. resume' \in [Worker -> Nat]
      BY <1>1, <2>1 DEF TypeOK
    <2>3. pc' \in [Worker -> {"idle", "loop", "acquire", "sent", "heard", "backoff"}]
      BY DEF Later, TypeOK
    <2>4. QED
      BY <2>2, <2>3 DEF Later, counters, TypeOK
  <1>4. /\ pc'[w] = "backoff"
        /\ \A v \in Worker : v # w => pc'[v] = pc[v]
        /\ UNCHANGED <<attempt, tries, asks, verdict>>
    BY DEF Later, counters, TypeOK
  <1>5. LoopInv'
    BY <1>4 DEF LoopInv, Progress, LastAttempt
  <1>6. QED
    BY <1>3, <1>5

LEMMA EndsOrSleeps ==
    ASSUME TypeOK, LoopInv, LimiterTypeOK', NEW w \in Worker,
           Unreachable(w) \/ Broken(w) \/ ServerError(w) \/ BodyBreaks(w) \/ Answer(w)
    PROVE  (TypeOK /\ LoopInv)'
  <1>1. /\ pc[w] \in {"sent", "heard"} /\ UNCHANGED <<asks, counters>>
        /\ reply' \in [Worker -> Reply \cup {None}]
    BY DEF Unreachable, Broken, ServerError, BodyBreaks, Answer, Heard, limiterVars,
           callers, TypeOK
  <1>2. \/ \E how \in {"ok", "refused", "exhausted", "transport"} :
              End(w, how) /\ (how = "exhausted" => LastAttempt(w))
        \/ Later(w) /\ ~LastAttempt(w)
    BY DEF Unreachable, Broken, ServerError, BodyBreaks, Answer
  <1>3. QED
    BY <1>1, <1>2, AfterEnd, AfterLater

\* A worker's own step keeps its part of the invariant, and touches nobody else's.
LEMMA LoopStep == TypeOK /\ LoopInv /\ [Next]_vars => (TypeOK /\ LoopInv)'
  <1> SUFFICES ASSUME TypeOK, LoopInv, [Next]_vars
               PROVE  (TypeOK /\ LoopInv)'
    OBVIOUS
  <1> USE RequestAssumption DEF Attempt
  <1>0. LimiterTypeOK'
    BY TypeStep, StepMaps DEF TypeOK
  <1>1. CASE UNCHANGED vars
    BY <1>0, <1>1 DEF vars, limiterVars, callers, loop, TypeOK, LoopInv, Progress,
       LastAttempt
  <1>2. CASE (Tick \/ Mark) /\ UNCHANGED loop
    BY <1>0, <1>2 DEF Tick, Mark, callers, loop, TypeOK, LoopInv, Progress, LastAttempt
  <1>3. ASSUME NEW w \in Worker, Call(w)
        PROVE  (TypeOK /\ LoopInv)'
    BY <1>0, <1>3 DEF Call, limiterVars, callers, TypeOK, LoopInv, Progress, LastAttempt
  <1>4. ASSUME NEW w \in Worker, BeginAttempt(w)
        PROVE  (TypeOK /\ LoopInv)'
    <2>1. TypeOK'
      BY <1>0, <1>4 DEF BeginAttempt, TypeOK
    <2>2. /\ asks'[w] = Lesser(Weight, Capacity) /\ pc'[w] = "acquire" /\ pc[w] = "loop"
          /\ \A v \in Worker : v # w => asks'[v] = asks[v] /\ pc'[v] = pc[v]
          /\ UNCHANGED <<attempt, tries, verdict>>
      BY <1>4 DEF BeginAttempt, Ask, TypeOK, LimiterTypeOK
    <2>3. LoopInv'
      BY <2>2 DEF LoopInv, Progress, LastAttempt
    <2>4. QED
      BY <2>1, <2>3
  <1>5. ASSUME NEW w \in Worker, Denied(w)
        PROVE  (TypeOK /\ LoopInv)'
    BY <1>0, <1>5 DEF Denied, Sleeps, loop, TypeOK, LoopInv, Progress, LastAttempt
  <1>6. ASSUME NEW w \in Worker, Send(w)
        PROVE  (TypeOK /\ LoopInv)'
    <2>1. asks[w] # None /\ pc[w] = "acquire" /\ tries[w] = attempt[w] /\ verdict[w] = "none"
      BY <1>6 DEF Send, Acquired, Awake, LoopInv, Progress
    <2>2. /\ asks'[w] = None /\ pc'[w] = "sent" /\ tries'[w] = attempt[w] + 1
          /\ \A v \in Worker : v # w =>
                asks'[v] = asks[v] /\ pc'[v] = pc[v] /\ tries'[v] = tries[v]
          /\ UNCHANGED <<reply, resume, attempt, calls, retries, verdict>>
      BY <1>6, <2>1 DEF Send, Acquired, TypeOK, LimiterTypeOK
    <2>3. tries' \in [Worker -> 0 .. MaxAttempts] /\ sent' \in Nat
      BY <1>6, <2>1, <2>2 DEF Send, TypeOK
    <2>4. TypeOK'
      BY <1>0, <1>6, <2>2, <2>3 DEF Send, TypeOK
    <2>5. LoopInv'
      BY <2>1, <2>2 DEF LoopInv, Progress, LastAttempt
    <2>6. QED
      BY <2>4, <2>5
  <1>7. ASSUME NEW w \in Worker, WakesUp(w)
        PROVE  (TypeOK /\ LoopInv)'
    BY <1>0, <1>7 DEF WakesUp, Again, limiterVars, callers, counters, TypeOK, LoopInv,
       Progress, LastAttempt
  <1>8. ASSUME NEW w \in Worker, Unreachable(w) \/ Broken(w) \/ ServerError(w)
                                    \/ BodyBreaks(w) \/ Answer(w)
        PROVE  (TypeOK /\ LoopInv)'
    BY <1>0, <1>8, EndsOrSleeps
  <1>9. ASSUME NEW w \in Worker, Hears(w)
        PROVE  (TypeOK /\ LoopInv)'
    BY <1>0, <1>9 DEF Hears, callers, counters, TypeOK, LoopInv, Progress, LastAttempt
  <1>10. ASSUME NEW w \in Worker, Limited(w)
         PROVE  (TypeOK /\ LoopInv)'
    <2>1. UNCHANGED <<asks, tries, resume, counters>> /\ reply' \in [Worker -> Reply \cup {None}]
      BY <1>10 DEF Limited, Heard, End, Again, callers, counters, TypeOK
    <2>2. pc[w] = "heard"
      BY <1>10 DEF Limited, Heard
    <2>3. CASE LastAttempt(w)
      <3>1. End(w, "exhausted")
        BY <1>10, <2>3 DEF Limited
      <3>2. QED
        BY <1>0, <2>1, <2>2, <2>3, <3>1, AfterEnd
    <2>4. CASE ~LastAttempt(w)
      <3>1. Again(w)
        BY <1>10, <2>4 DEF Limited
      <3>2. TypeOK'
        BY <1>0, <2>1, <2>4, <3>1 DEF Again, LastAttempt, counters, TypeOK
      <3>3. LoopInv'
        BY <2>1, <2>2, <3>1 DEF Again, LastAttempt, TypeOK, LoopInv, Progress
      <3>4. QED
        BY <3>2, <3>3
    <2>5. QED
      BY <2>3, <2>4
  <1>11. QED
    BY <1>1, <1>2, <1>3, <1>4, <1>5, <1>6, <1>7, <1>8, <1>9, <1>10 DEF Next, Step

LEMMA LoopInvHolds == Spec => [](TypeOK /\ LoopInv)
  BY LoopInit, LoopStep, PTL DEF Spec

\* The loop keeps its types: a call never counts more attempts than there are.
THEOREM ClientTypeCorrect == Spec => []TypeOK
  BY LoopInvHolds, PTL

\* A call that is exhausted sent every attempt it had.
THEOREM NeverGivesUpEarly == Spec => []GivesUpLate
  <1>1. LoopInv => GivesUpLate
    BY DEF LoopInv, Progress, GivesUpLate
  <1>2. QED
    BY <1>1, LoopInvHolds, PTL

\* Every request that goes out took the weight of its endpoint from the bucket.
THEOREM EveryRequestPaid == Spec => []PaidFor
  <1>1. Init => PaidFor
    BY LimiterAssumption, RequestAssumption DEF Init, LimiterInit, PaidFor, Lesser
  <1>2. TypeOK /\ LoopInv /\ PaidFor /\ [Next]_vars => PaidFor'
    <2> SUFFICES ASSUME TypeOK, LoopInv, PaidFor, [Next]_vars
                 PROVE  PaidFor'
      OBVIOUS
    <2>1. CASE UNCHANGED <<sent, spent>>
      BY <2>1 DEF PaidFor
    <2>2. ASSUME NEW w \in Worker, Send(w)
          PROVE  PaidFor'
      <3> DEFINE cost == Lesser(Weight, Capacity)
      <3>1. cost \in Int /\ sent \in Int
        BY LimiterAssumption, RequestAssumption DEF Lesser, TypeOK
      <3>2. asks[w] = cost
        BY <2>2 DEF Send, Acquired, Awake, LoopInv, Progress
      <3>3. sent' = sent + 1 /\ spent' = spent + cost /\ sent * cost = spent
        BY <2>2, <3>2 DEF Send, Acquired, Grant, PaidFor
      <3>4. (sent + 1) * cost = sent * cost + cost
        <4> HIDE DEF cost
        <4> QED
          BY <3>1
      <3>5. QED
        BY <3>3, <3>4 DEF PaidFor
    <2>3. ASSUME NEW w \in Worker, Step(w), ~Send(w)
          PROVE  UNCHANGED <<sent, spent>>
      <3>1. CASE Call(w) \/ BeginAttempt(w) \/ Denied(w) \/ WakesUp(w)
        BY <3>1 DEF Call, BeginAttempt, Denied, Sleeps, Deny, WakesUp, loop, counters,
           limiterVars, history
      <3>2. CASE Unreachable(w) \/ Broken(w) \/ ServerError(w) \/ BodyBreaks(w)
                    \/ Answer(w)
        BY <3>2 DEF Unreachable, Broken, ServerError, BodyBreaks, Answer, counters,
           limiterVars, history
      <3>3. CASE Hears(w)
        BY <3>3 DEF Hears, NoteHeaders, counters, history
      <3>4. CASE Limited(w)
        BY <3>4 DEF Limited, Penalize, counters
      <3>5. QED
        BY <2>3, <3>1, <3>2, <3>3, <3>4 DEF Step
    <2>4. CASE (Tick \/ Mark) /\ UNCHANGED loop
      BY <2>1, <2>4 DEF Tick, Mark, loop, history
    <2>5. CASE UNCHANGED vars
      BY <2>1, <2>5 DEF vars, limiterVars, history, loop
    <2>6. QED
      BY <2>1, <2>2, <2>3, <2>4, <2>5 DEF Next
  <1>3. QED
    BY <1>1, <1>2, LoopInvHolds, PTL DEF Spec

\* The accounts of every call are in order.
THEOREM CallsAccounted == Spec => []CallsArePaid
  BY ClientTypeCorrect, EveryRequestPaid, NeverGivesUpEarly, PTL DEF CallsArePaid

-----------------------------------------------------------------------------
(* The steps of RunJobs *)

\* Steps of the main task that touch neither a job nor a permit.
QuietMain ==
    Start \/ CannotPrepare \/ Prepared \/ AllSpawned \/ Listen \/ AllJoined
        \/ Interrupted \/ Shutdown \/ Exit

-----------------------------------------------------------------------------
(* How the jobs move *)

LEMMA JobsFinite ==
    /\ IsFiniteSet(Job)
    /\ \A S \in SUBSET Job : IsFiniteSet(S) /\ Cardinality(S) \in Nat
  <1>1. IsFiniteSet(Job)
    BY JobsAssumption, FS_Interval DEF Job
  <1>2. QED
    BY <1>1, FS_Subset, FS_CardinalityType

\* One more, or one less, runs.
LEMMA OneRunsMore ==
    ASSUME NEW S \in SUBSET Job, NEW j \in Job, j \notin S
    PROVE  Cardinality(S \cup {j}) = Cardinality(S) + 1
  BY JobsFinite, FS_AddElement

LEMMA OneRunsLess ==
    ASSUME NEW S \in SUBSET Job, NEW j \in Job, j \in S
    PROVE  Cardinality(S \ {j}) = Cardinality(S) - 1 /\ Cardinality(S) >= 1
  <1>1. Cardinality(S \ {j}) = Cardinality(S) - 1 /\ Cardinality(S) \in Nat
    BY JobsFinite, FS_RemoveElement
  <1>2. Cardinality(S \ {j}) \in Nat
    BY JobsFinite
  <1>3. QED
    BY <1>1, <1>2

\* A task that ends gives its permit back, and is no longer among the running.
LEMMA TaskEnds ==
    ASSUME JobsTypeOK, NEW j \in Job, job[j] \in Live,
           NEW state \in {"collected", "failed", "panicked", "aborted"},
           job' = [job EXCEPT ![j] = state]
    PROVE  /\ Running' = Running \ {j}
           /\ Cardinality(Running') = Cardinality(Running) - 1
           /\ Cardinality(Running) \in Nat
  <1>1. Running' = Running \ {j}
    BY DEF Running, JobsTypeOK, Live
  <1>2. j \in Running /\ Running \in SUBSET Job
    BY DEF Running
  <1>3. QED
    BY <1>1, <1>2, OneRunsLess, JobsFinite

\* A job that moves on among the running leaves their number alone.
LEMMA TaskGoesOn ==
    ASSUME JobsTypeOK, NEW j \in Job, job[j] \in Live, NEW state \in Live,
           job' = [job EXCEPT ![j] = state]
    PROVE  Running' = Running
  BY DEF Running, JobsTypeOK

-----------------------------------------------------------------------------
(* Permits *)

LEMMA PermitsInit == JobsInit => PermitsConserved
  <1> SUFFICES ASSUME JobsInit
               PROVE  PermitsConserved
    OBVIOUS
  <1>1. Running = {}
    BY DEF JobsInit, Running, Live
  <1>2. Cardinality(Running) = 0
    BY <1>1, FS_EmptySet
  <1>3. QED
    BY <1>2, JobsAssumption DEF JobsInit, PermitsConserved

LEMMA PermitsMain ==
    ASSUME JobsTypeOK, JobsInv, MainStep
    PROVE  PermitsConserved'
  <1>0. Cardinality(Running) \in Nat
    BY JobsFinite DEF Running
  <1> USE JobsAssumption DEF JobsInv, PermitsConserved, JobsTypeOK
  <1>1. CASE QuietMain
    <2>1. /\ UNCHANGED <<permits, holds, job>>
          /\ main # "killed"
      BY <1>1 DEF QuietMain, Start, CannotPrepare, Prepared, AllSpawned, Listen, AllJoined,
         Interrupted, Shutdown, Exit, signals, report
    <2>2. Running' = Running
      BY <2>1 DEF Running
    <2>3. QED
      BY <2>1, <2>2
  <1>2. CASE TakePermit
    <2>1. Running' = Running
      BY <1>2 DEF TakePermit, Running
    <2>2. QED
      BY <1>0, <1>2, <2>1 DEF TakePermit
  <1>3. CASE Spawn
    <2>1. spawned + 1 \in Job /\ job[spawned + 1] = "none"
      BY <1>3 DEF Spawn, SpawnOrder, Job
    <2>2. Running' = Running \cup {spawned + 1} /\ spawned + 1 \notin Running
      BY <1>3, <2>1 DEF Spawn, Running, Live
    <2>3. Cardinality(Running') = Cardinality(Running) + 1
      BY <2>1, <2>2, OneRunsMore DEF Running
    <2>4. QED
      BY <1>0, <1>3, <2>3 DEF Spawn
  <1>4. ASSUME NEW j \in Job, Joined(j)
        PROVE  PermitsConserved'
    <2>1. Running' = Running
      BY <1>4 DEF Joined, Running, Live, Over
    <2>2. QED
      BY <1>4, <2>1 DEF Joined
  <1>5. QED
    BY <1>1, <1>2, <1>3, <1>4 DEF MainStep, QuietMain

LEMMA PermitsJob ==
    ASSUME JobsTypeOK, JobsInv, NEW j \in Job, JobStep(j)
    PROVE  PermitsConserved' /\ permits' \in 0 .. Concurrency
  <1>0. Cardinality(Running) \in Nat
    BY JobsFinite DEF Running
  <1>1. /\ UNCHANGED <<main, holds>> /\ main # "killed"
    BY DEF JobStep, Scan, ReadClock, FillClock, KnowsTime, Ends, Panics, Aborts, rest, Alive
  <1>2. \/ UNCHANGED <<permits, job>>
        \/ /\ job[j] \in Live /\ permits' = permits
           /\ \E state \in Live : job' = [job EXCEPT ![j] = state]
        \/ /\ job[j] \in Live /\ permits' = permits + 1
           /\ \E state \in {"collected", "failed", "panicked", "aborted"} :
                 job' = [job EXCEPT ![j] = state]
    BY DEF JobStep, Scan, ReadClock, FillClock, KnowsTime, Ends, Panics, Aborts, GoesTo,
       Live
  <1>3. CASE UNCHANGED <<permits, job>>
    <2>1. Running' = Running
      BY <1>3 DEF Running
    <2>2. QED
      BY <1>1, <1>3, <2>1 DEF JobsInv, PermitsConserved, JobsTypeOK
  <1>4. CASE /\ job[j] \in Live /\ permits' = permits
             /\ \E state \in Live : job' = [job EXCEPT ![j] = state]
    BY <1>1, <1>4, TaskGoesOn DEF JobsInv, PermitsConserved, JobsTypeOK
  <1>5. CASE /\ job[j] \in Live /\ permits' = permits + 1
             /\ \E state \in {"collected", "failed", "panicked", "aborted"} :
                   job' = [job EXCEPT ![j] = state]
    <2>1. Cardinality(Running') = Cardinality(Running) - 1
      BY <1>5, TaskEnds
    <2>2. Cardinality(Running') \in Nat
      BY JobsFinite DEF Running
    <2>3. PermitsConserved'
      BY <1>0, <1>1, <1>5, <2>1 DEF JobsInv, PermitsConserved, JobsTypeOK
    <2>4. QED
      BY <1>0, <1>1, <1>5, <2>1, <2>2, <2>3, JobsAssumption
         DEF JobsInv, PermitsConserved, JobsTypeOK
  <1>6. QED
    BY <1>2, <1>3, <1>4, <1>5

LEMMA PermitsStep ==
    ASSUME JobsTypeOK, JobsInv, [JobsNext]_jobsVars
    PROVE  PermitsConserved'
  <1>1. CASE UNCHANGED jobsVars
    BY <1>1 DEF jobsVars, JobsInv, PermitsConserved, Running
  <1>2. CASE SigInt \/ Killed
    <2>1. CASE main' = "killed"
      BY <2>1 DEF PermitsConserved
    <2>2. CASE main' # "killed"
      BY <1>2, <2>2 DEF SigInt, Killed, Dies, JobsInv, PermitsConserved, Running, Alive
    <2>3. QED
      BY <2>1, <2>2
  <1>3. CASE ClockTicks
    BY <1>3 DEF ClockTicks, JobsInv, PermitsConserved, Running
  <1>4. QED
    BY <1>1, <1>2, <1>3, PermitsMain, PermitsJob DEF JobsNext

-----------------------------------------------------------------------------
(* Types *)

LEMMA JobsTypeInit == JobsInit => JobsTypeOK
  <1> SUFFICES ASSUME JobsInit
               PROVE  JobsTypeOK
    OBVIOUS
  <1>1. /\ job \in [Job -> {"none", "aborted", "joined"} \cup Live \cup Over]
        /\ ends \in [Job -> Nat \cup {Unset}]
    BY DEF JobsInit
  <1>2. permits \in 0 .. Concurrency /\ spawned \in 0 .. NumJobs
    BY JobsAssumption DEF JobsInit
  <1>3. QED
    BY <1>1, <1>2 DEF JobsInit, JobsTypeOK

LEMMA TypeMain ==
    ASSUME JobsTypeOK, JobsInv, MainStep
    PROVE  JobsTypeOK'
  <1>1. CASE QuietMain
    BY <1>1 DEF QuietMain, Start, CannotPrepare, Prepared, AllSpawned, Listen, AllJoined,
       Interrupted, Shutdown, Exit, signals, report, clockVars, JobsTypeOK
  <1>2. CASE TakePermit
    BY <1>2, JobsAssumption DEF TakePermit, signals, report, clockVars, JobsTypeOK
  <1>3. CASE Spawn
    <2>1. spawned < NumJobs
      BY <1>3 DEF Spawn, JobsInv, SpawnOrder
    <2>2. job' \in [Job -> {"none", "aborted", "joined"} \cup Live \cup Over]
      BY <1>3 DEF Spawn, JobsTypeOK, Live
    <2>3. spawned' \in 0 .. NumJobs
      BY <1>3, <2>1, JobsAssumption DEF Spawn, JobsTypeOK
    <2>4. QED
      BY <1>3, <2>2, <2>3 DEF Spawn, signals, report, clockVars, JobsTypeOK
  <1>4. ASSUME NEW j \in Job, Joined(j)
        PROVE  JobsTypeOK'
    BY <1>4 DEF Joined, clockVars, JobsTypeOK
  <1>5. QED
    BY <1>1, <1>2, <1>3, <1>4 DEF MainStep, QuietMain

LEMMA TypeJob ==
    ASSUME JobsTypeOK, JobsInv, NEW j \in Job, JobStep(j)
    PROVE  JobsTypeOK'
  <1>1. permits' \in 0 .. Concurrency
    BY PermitsJob
  <1>2. job' \in [Job -> {"none", "aborted", "joined"} \cup Live \cup Over]
    BY DEF JobStep, Scan, ReadClock, FillClock, KnowsTime, Ends, Panics, Aborts, GoesTo,
       rest, clockVars, JobsTypeOK, Live, Over
  <1>3. /\ clock' \in Nat \cup {Unset} /\ reader' \in Job \cup {Unset} /\ reads' \in Nat
        /\ ends' \in [Job -> Nat \cup {Unset}]
    <2>1. CASE FillClock(j)
      <3>1. PICK t \in {time} \cup {time + s : s \in Skews} : clock' = t
        BY <2>1 DEF FillClock
      <3>2. t \in Nat
        BY JobsAssumption DEF JobsTypeOK
      <3>3. QED
        BY <2>1, <3>1, <3>2 DEF FillClock, JobsTypeOK
    <2>2. CASE ~FillClock(j)
      BY <2>2 DEF JobStep, Scan, ReadClock, KnowsTime, Ends, Panics, Aborts, rest,
         clockVars, JobsTypeOK
    <2>3. QED
      BY <2>1, <2>2
  <1>4. UNCHANGED rest
    BY DEF JobStep, Scan, ReadClock, FillClock, KnowsTime, Ends, Panics, Aborts
  <1>5. QED
    BY <1>1, <1>2, <1>3, <1>4 DEF rest, signals, report, JobsTypeOK

LEMMA JobsTypeStep == JobsTypeOK /\ JobsInv /\ [JobsNext]_jobsVars => JobsTypeOK'
  <1> SUFFICES ASSUME JobsTypeOK, JobsInv, [JobsNext]_jobsVars
               PROVE  JobsTypeOK'
    OBVIOUS
  <1>1. CASE UNCHANGED jobsVars
    BY <1>1 DEF jobsVars, signals, report, clockVars, JobsTypeOK
  <1>2. CASE SigInt \/ Killed
    <2>1. CASE Dies
      BY <2>1 DEF Dies, signals, report, clockVars, JobsTypeOK
    <2>2. CASE SigInt /\ ~Dies
      BY <2>2 DEF SigInt, report, clockVars, JobsTypeOK
    <2>3. QED
      BY <1>2, <2>1, <2>2 DEF Killed
  <1>3. CASE ClockTicks
    BY <1>3 DEF ClockTicks, signals, report, clockVars, JobsTypeOK
  <1>4. QED
    BY <1>1, <1>2, <1>3, TypeMain, TypeJob DEF JobsNext

-----------------------------------------------------------------------------
(* Order and reports *)

\* Jobs come from nowhere but Spawn, and end up nowhere but in Joined.
LEMMA JobMoves ==
    ASSUME JobsTypeOK, [JobsNext]_jobsVars
    PROVE  \/ UNCHANGED job
           \/ Spawn
           \/ \E j \in Job : Joined(j)
           \/ /\ UNCHANGED <<spawned, collected, failures>>
              /\ \A j \in Job : \/ job'[j] = job[j]
                                \/ job[j] \in Live /\ job'[j] \in Live \cup Over \cup {"aborted"}
  <1>1. CASE UNCHANGED jobsVars
    BY <1>1 DEF jobsVars
  <1>2. CASE MainStep
    BY <1>2 DEF MainStep, Start, CannotPrepare, Prepared, TakePermit, AllSpawned, Listen,
       AllJoined, Interrupted, Shutdown, Exit
  <1>3. ASSUME NEW j \in Job, JobStep(j)
        PROVE  /\ UNCHANGED <<spawned, collected, failures>>
               /\ \A i \in Job : \/ job'[i] = job[i]
                                 \/ job[i] \in Live /\ job'[i] \in Live \cup Over \cup {"aborted"}
    <2>1. UNCHANGED <<spawned, collected, failures>>
      BY <1>3 DEF JobStep, Scan, ReadClock, FillClock, KnowsTime, Ends, Panics, Aborts,
         rest, report
    <2>2. UNCHANGED job \/ \E state \in Live \cup Over \cup {"aborted"} :
                             job[j] \in Live /\ job' = [job EXCEPT ![j] = state]
      BY <1>3 DEF JobStep, Scan, ReadClock, FillClock, KnowsTime, Ends, Panics, Aborts,
         GoesTo, Live, Over
    <2>3. QED
      BY <2>1, <2>2 DEF JobsTypeOK
  <1>4. CASE SigInt \/ Killed
    BY <1>4 DEF SigInt, Killed, Dies, report
  <1>5. CASE ClockTicks
    BY <1>5 DEF ClockTicks
  <1>6. QED
    BY <1>1, <1>2, <1>3, <1>4, <1>5 DEF JobsNext

\* Only the main task moves the run on, as long as nobody kills it.
LEMMA PhaseMoves ==
    ASSUME [JobsNext]_jobsVars
    PROVE  \/ MainStep
           \/ UNCHANGED <<main, spawned, holds, cut, report, exit, pings>>
           \/ Alive /\ Dies
  <1>1. ASSUME NEW j \in Job, JobStep(j)
        PROVE  UNCHANGED <<main, spawned, holds, cut, report, exit, pings>>
    BY <1>1 DEF JobStep, Scan, ReadClock, FillClock, KnowsTime, Ends, Panics, Aborts,
       rest, signals
  <1>2. CASE SigInt \/ Killed
    BY <1>2 DEF SigInt, Killed
  <1>3. CASE ClockTicks \/ UNCHANGED jobsVars
    BY <1>3 DEF ClockTicks, jobsVars, signals
  <1>4. QED
    BY <1>1, <1>2, <1>3 DEF JobsNext

LEMMA OrderStep ==
    ASSUME JobsTypeOK, JobsInv, [JobsNext]_jobsVars
    PROVE  SpawnOrder'
  <1> USE DEF JobsInv, SpawnOrder
  <1>1. CASE Spawn
    <2>1. /\ spawned \in Nat /\ spawned' = spawned + 1 /\ main = "spawn" /\ main' = main
          /\ ~holds' /\ spawned + 1 \in Job
          /\ \A j \in Job : job'[j] = IF j = spawned + 1 THEN "queued" ELSE job[j]
      BY <1>1, JobsAssumption DEF Spawn, JobsTypeOK, Job
    <2>2. \A j \in Job : job'[j] = "none" <=> j > spawned + 1
      BY <2>1 DEF Job
    <2>3. QED
      BY <2>1, <2>2
  <1>2. ASSUME NEW i \in Job, Joined(i)
        PROVE  SpawnOrder'
    <2>1. \A j \in Job : job'[j] = IF j = i THEN "joined" ELSE job[j]
      BY <1>2 DEF Joined, JobsTypeOK
    <2>2. job[i] # "none"
      BY <1>2 DEF Joined, Over
    <2>3. QED
      BY <1>2, <2>1, <2>2 DEF Joined
  <1>3. CASE ~Spawn /\ ~\E j \in Job : Joined(j)
    <2>1. \A j \in Job : job'[j] = "none" <=> job[j] = "none"
      BY <1>3, JobMoves DEF Live, Over
    <2>2. CASE MainStep
      <3>1. CASE TakePermit
        BY <2>1, <3>1, JobsAssumption DEF TakePermit, JobsTypeOK
      <3>2. CASE QuietMain
        <4>1. /\ UNCHANGED <<spawned, holds>>
              /\ main' \in {"start", "prepare"} => main \in {"start", "prepare"}
              /\ main' = "spawn" => main = "spawn" \/ ~holds
          BY <3>2 DEF QuietMain, Start, CannotPrepare, Prepared, AllSpawned, Listen,
             AllJoined, Interrupted, Shutdown, Exit
        <4>2. QED
          BY <2>1, <4>1
      <3>3. QED
        BY <1>3, <2>2, <3>1, <3>2 DEF MainStep, QuietMain
    <2>3. CASE UNCHANGED <<main, spawned, holds>>
      BY <2>1, <2>3
    <2>4. CASE Dies
      BY <2>1, <2>4 DEF Dies
    <2>5. QED
      BY <2>2, <2>3, <2>4, PhaseMoves
  <1>4. QED
    BY <1>1, <1>2, <1>3

LEMMA ReportStep ==
    ASSUME JobsTypeOK, JobsInv, [JobsNext]_jobsVars
    PROVE  ReportedOnce'
  <1> USE DEF JobsInv, ReportedOnce
  <1>1. CASE Spawn
    <2>1. /\ UNCHANGED <<collected, failures>> /\ spawned + 1 \in Job
          /\ job[spawned + 1] = "none"
          /\ \A j \in Job : job'[j] = IF j = spawned + 1 THEN "queued" ELSE job[j]
      BY <1>1, JobsAssumption DEF Spawn, SpawnOrder, JobsTypeOK, Job, report
    <2>2. QED
      BY <2>1
  <1>2. ASSUME NEW i \in Job, Joined(i)
        PROVE  ReportedOnce'
    <2>1. /\ job[i] # "joined"
          /\ \A j \in Job : job'[j] = IF j = i THEN "joined" ELSE job[j]
          /\ \/ collected' = collected \cup {i} /\ failures' = failures
             \/ collected' = collected /\ failures' = failures \cup {i}
      BY <1>2 DEF Joined, Over, JobsTypeOK
    <2>2. QED
      BY <2>1
  <1>3. CASE ~Spawn /\ ~\E j \in Job : Joined(j)
    <2>1. /\ UNCHANGED <<collected, failures>>
          /\ \A j \in Job : job'[j] = "joined" <=> job[j] = "joined"
      <3>1. UNCHANGED <<collected, failures>>
        <4>1. CASE MainStep
          BY <1>3, <4>1 DEF MainStep, Start, CannotPrepare, Prepared, TakePermit,
             AllSpawned, Listen, AllJoined, Interrupted, Shutdown, Exit, report
        <4>2. CASE UNCHANGED report \/ Dies
          BY <4>2 DEF report, Dies
        <4>3. QED
          BY <4>1, <4>2, PhaseMoves
      <3>2. QED
        BY <1>3, <3>1, JobMoves DEF Live, Over
    <2>2. QED
      BY <2>1
  <1>4. QED
    BY <1>1, <1>2, <1>3

\* Before the tasks are spawned, and after they were waited for, none runs; and
\* nothing but an interrupt takes the run to its report before all is joined.
LEMMA QuietStep ==
    ASSUME JobsTypeOK, JobsInv, [JobsNext]_jobsVars
    PROVE  QuietAtReport' /\ AllIn' /\ ExitsOnce'
  <1> USE DEF JobsInv, QuietAtReport, AllIn, ExitsOnce
  <1>1. CASE Start \/ Prepared \/ AllSpawned \/ Listen \/ TakePermit \/ Spawn
                \/ \E j \in Job : Joined(j)
    BY <1>1 DEF Start, Prepared, AllSpawned, Listen, TakePermit, Spawn, Joined, JobsTypeOK,
       signals
  <1>2. CASE CannotPrepare
    <2>1. \A j \in Job : job[j] = "none"
      BY <1>2, JobsAssumption DEF CannotPrepare, SpawnOrder, Job
    <2>2. QED
      BY <1>2, <2>1, JobsAssumption DEF CannotPrepare, Running, Live
  <1>3. CASE AllJoined \/ Interrupted
    BY <1>3 DEF AllJoined, Interrupted, signals
  <1>4. CASE Shutdown \/ Exit
    BY <1>4, JobsAssumption DEF Shutdown, Exit, Running, signals
  <1>5. CASE UNCHANGED <<main, cut, exit>>
    <2>1. CASE main \in {"shutdown", "report", "exited"}
      <3>1. ~Spawn /\ ~\E j \in Job : Joined(j)
        BY <2>1 DEF Spawn, Joined
      <3>2. \A j \in Job : job'[j] = job[j] \/ job[j] \in Live
        BY <3>1, JobMoves
      <3>3. AllIn'
        BY <1>5, <3>2 DEF Live
      <3>4. Running = {} => Running' = {}
        BY <3>2 DEF Running
      <3>5. QED
        BY <1>5, <3>3, <3>4
    <2>2. CASE main \notin {"shutdown", "report", "exited"}
      BY <1>5, <2>2
    <2>3. QED
      BY <2>1, <2>2
  <1>6. CASE Alive /\ Dies
    BY <1>6 DEF Alive, Dies
  <1>7. QED
    BY <1>1, <1>2, <1>3, <1>4, <1>5, <1>6, PhaseMoves DEF MainStep

LEMMA PingsStep ==
    ASSUME JobsTypeOK, JobsInv, [JobsNext]_jobsVars
    PROVE  PingsTell'
  <1> USE JobsAssumption DEF JobsInv, PingsTell, ExitsOnce
  <1>1. CASE Start \/ Prepared \/ AllSpawned \/ Listen \/ TakePermit \/ Spawn
                \/ AllJoined \/ Interrupted \/ Shutdown
    BY <1>1 DEF Start, Prepared, AllSpawned, Listen, TakePermit, Spawn, AllJoined,
       Interrupted, Shutdown, report
  <1>2. CASE \E j \in Job : Joined(j)
    BY <1>2 DEF Joined
  <1>3. CASE CannotPrepare
    BY <1>3 DEF CannotPrepare, report
  <1>4. CASE Exit
    BY <1>4 DEF Exit, report
  <1>5. CASE UNCHANGED <<main, report, exit, pings>>
    BY <1>5 DEF report
  <1>6. CASE Alive /\ Dies
    BY <1>6 DEF Alive, Dies, report
  <1>7. QED
    BY <1>1, <1>2, <1>3, <1>4, <1>5, <1>6, PhaseMoves DEF MainStep

-----------------------------------------------------------------------------
(* The clock *)

\* Who is dead stays dead, in the report or as a task nobody has joined yet.
LEMMA DeadGrow ==
    ASSUME JobsTypeOK, JobsInv, [JobsNext]_jobsVars
    PROVE  /\ Dead \subseteq Dead' /\ Dead \in SUBSET Job /\ Dead' \in SUBSET Job
           /\ Cardinality(Dead) <= Cardinality(Dead')
           /\ Cardinality(Dead) \in Nat /\ Cardinality(Dead') \in Nat
  <1>1. Dead \in SUBSET Job /\ Dead' \in SUBSET Job
    BY JobsTypeStep DEF Dead, JobsTypeOK
  <1>2. Dead \subseteq Dead'
    <2>1. CASE Spawn
      <3>1. spawned + 1 \in Job /\ job[spawned + 1] = "none"
        BY <2>1, JobsAssumption DEF Spawn, JobsInv, SpawnOrder, JobsTypeOK, Job
      <3>2. QED
        BY <2>1, <3>1 DEF Spawn, Dead, JobsTypeOK, report
    <2>2. CASE \E i \in Job : Joined(i)
      BY <2>2 DEF Joined, Dead, JobsTypeOK
    <2>3. CASE ~Spawn /\ ~\E i \in Job : Joined(i)
      <3>1. failures' = failures
        <4>1. CASE MainStep
          BY <2>3, <4>1 DEF MainStep, Start, CannotPrepare, Prepared, TakePermit,
             AllSpawned, Listen, AllJoined, Interrupted, Shutdown, Exit, report
        <4>2. CASE UNCHANGED report \/ Dies
          BY <4>2 DEF report, Dies
        <4>3. QED
          BY <4>1, <4>2, PhaseMoves
      <3>2. \A j \in Job : job[j] = "panicked" => job'[j] = "panicked"
        BY <2>3, JobMoves DEF Live
      <3>3. QED
        BY <3>1, <3>2 DEF Dead
    <2>4. QED
      BY <2>1, <2>2, <2>3
  <1>3. QED
    BY <1>1, <1>2, JobsFinite, FS_Subset

LEMMA ReadersStep ==
    ASSUME JobsTypeOK, JobsInv, [JobsNext]_jobsVars
    PROVE  ReadersCounted'
  <1> DEFINE early == main \in {"start", "prepare", "spawn", "join"}
  <1>0. reads \in Nat /\ (early => ReadersCounted)
    BY DEF JobsTypeOK, JobsInv
  <1> USE JobsAssumption, DeadGrow DEF JobsInv, ReadersCounted
  <1>1. ASSUME NEW j \in Job, ReadClock(j)
        PROVE  ReadersCounted'
    BY <1>0, <1>1 DEF ReadClock, rest, Job
  <1>2. ASSUME NEW j \in Job, FillClock(j)
        PROVE  ReadersCounted'
    <2>1. reader # Unset /\ UNCHANGED <<main, reads>>
      BY <1>2 DEF FillClock, rest, Job
    <2>2. clock' # Unset
      BY <1>2 DEF FillClock, JobsTypeOK
    <2>3. QED
      BY <1>0, <2>1, <2>2
  <1>3. ASSUME NEW j \in Job, Panics(j)
        PROVE  ReadersCounted'
    <2>1. Dead' = Dead \cup {j} /\ j \notin Dead
      BY <1>3 DEF Panics, GoesTo, Dead, ReportedOnce, Live, rest, report, JobsTypeOK
    <2>2. Cardinality(Dead') = Cardinality(Dead) + 1
      BY <2>1, OneRunsMore
    <2>3. UNCHANGED <<main, reads, clock>>
      BY <1>3 DEF Panics, rest
    <2>4. QED
      BY <1>0, <2>2, <2>3
  <1>4. ASSUME NEW j \in Job, Aborts(j)
        PROVE  ReadersCounted'
    BY <1>4 DEF Aborts, rest
  <1>5. CASE UNCHANGED clockVars
    <2>1. main' \in {"start", "prepare", "spawn", "join"} => early
      <3>1. CASE MainStep
        BY <3>1 DEF MainStep, Start, CannotPrepare, Prepared, TakePermit, Spawn,
           AllSpawned, Listen, Joined, AllJoined, Interrupted, Shutdown, Exit
      <3>2. CASE UNCHANGED main \/ Dies
        BY <3>2 DEF Dies
      <3>3. QED
        BY <3>1, <3>2, PhaseMoves
    <2>2. UNCHANGED <<reads, clock, reader>>
      BY <1>5 DEF clockVars
    <2>3. QED
      BY <1>0, <2>1, <2>2
  <1>6. ASSUME NEW j \in Job, KnowsTime(j)
        PROVE  ReadersCounted'
    BY <1>0, <1>6 DEF KnowsTime, rest
  <1>7. UNCHANGED clockVars \/ \E j \in Job : \/ ReadClock(j) \/ FillClock(j) \/ KnowsTime(j)
                                              \/ Panics(j) \/ Aborts(j)
    <2>1. CASE MainStep
      BY <2>1 DEF MainStep, Start, CannotPrepare, Prepared, TakePermit, Spawn,
         AllSpawned, Listen, Joined, AllJoined, Interrupted, Shutdown, Exit
    <2>2. CASE \E j \in Job : JobStep(j)
      BY <2>2 DEF JobStep, Scan, Ends
    <2>3. CASE SigInt \/ Killed \/ ClockTicks \/ UNCHANGED jobsVars
      BY <2>3 DEF SigInt, Killed, Dies, ClockTicks, jobsVars
    <2>4. QED
      BY <2>1, <2>2, <2>3 DEF JobsNext
  <1>8. QED
    BY <1>1, <1>2, <1>3, <1>4, <1>5, <1>6, <1>7

-----------------------------------------------------------------------------
(* The theorems *)

LEMMA JobsInvInit == JobsInit => JobsInv
  <1> SUFFICES ASSUME JobsInit
               PROVE  JobsInv
    OBVIOUS
  <1>1. Cardinality(Dead) \in Nat
    BY JobsFinite, JobsTypeInit DEF Dead, JobsTypeOK
  <1>2. SpawnOrder
    BY JobsAssumption DEF JobsInit, SpawnOrder, Job
  <1>3. ReadersCounted
    BY <1>1 DEF JobsInit, ReadersCounted
  <1>4. AllIn /\ ExitsOnce /\ ReportedOnce /\ QuietAtReport /\ PingsTell
    BY JobsAssumption DEF JobsInit, AllIn, ExitsOnce, ReportedOnce, QuietAtReport, PingsTell
  <1>5. QED
    BY <1>2, <1>3, <1>4, PermitsInit DEF JobsInv

LEMMA JobsInvStep == JobsTypeOK /\ JobsInv /\ [JobsNext]_jobsVars => JobsInv'
  BY OrderStep, QuietStep, ReadersStep, PermitsStep, ReportStep, PingsStep DEF JobsInv

LEMMA JobsInvHolds == JobsSpec => [](JobsTypeOK /\ JobsInv)
  BY JobsTypeInit, JobsTypeStep, JobsInvInit, JobsInvStep, PTL DEF JobsSpec

\* The types of a run; the permits are never more than there were, nor negative.
THEOREM JobsTypeCorrect == JobsSpec => []JobsTypeOK
  BY JobsInvHolds, PTL

\* No permit is lost or doubled: not by a failure, a panic or an abort, nor
\* between the moment the main task takes it and the task it goes to.
THEOREM PermitsKept == JobsSpec => []PermitsConserved
  BY JobsInvHolds, PTL DEF JobsInv

\* No series is reported twice, left out, or reported both ways.
THEOREM EachReportedOnce == JobsSpec => []ReportedOnce
  BY JobsInvHolds, PTL DEF JobsInv

\* No task runs any more when the report is printed and the process exits.
THEOREM QuietWhenReported == JobsSpec => []QuietAtReport
  BY JobsInvHolds, PTL DEF JobsInv

\* The pings and the exit code say the same.
THEOREM PingsAgree == JobsSpec => []PingsTell
  BY JobsInvHolds, PTL DEF JobsInv

\* Unless it was interrupted, a run says success exactly if all was collected.
THEOREM ExitCodeTells == JobsSpec => []ExitTells
  <1>1. JobsTypeOK /\ JobsInv => ExitTells
    <2> SUFFICES ASSUME JobsTypeOK, JobsInv, exit \in {"success", "partial"}, ~cut
                 PROVE  exit = "success" <=> collected = Job
      BY DEF ExitTells
    <2>1. main = "exited"
      BY JobsAssumption DEF JobsInv, ExitsOnce
    <2>2. collected \cup failures = Job /\ collected \cap failures = {}
      BY <2>1 DEF JobsInv, AllIn, ReportedOnce, JobsTypeOK
    <2>3. exit = "success" <=> failures = {}
      BY DEF JobsInv, PingsTell
    <2>4. QED
      BY <2>2, <2>3
  <1>2. QED
    BY <1>1, JobsInvHolds, PTL

\* As long as a task may still read the clock, no more timestamps were asked for
\* than one, and one for each task that died.
THEOREM ClockAskedOnce == JobsSpec => []ClockReadOnce
  <1>1. JobsTypeOK /\ JobsInv => ClockReadOnce
    <2> SUFFICES ASSUME JobsTypeOK, JobsInv, main \in {"spawn", "join"}
                 PROVE  reads <= 1 + Cardinality(Dead)
      BY DEF ClockReadOnce, Dead
    <2>1. Cardinality(Dead) \in Nat /\ reads \in Nat
      BY JobsFinite DEF Dead, JobsTypeOK
    <2>2. QED
      BY <2>1 DEF JobsInv, ReadersCounted
  <1>2. QED
    BY <1>1, JobsInvHolds, PTL

\* The report, the exit code and the pings tell what happened.
THEOREM ReportIsTrue == JobsSpec => []ReportTells
  BY JobsTypeCorrect, EachReportedOnce, ExitCodeTells, PingsAgree, QuietWhenReported,
     PTL DEF ReportTells

\* Permits and the clock are shared fairly.
THEOREM SharedByAll == JobsSpec => []SharedFairly
  BY PermitsKept, ClockAskedOnce, PTL DEF SharedFairly

-----------------------------------------------------------------------------
(* The partition file: types *)

\* A merge has the bars of both.
LEMMA MergedType ==
    ASSUME NEW old \in Rows, NEW fresh \in Rows
    PROVE  /\ Merged(old, fresh) \in Rows
           /\ DOMAIN Merged(old, fresh) = DOMAIN old \cup DOMAIN fresh
  <1>1. PICK S \in SUBSET Bar : old \in [S -> Value]
    BY DEF Rows
  <1>2. PICK T \in SUBSET Bar : fresh \in [T -> Value]
    BY DEF Rows
  <1>3. Merged(old, fresh) \in [S \cup T -> Value]
    BY <1>1, <1>2 DEF Merged
  <1>4. S \cup T \in SUBSET Bar
    BY <1>1, <1>2
  <1>5. QED
    BY <1>3, <1>4 DEF Rows, Merged

LEMMA NoRowsType == NoRows \in Rows
  <1>1. NoRows \in [{} -> Value]
    BY DEF NoRows
  <1>2. QED
    BY <1>1 DEF Rows

LEMMA RowsHaveBars == \A r \in Rows : DOMAIN r \subseteq Bar
  BY DEF Rows

LEMMA TornType == Torn \in Content
  BY NoRowsType DEF Torn, Content

LEMMA IdleType == Idle \in Op
  BY NoRowsType DEF Idle, Op

LEMMA VisibleType == FileTypeOK => Visible \in Content
  BY NoRowsType DEF FileTypeOK, Visible, Content

LEMMA DeeperType ==
    ASSUME NEW a \in Floor \cup {Absent}, NEW b \in Floor \cup {Absent}
    PROVE  Deeper(a, b) \in Floor \cup {Absent}
  BY DEF Deeper

LEMMA FileTypesInit == FileInit => FileTypeOK
  BY TornType, IdleType DEF FileInit, FileTypeOK

LEMMA CollectedType ==
    ASSUME NEW c \in [Inode -> Content], Collected(c)
    PROVE  content' \in [Inode -> Content]
  BY TornType DEF Collected

\* One writer's op changes, to a op.
LEMMA TypeBeginMerge ==
    ASSUME FileTypeOK, NEW w \in Writer, NEW fresh \in Rows,
           NEW floor \in Floor \cup {Absent}, BeginMerge(w, fresh, floor)
    PROVE  FileTypeOK'
  <1> DEFINE rows == Merged(Visible.rows, fresh)
             begun == [Idle EXCEPT !.pc = "read", !.fresh = fresh,
                                   !.floor = floor, !.rows = rows]
  <1>1. Visible.rows \in Rows
    BY VisibleType DEF Content
  <1>2. rows \in Rows
    BY <1>1, MergedType
  <1>3. begun \in Op
    <2> HIDE DEF rows
    <2> QED
      BY <1>2, NoRowsType DEF Idle, Op
  <1>4. op' = op \/ op' = [op EXCEPT ![w] = begun]
    BY DEF BeginMerge
  <1>5. op' \in [Writer -> Op]
    <2> HIDE DEF begun
    <2> QED
      BY <1>3, <1>4 DEF FileTypeOK
  <1>6. QED
    BY <1>5 DEF BeginMerge, FileTypeOK

LEMMA TypeReads ==
    ASSUME FileTypeOK, NEW w \in Writer,
           \/ \E floor \in Floor : BeginStamp(w, floor)
           \/ ReadFloor(w) \/ ReadRows(w) \/ ReadFails(w) \/ WriteFails(w)
    PROVE  FileTypeOK'
  <1>1. op' \in [Writer -> Op]
    <2>1. CASE \E floor \in Floor : BeginStamp(w, floor)
      <3>1. PICK floor \in Floor : BeginStamp(w, floor)
        BY <2>1
      <3>2. [Idle EXCEPT !.pc = "read", !.stamp = TRUE, !.floor = floor] \in Op
        BY NoRowsType DEF Idle, Op
      <3>3. QED
        BY <3>1, <3>2 DEF BeginStamp, FileTypeOK
    <2>2. CASE ReadFloor(w)
      <3>1. op[w] \in Op /\ op[w].floor \in Floor \cup {Absent}
        BY DEF FileTypeOK, Op
      <3>2. Deeper(Visible.floor, op[w].floor) \in Floor \cup {Absent}
        BY <3>1, VisibleType, DeeperType DEF Content
      <3>3. [op[w] EXCEPT !.pc = "ready", !.floor = Deeper(Visible.floor, op[w].floor)]
                \in Op
        BY <3>1, <3>2 DEF Op
      <3>4. op' = [op EXCEPT ![w] = [op[w] EXCEPT !.pc = "ready",
                                          !.floor = Deeper(Visible.floor, op[w].floor)]]
        BY <2>2 DEF ReadFloor, FileTypeOK
      <3>5. QED
        BY <3>3, <3>4 DEF FileTypeOK
    <2>3. CASE ReadRows(w)
      <3>1. Visible.rows \in Rows
        BY VisibleType DEF Content
      <3>2. [op[w] EXCEPT !.pc = "ready", !.rows = Visible.rows] \in Op
        BY <3>1 DEF FileTypeOK, Op
      <3>3. op' = [op EXCEPT ![w] = [op[w] EXCEPT !.pc = "ready",
                                                     !.rows = Visible.rows]]
        BY <2>3 DEF ReadRows, FileTypeOK
      <3>4. QED
        BY <3>2, <3>3 DEF FileTypeOK
    <2>4. CASE ReadFails(w) \/ WriteFails(w)
      BY <2>4, IdleType DEF ReadFails, WriteFails, Fails, FileTypeOK
    <2>5. QED
      BY <2>1, <2>2, <2>3, <2>4
  <1>2. QED
    BY <1>1 DEF BeginStamp, ReadFloor, ReadRows, ReadFails, WriteFails, FileTypeOK

LEMMA TypeOpen == FileTypeOK /\ (\E w \in Writer : Open(w)) => FileTypeOK'
  <1> SUFFICES ASSUME FileTypeOK, NEW w \in Writer, Open(w)
               PROVE  FileTypeOK'
    OBVIOUS
  <1>1. PICK i \in Inode :
          /\ content' = [content EXCEPT ![i] = Torn]
          /\ synced' = synced \ {i}
          /\ tmp' = [tmp EXCEPT ![ProcessOf[w]] = i]
          /\ op' = [v \in Writer |->
                CASE v = w -> [op[w] EXCEPT !.pc = "open", !.inode = i,
                                 !.alone = ({u \in Writer \ {w} : op[u].inode = i} = {})]
                  [] v \in {u \in Writer \ {w} : op[u].inode = i}
                       -> [op[v] EXCEPT !.alone = FALSE]
                  [] OTHER -> op[v]]
    BY DEF Open
  <1>2. content' \in [Inode -> Content]
    BY <1>1, TornType DEF FileTypeOK
  <1>3. ASSUME NEW v \in Writer
        PROVE  op'[v] \in Op
    <2>1. op[v] \in Op
      BY DEF FileTypeOK
    <2> DEFINE lone == {u \in Writer \ {w} : op[u].inode = i} = {}
    <2>2. lone \in BOOLEAN
      OBVIOUS
    <2>3. /\ [op[v] EXCEPT !.pc = "open", !.inode = i, !.alone = lone] \in Op
          /\ [op[v] EXCEPT !.alone = FALSE] \in Op
      <3> HIDE DEF lone
      <3> QED
        BY <2>1, <2>2 DEF Op
    <2>4. QED
      BY <1>1, <2>1, <2>3
  <1>4. op' \in [Writer -> Op]
    BY <1>1, <1>3
  <1>5. QED
    BY <1>1, <1>2, <1>4 DEF Open, FileTypeOK

LEMMA TypeWrite ==
    ASSUME FileTypeOK, NEW w \in Writer, Write(w)
    PROVE  FileTypeOK'
  <1>1. op[w] \in Op
    BY DEF FileTypeOK
  <1>2. [rows |-> op[w].rows, floor |-> op[w].floor, whole |-> TRUE] \in Content
    BY <1>1 DEF Op, Content
  <1>3. content' \in [Inode -> Content]
    BY <1>2, TornType DEF Write, FileTypeOK
  <1>4. [op[w] EXCEPT !.pc = "written", !.inode = Absent, !.rows = NoRows] \in Op
    BY <1>1, NoRowsType DEF Op
  <1>5. op' = [op EXCEPT ![w] = [op[w] EXCEPT !.pc = "written", !.inode = Absent,
                                                 !.rows = NoRows]]
    BY DEF Write, FileTypeOK
  <1>6. op' \in [Writer -> Op]
    BY <1>4, <1>5 DEF FileTypeOK
  <1>7. QED
    BY <1>3, <1>6 DEF Write, FileTypeOK

LEMMA TypeSyncAndRename ==
    ASSUME FileTypeOK, NEW w \in Writer,
           Sync(w) \/ Rename(w) \/ RenameFails(w) \/ SyncDir(w)
    PROVE  FileTypeOK'
  <1>1. op[w] \in Op /\ ProcessOf[w] \in Process /\ Tmp(w) \in Inode \cup {Absent}
    BY FileAssumption DEF FileTypeOK, Tmp
  <1>2. [op[w] EXCEPT !.pc = "synced"] \in Op /\ [op[w] EXCEPT !.pc = "renamed"] \in Op
    BY <1>1 DEF Op
  <1>3. CASE Sync(w)
    BY <1>1, <1>2, <1>3 DEF Sync, Goes, FileTypeOK
  <1>4. CASE Rename(w)
    BY <1>1, <1>2, <1>4 DEF Rename, Goes, FileTypeOK
  <1>5. CASE RenameFails(w)
    <2>1. content' \in [Inode -> Content]
      BY <1>5, CollectedType DEF RenameFails, FileTypeOK
    <2>2. op' \in [Writer -> Op]
      BY <1>5, IdleType DEF RenameFails, Fails, FileTypeOK
    <2>3. QED
      BY <1>5, <2>1, <2>2 DEF RenameFails, FileTypeOK
  <1>6. CASE SyncDir(w)
    <2>1. content' \in [Inode -> Content]
      BY <1>6, CollectedType DEF SyncDir, FileTypeOK
    <2>2. op' \in [Writer -> Op]
      BY <1>6, IdleType DEF SyncDir, Fails, FileTypeOK
    <2>3. acked' \subseteq Bar
      BY <1>1, <1>6, RowsHaveBars DEF SyncDir, FileTypeOK, Op
    <2>4. QED
      BY <1>6, <2>1, <2>2, <2>3 DEF SyncDir, FileTypeOK
  <1>7. QED
    BY <1>3, <1>4, <1>5, <1>6

LEMMA TypeKill ==
    ASSUME FileTypeOK, NEW p \in Process, Kill(p)
    PROVE  FileTypeOK'
  <1>1. op' \in [Writer -> Op]
    BY IdleType DEF Kill, FileTypeOK
  <1>2. QED
    BY <1>1 DEF Kill, FileTypeOK

LEMMA TypePowerLoss == FileTypeOK /\ PowerLoss => FileTypeOK'
  <1> SUFFICES ASSUME FileTypeOK, PowerLoss
               PROVE  FileTypeOK'
    OBVIOUS
  <1>1. PICK lost \in SUBSET (Inode \ synced) :
          Collected([i \in Inode |-> IF i \in lost THEN Torn ELSE content[i]])
    BY DEF PowerLoss
  <1>2. [i \in Inode |-> IF i \in lost THEN Torn ELSE content[i]] \in [Inode -> Content]
    BY TornType DEF FileTypeOK
  <1>3. content' \in [Inode -> Content]
    BY <1>1, <1>2, CollectedType
  <1>4. op' \in [Writer -> Op]
    BY IdleType DEF PowerLoss
  <1>5. QED
    BY <1>3, <1>4 DEF PowerLoss, FileTypeOK

LEMMA FileTypesStep == FileTypeOK /\ [FileNext]_fileVars => FileTypeOK'
  <1> SUFFICES ASSUME FileTypeOK, [FileNext]_fileVars
               PROVE  FileTypeOK'
    OBVIOUS
  <1>1. CASE UNCHANGED fileVars
    BY <1>1 DEF fileVars, FileTypeOK
  <1>2. ASSUME NEW w \in Writer, WriterStep(w)
        PROVE  FileTypeOK'
    BY <1>2, TypeBeginMerge, TypeReads, TypeOpen, TypeWrite, TypeSyncAndRename DEF WriterStep
  <1>3. QED
    BY <1>1, <1>2, TypeKill, TypePowerLoss DEF FileNext

\* Whatever the writers do, the names lead to inodes, the inodes hold rows and a
\* floor, and a merge that returned Ok was about bars of this partition.
THEOREM FileTypeCorrect == FileSpec => []FileTypeOK
  BY FileTypesInit, FileTypesStep, PTL DEF FileSpec

-----------------------------------------------------------------------------
(* No reader finds half a file *)

LEMMA TmpType ==
    ASSUME FileTypeOK, NEW w \in Writer
    PROVE  ProcessOf[w] \in Process /\ Tmp(w) \in Inode \cup {Absent}
  BY FileAssumption DEF FileTypeOK, Tmp

\* What still has a name keeps its content when the rest is collected.
LEMMA NamedIsKept ==
    ASSUME NEW c \in [Inode -> Content], Collected(c), NEW i \in Inode,
           \/ i \in {path', onDisk'}
           \/ \E p \in Process : i = tmp'[p]
    PROVE  content'[i] = c[i]
  <1>1. i \in Used'
    BY DEF Used
  <1>2. QED
    BY <1>1 DEF Collected

LEMMA FileInvInit == FileInit => FileInv
  BY DEF FileInit, FileInv, Safe, TmpApart, Stages, Stage, At, Idle

\* A op that leads to no inode and has none on its way disturbs nothing.
LEMMA FileInvJob ==
    ASSUME FileTypeOK, FileInv, NEW w \in Writer, NEW j,
           UNCHANGED <<path, tmp, content, synced, onDisk>>,
           j.pc \in {"idle", "read", "ready"}, j.inode = Absent,
           op' = [op EXCEPT ![w] = j]
    PROVE  FileInv'
  <1>1. \A v \in Writer : op'[v] = IF v = w THEN j ELSE op[v]
    BY DEF FileTypeOK
  <1>2. Stages'
    <2> SUFFICES ASSUME NEW v \in Writer
                 PROVE  Stage(v)'
      BY DEF Stages
    <2>1. Tmp(v)' = Tmp(v)
      BY DEF Tmp
    <2>2. CASE v = w
      BY <1>1, <2>2 DEF Stage, At
    <2>3. CASE v # w
      BY <1>1, <2>1, <2>3 DEF At, FileInv, Stages, Stage
    <2>4. QED
      BY <2>2, <2>3
  <1>3. QED
    BY <1>2 DEF FileInv, Safe, TmpApart

\* Reading, and giving up, change nothing but the writer's op.
LEMMA FileInvReads ==
    ASSUME FileTypeOK, FileInv, NEW w \in Writer,
           \/ \E fresh \in Rows \ {NoRows}, floor \in Floor \cup {Absent} :
                 BeginMerge(w, fresh, floor)
           \/ \E floor \in Floor : BeginStamp(w, floor)
           \/ ReadFloor(w) \/ ReadRows(w) \/ ReadFails(w) \/ WriteFails(w)
    PROVE  FileInv'
  <1>1. UNCHANGED <<path, tmp, content, synced, onDisk>>
    BY DEF BeginMerge, BeginStamp, ReadFloor, ReadRows, ReadFails, WriteFails
  <1>2. op' = [op EXCEPT ![w] = op'[w]] /\ op[w] \in Op
    BY DEF BeginMerge, BeginStamp, ReadFloor, ReadRows, ReadFails, WriteFails, Fails,
           FileTypeOK
  <1>3. op'[w].pc \in {"idle", "read", "ready"} /\ op'[w].inode = Absent
    <2>1. ASSUME NEW fresh \in Rows \ {NoRows}, NEW floor \in Floor \cup {Absent},
                 BeginMerge(w, fresh, floor)
          PROVE  op'[w].pc \in {"idle", "read"} /\ op'[w].inode = Absent
      BY <2>1 DEF BeginMerge, Idle, At, FileInv, Stages, Stage, FileTypeOK
    <2>2. ASSUME NEW floor \in Floor, BeginStamp(w, floor)
          PROVE  op'[w].pc = "read" /\ op'[w].inode = Absent
      BY <2>2 DEF BeginStamp, Idle, FileTypeOK
    <2>3. CASE ReadFloor(w) \/ ReadRows(w)
      BY <1>2, <2>3 DEF ReadFloor, ReadRows, At, FileInv, Stages, Stage, FileTypeOK, Op
    <2>4. CASE ReadFails(w) \/ WriteFails(w)
      BY <2>4 DEF ReadFails, WriteFails, Fails, Idle, FileTypeOK
    <2>5. QED
      BY <2>1, <2>2, <2>3, <2>4
  <1>4. QED
    BY <1>1, <1>2, <1>3, FileInvJob

\* Tmp names of different writers lead to different inodes.
LEMMA TmpsDiffer ==
    ASSUME FileTypeOK, FileInv, OwnTmp, NEW v \in Writer, NEW w \in Writer, v # w
    PROVE  /\ ProcessOf[v] # ProcessOf[w]
           /\ Tmp(v) # Absent => Tmp(v) # Tmp(w)
           /\ Tmp(v) # Absent => Tmp(v) \notin {path, onDisk}
           /\ op[v].inode # Absent => op[v].inode = Tmp(v)
  <1>1. ProcessOf[v] # ProcessOf[w]
    BY DEF OwnTmp
  <1>2. QED
    BY <1>1, TmpType DEF FileInv, TmpApart, Stages, Stage, At, Tmp

LEMMA FileInvOpen ==
    ASSUME FileTypeOK, FileInv, OwnTmp, NEW w \in Writer, Open(w)
    PROVE  FileInv'
  <1>1. PICK i \in Inode :
          /\ IF Tmp(w) = Absent THEN i \notin Used ELSE i = Tmp(w)
          /\ content' = [content EXCEPT ![i] = Torn]
          /\ synced' = synced \ {i}
          /\ tmp' = [tmp EXCEPT ![ProcessOf[w]] = i]
          /\ op' = [v \in Writer |->
                CASE v = w -> [op[w] EXCEPT !.pc = "open", !.inode = i,
                                 !.alone = ({u \in Writer \ {w} : op[u].inode = i} = {})]
                  [] v \in {u \in Writer \ {w} : op[u].inode = i}
                       -> [op[v] EXCEPT !.alone = FALSE]
                  [] OTHER -> op[v]]
    BY DEF Open
  <1>2. /\ i # Absent /\ i \notin {path, onDisk}
        /\ \A p \in Process : tmp[p] = i => p = ProcessOf[w]
    BY <1>1, TmpType, FileAssumption DEF Used, FileInv, TmpApart, Tmp
  <1>3. \A v \in Writer : v # w => op[v].inode # i
    <2> SUFFICES ASSUME NEW v \in Writer, v # w
                 PROVE  op[v].inode # i
      OBVIOUS
    <2>1. CASE Tmp(w) = Absent
      BY <1>1, <2>1 DEF Used
    <2>2. CASE Tmp(w) # Absent
      BY <1>1, <1>2, <2>2, TmpsDiffer
    <2>3. QED
      BY <2>1, <2>2
  <1>4. /\ \A v \in Writer : v # w => op'[v] = op[v]
        /\ op'[w].pc = "open" /\ op'[w].inode = i /\ op'[w].alone
    BY <1>1, <1>3 DEF FileTypeOK, Op
  <1>5. /\ path' = path /\ onDisk' = onDisk
        /\ \A k \in Inode : k # i => content'[k] = content[k] /\ (k \in synced => k \in synced')
    BY <1>1 DEF Open, FileTypeOK
  <1>6. Safe(path)' /\ Safe(onDisk)'
    BY <1>2, <1>5 DEF FileInv, Safe, FileTypeOK
  <1>7. /\ tmp'[ProcessOf[w]] = i
        /\ \A p \in Process : p # ProcessOf[w] => tmp'[p] = tmp[p]
    BY <1>1, TmpType DEF FileTypeOK
  <1>8. TmpApart'
    BY <1>2, <1>5, <1>7, TmpType DEF FileInv, TmpApart
  <1>9. Stages'
    <2> SUFFICES ASSUME NEW v \in Writer
                 PROVE  Stage(v)'
      BY DEF Stages
    <2>1. CASE v = w
      BY <1>2, <1>4, <1>7, <2>1 DEF Stage, At, Tmp
    <2>2. CASE v # w
      <3>1. Tmp(v)' = Tmp(v) /\ Tmp(v) # i /\ Tmp(v) \in Inode \cup {Absent}
        BY <1>2, <1>7, <2>2, TmpsDiffer, TmpType DEF Tmp
      <3>2. op'[v] = op[v]
        BY <1>4, <2>2
      <3>3. QED
        BY <1>5, <3>1, <3>2 DEF FileInv, Stages, Stage, At
    <2>3. QED
      BY <2>1, <2>2
  <1>10. QED
    BY <1>6, <1>8, <1>9 DEF FileInv

LEMMA FileInvWrite ==
    ASSUME FileTypeOK, FileInv, OwnTmp, NEW w \in Writer, Write(w)
    PROVE  FileInv'
  <1>1. /\ op[w].inode = Tmp(w) /\ Tmp(w) \in Inode /\ Tmp(w) # Absent /\ op[w].alone
        /\ Tmp(w) \notin {path, onDisk}
    BY TmpType DEF Write, At, FileInv, Stages, Stage, TmpApart, Tmp
  <1>2. /\ content'[Tmp(w)].whole
        /\ \A k \in Inode : k # Tmp(w) =>
              content'[k] = content[k] /\ (k \in synced => k \in synced')
        /\ UNCHANGED <<path, onDisk, tmp>>
    BY <1>1 DEF Write, FileTypeOK
  <1>3. /\ op'[w].pc = "written" /\ op'[w].inode = Absent
        /\ \A v \in Writer : v # w => op'[v] = op[v]
    BY DEF Write, FileTypeOK, Op
  <1>4. Safe(path)' /\ Safe(onDisk)' /\ TmpApart'
    BY <1>1, <1>2 DEF FileInv, Safe, TmpApart, FileTypeOK
  <1>5. Stages'
    <2> SUFFICES ASSUME NEW v \in Writer
                 PROVE  Stage(v)'
      BY DEF Stages
    <2>1. Tmp(v)' = Tmp(v)
      BY <1>2 DEF Tmp
    <2>2. CASE v = w
      BY <1>1, <1>2, <1>3, <2>1, <2>2 DEF Stage, At
    <2>3. CASE v # w
      <3>1. Tmp(v) # Absent => Tmp(v) # Tmp(w) /\ Tmp(v) \in Inode
        BY <2>3, TmpsDiffer, TmpType
      <3>2. QED
        BY <1>2, <1>3, <2>1, <2>3, <3>1 DEF FileInv, Stages, Stage, At
    <2>4. QED
      BY <2>2, <2>3
  <1>6. QED
    BY <1>4, <1>5 DEF FileInv

\* Only w's op changes, and names and inodes stay: what is left is w's stage.
LEMMA OthersStay ==
    ASSUME FileTypeOK, FileInv, NEW w \in Writer, synced \subseteq synced',
           UNCHANGED <<path, onDisk, tmp, content>>,
           \A v \in Writer : v # w => op'[v] = op[v],
           Stage(w)'
    PROVE  FileInv'
  <1>1. ASSUME NEW v \in Writer, v # w
        PROVE  Stage(v)'
    BY <1>1 DEF FileInv, Stages, Stage, At, Tmp
  <1>2. Stages'
    BY <1>1 DEF Stages
  <1>3. Safe(path)' /\ Safe(onDisk)' /\ TmpApart'
    BY DEF FileInv, Safe, TmpApart
  <1>4. QED
    BY <1>2, <1>3 DEF FileInv

LEMMA FileInvSync ==
    ASSUME FileTypeOK, FileInv, SafeDisk, NEW w \in Writer, Sync(w)
    PROVE  FileInv'
  <1>1. op[w].inode = Absent /\ Tmp(w) # Absent /\ content[Tmp(w)].whole
    BY DEF Sync, At, FileInv, Stages, Stage
  <1>2. synced' = synced \cup {Tmp(w)}
    BY <1>1 DEF Sync, SafeDisk
  <1>3. /\ op'[w].pc = "synced" /\ op'[w].inode = Absent
        /\ \A v \in Writer : v # w => op'[v] = op[v]
    BY <1>1 DEF Sync, Goes, FileTypeOK, Op
  <1>4. Stage(w)'
    BY <1>1, <1>2, <1>3 DEF Sync, Stage, At, Tmp
  <1>5. QED
    BY <1>2, <1>3, <1>4, OthersStay DEF Sync

LEMMA FileInvRename ==
    ASSUME FileTypeOK, FileInv, OwnTmp, NEW w \in Writer, Rename(w)
    PROVE  FileInv'
  <1>1. /\ op[w].inode = Absent /\ Tmp(w) \in Inode /\ Tmp(w) # Absent
        /\ content[Tmp(w)].whole /\ Tmp(w) \in synced
    BY TmpType DEF Rename, At, FileInv, Stages, Stage
  <1>2. /\ path' = Tmp(w) /\ UNCHANGED <<content, synced, onDisk>>
        /\ tmp'[ProcessOf[w]] = Absent
        /\ \A p \in Process : p # ProcessOf[w] => tmp'[p] = tmp[p]
    BY TmpType DEF Rename, FileTypeOK
  <1>3. /\ op'[w].pc = "renamed" /\ op'[w].inode = Absent
        /\ \A v \in Writer : v # w => op'[v] = op[v]
    BY <1>1 DEF Rename, Goes, FileTypeOK, Op
  <1>4. Safe(path)' /\ Safe(onDisk)'
    BY <1>1, <1>2 DEF FileInv, Safe
  <1>5. TmpApart'
    BY <1>1, <1>2, TmpType DEF FileInv, TmpApart, Tmp
  <1>6. ASSUME NEW v \in Writer
        PROVE  Stage(v)'
    <2>1. CASE v = w
      BY <1>3, <2>1 DEF Stage, At
    <2>2. CASE v # w
      <3>1. Tmp(v)' = Tmp(v)
        BY <1>2, <2>2, TmpsDiffer, TmpType DEF Tmp
      <3>2. QED
        BY <1>2, <1>3, <2>2, <3>1 DEF FileInv, Stages, Stage, At
    <2>3. QED
      BY <2>1, <2>2
  <1>7. QED
    BY <1>4, <1>5, <1>6 DEF FileInv, Stages

\* A tmp file may go when nobody else has its name, and names lead to the rest.
LEMMA FileInvRenameFails ==
    ASSUME FileTypeOK, FileInv, OwnTmp, NEW w \in Writer, RenameFails(w)
    PROVE  FileInv'
  <1>1. /\ UNCHANGED <<path, synced, onDisk>> /\ Collected(content)
        /\ tmp'[ProcessOf[w]] = Absent
        /\ \A p \in Process : p # ProcessOf[w] => tmp'[p] = tmp[p]
    BY TmpType DEF RenameFails, FileTypeOK
  <1>2. /\ op'[w].pc = "idle" /\ op'[w].inode = Absent
        /\ \A v \in Writer : v # w => op'[v] = op[v]
    BY DEF RenameFails, Fails, Idle, FileTypeOK
  <1>3. content \in [Inode -> Content]
    BY DEF FileTypeOK
  <1>4. Safe(path)' /\ Safe(onDisk)'
    BY <1>1, <1>3, NamedIsKept DEF FileInv, Safe, FileTypeOK
  <1>5. TmpApart'
    BY <1>1, TmpType DEF FileInv, TmpApart
  <1>6. ASSUME NEW v \in Writer
        PROVE  Stage(v)'
    <2>1. CASE v = w
      BY <1>2, <2>1 DEF Stage, At
    <2>2. CASE v # w
      <3>1. Tmp(v)' = Tmp(v)
        BY <1>1, <2>2, TmpsDiffer, TmpType DEF Tmp
      <3>2. Tmp(v) # Absent => content'[Tmp(v)] = content[Tmp(v)]
        BY <1>1, <1>3, <3>1, TmpType, NamedIsKept DEF Tmp
      <3>3. QED
        BY <1>1, <1>2, <2>2, <3>1, <3>2 DEF FileInv, Stages, Stage, At
    <2>3. QED
      BY <2>1, <2>2
  <1>7. QED
    BY <1>4, <1>5, <1>6 DEF FileInv, Stages

LEMMA FileInvSyncDir ==
    ASSUME FileTypeOK, FileInv, SafeDisk, NEW w \in Writer, SyncDir(w)
    PROVE  FileInv'
  <1>1. UNCHANGED <<path, synced, tmp>> /\ Collected(content) /\ onDisk' = path
    BY DEF SyncDir, SafeDisk
  <1>2. /\ op'[w].pc = "idle" /\ op'[w].inode = Absent
        /\ \A v \in Writer : v # w => op'[v] = op[v]
    BY DEF SyncDir, Fails, Idle, FileTypeOK
  <1>3. content \in [Inode -> Content]
    BY DEF FileTypeOK
  <1>4. Safe(path)' /\ Safe(onDisk)'
    BY <1>1, <1>3, NamedIsKept DEF FileInv, Safe, FileTypeOK
  <1>5. TmpApart'
    BY <1>1 DEF FileInv, TmpApart
  <1>6. ASSUME NEW v \in Writer
        PROVE  Stage(v)'
    <2>1. CASE v = w
      BY <1>2, <2>1 DEF Stage, At
    <2>2. CASE v # w
      <3>1. Tmp(v)' = Tmp(v)
        BY <1>1 DEF Tmp
      <3>2. Tmp(v) # Absent => content'[Tmp(v)] = content[Tmp(v)]
        BY <1>1, <1>3, <3>1, TmpType, NamedIsKept DEF Tmp
      <3>3. QED
        BY <1>1, <1>2, <2>2, <3>1, <3>2 DEF FileInv, Stages, Stage, At
    <2>3. QED
      BY <2>1, <2>2
  <1>7. QED
    BY <1>4, <1>5, <1>6 DEF FileInv, Stages

LEMMA FileInvKill ==
    ASSUME FileTypeOK, FileInv, NEW p \in Process, Kill(p)
    PROVE  FileInv'
  <1>1. UNCHANGED <<path, tmp, content, synced, onDisk>>
    BY DEF Kill
  <1>2. ASSUME NEW v \in Writer
        PROVE  Stage(v)'
    <2>1. op'[v] = Idle \/ op'[v] = op[v]
      BY DEF Kill
    <2>2. QED
      BY <1>1, <2>1 DEF FileInv, Stages, Stage, At, Tmp, Idle
  <1>3. QED
    BY <1>1, <1>2 DEF FileInv, Safe, TmpApart, Stages

LEMMA FileInvPowerLoss == FileTypeOK /\ FileInv /\ PowerLoss => FileInv'
  <1> SUFFICES ASSUME FileTypeOK, FileInv, PowerLoss
               PROVE  FileInv'
    OBVIOUS
  <1>1. PICK lost \in SUBSET (Inode \ synced) :
          Collected([i \in Inode |-> IF i \in lost THEN Torn ELSE content[i]])
    BY DEF PowerLoss
  <1> DEFINE left == [i \in Inode |-> IF i \in lost THEN Torn ELSE content[i]]
  <1>2. left \in [Inode -> Content]
    BY TornType DEF FileTypeOK
  <1>3. path' \in {path, onDisk} /\ onDisk' = path' /\ synced' = Inode
    BY DEF PowerLoss
  <1>4. path' # Absent => content'[path'] = left[path'] /\ path' \in Inode
    <2> SUFFICES ASSUME path' # Absent
                 PROVE  content'[path'] = left[path'] /\ path' \in Inode
      OBVIOUS
    <2>1. path' \in Inode
      BY <1>3 DEF FileTypeOK
    <2>2. Collected(left)
      BY <1>1
    <2> HIDE DEF left
    <2>3. QED
      BY <1>2, <2>1, <2>2, NamedIsKept
  <1>5. path' # Absent => content'[path'].whole
    BY <1>1, <1>3, <1>4 DEF FileInv, Safe
  <1>6. /\ \A p \in Process : tmp'[p] = Absent
        /\ \A v \in Writer : op'[v] = Idle
    BY DEF PowerLoss
  <1>7. QED
    BY <1>3, <1>4, <1>5, <1>6 DEF FileInv, Safe, TmpApart, Stages, Stage, At, Idle

LEMMA FileInvStep == FileTypeOK /\ FileInv /\ OwnTmp /\ SafeDisk /\ [FileNext]_fileVars => FileInv'
  <1> SUFFICES ASSUME FileTypeOK, FileInv, OwnTmp, SafeDisk, [FileNext]_fileVars
               PROVE  FileInv'
    OBVIOUS
  <1>1. CASE UNCHANGED fileVars
    BY <1>1 DEF fileVars, FileInv, Safe, TmpApart, Stages, Stage, At, Tmp
  <1>2. ASSUME NEW w \in Writer, WriterStep(w)
        PROVE  FileInv'
    BY <1>2, FileInvReads, FileInvOpen, FileInvWrite, FileInvSync, FileInvRename,
       FileInvRenameFails, FileInvSyncDir DEF WriterStep
  <1>3. QED
    BY <1>1, <1>2, FileInvKill, FileInvPowerLoss DEF FileNext

\* Nobody ever finds half a file under the partition's name, as long as every
\* writer is in a process of its own and fsync does what it says: any number of
\* processes, killed or without power at any step.
THEOREM NoHalfFile ==
    ASSUME OwnTmp, SafeDisk
    PROVE  FileSpec => []WholeFile
  <1>1. FileInv => WholeFile
    BY DEF FileInv, Safe, WholeFile
  <1>2. FileTypeOK /\ FileInv /\ [FileNext]_fileVars => FileInv'
    BY FileInvStep
  <1>3. QED
    BY <1>1, <1>2, FileInvInit, FileTypeCorrect, PTL DEF FileSpec

-----------------------------------------------------------------------------
(* A single writer loses nothing *)

LEMMA SameVisible ==
    ASSUME path' = path, path # Absent => content'[path] = content[path]
    PROVE  Visible' = Visible
  BY DEF Visible

\* A rewrite has the bars that were there, and those it brings.
LEMMA AppliedHasBoth ==
    ASSUME FileTypeOK, NEW w \in Writer, op[w].stamp => op[w].fresh = NoRows
    PROVE  /\ DOMAIN Visible.rows \subseteq DOMAIN Applied(op[w], Visible).rows
           /\ DOMAIN op[w].fresh \subseteq DOMAIN Applied(op[w], Visible).rows
  <1>1. Visible \in Content
    BY VisibleType
  <1>2. CASE op[w].stamp
    <2>1. Applied(op[w], Visible).rows = Visible.rows
      BY <1>1, <1>2 DEF Applied, Content
    <2>2. DOMAIN op[w].fresh = {}
      BY <1>2 DEF NoRows
    <2>3. QED
      BY <2>1, <2>2
  <1>3. CASE ~op[w].stamp
    <2>1. DOMAIN Applied(op[w], Visible).rows
              = DOMAIN Visible.rows \cup DOMAIN op[w].fresh
      BY <1>3 DEF Applied
    <2>2. QED
      BY <2>1
  <1>4. QED
    BY <1>2, <1>3

LEMMA MergeInvInit == FileInit => MergeInv
  BY DEF FileInit, MergeInv, Carries, Carry, AckedOnDisk, At, Idle

LEMMA CarryIdle ==
    ASSUME NEW w, op'[w] = Idle
    PROVE  Carry(w)'
  BY DEF Carry, At, Idle

\* What a step of the only writer has to show, when no name changes.
LEMMA MergeInvJob ==
    ASSUME MergeInv, OnlyWriter, NEW w \in Writer,
           UNCHANGED <<path, onDisk, acked>>,
           path # Absent => content'[path] = content[path],
           onDisk # Absent => content'[onDisk] = content[onDisk],
           Carry(w)'
    PROVE  MergeInv'
  <1>1. Visible' = Visible
    BY SameVisible
  <1>2. AckedOnDisk'
    BY <1>1 DEF MergeInv, AckedOnDisk
  <1>3. Carries'
    BY DEF Carries, OnlyWriter
  <1>4. QED
    BY <1>2, <1>3 DEF MergeInv

LEMMA MergeInvBeginMerge ==
    ASSUME FileTypeOK, MergeInv, OnlyWriter, NEW w \in Writer, NEW fresh \in Rows,
           NEW floor \in Floor \cup {Absent}, BeginMerge(w, fresh, floor)
    PROVE  MergeInv'
  <1>1. UNCHANGED <<path, tmp, content, onDisk, acked>>
    BY DEF BeginMerge
  <1>2. Visible' = Visible
    BY <1>1, SameVisible
  <1>3. CASE op' = op
    <2>1. Carry(w)'
      BY <1>1, <1>2, <1>3 DEF MergeInv, Carries, Carry, At, Tmp
    <2>2. QED
      BY <1>1, <2>1, MergeInvJob
  <1>4. CASE op' # op
    <2> DEFINE rows == Merged(Visible.rows, fresh)
    <2>1. op'[w] = [Idle EXCEPT !.pc = "read", !.fresh = fresh,
                                !.floor = floor, !.rows = rows]
      BY <1>4 DEF BeginMerge, FileTypeOK
    <2>2. /\ op'[w].pc = "read" /\ op'[w].fresh = fresh /\ ~op'[w].stamp
          /\ op'[w].rows = rows
      <3> HIDE DEF rows
      <3> QED
        BY <2>1 DEF Idle
    <2>3. Carry(w)'
      BY <1>2, <2>2 DEF Carry, At
    <2>4. QED
      BY <1>1, <2>3, MergeInvJob
  <1>5. QED
    BY <1>3, <1>4

LEMMA MergeInvReads ==
    ASSUME FileTypeOK, MergeInv, OnlyWriter, NEW w \in Writer,
           \/ \E floor \in Floor : BeginStamp(w, floor)
           \/ ReadFloor(w) \/ ReadRows(w) \/ ReadFails(w) \/ WriteFails(w)
    PROVE  MergeInv'
  <1>1. UNCHANGED <<path, tmp, content, onDisk, acked>>
    BY DEF BeginStamp, ReadFloor, ReadRows, ReadFails, WriteFails
  <1>2. Visible' = Visible /\ Visible \in Content
    BY <1>1, SameVisible, VisibleType
  <1>3. Carry(w)'
    <2>1. ASSUME NEW floor \in Floor, BeginStamp(w, floor)
          PROVE  Carry(w)'
      <3>1. op'[w].pc = "read" /\ op'[w].stamp /\ op'[w].fresh = NoRows
        BY <2>1 DEF BeginStamp, FileTypeOK, Idle
      <3>2. QED
        BY <3>1 DEF Carry, At
    <2>2. CASE ReadFloor(w)
      <3> DEFINE deeper == Deeper(Visible.floor, op[w].floor)
      <3>1. /\ op[w] \in Op /\ ~op[w].stamp
            /\ op[w].rows = Merged(Visible.rows, op[w].fresh)
        BY <2>2 DEF ReadFloor, MergeInv, Carries, Carry, At, FileTypeOK
      <3>2. /\ op'[w].pc = "ready" /\ ~op'[w].stamp /\ op'[w].fresh = op[w].fresh
            /\ op'[w].rows = op[w].rows /\ op'[w].floor = deeper
        <4> HIDE DEF deeper
        <4>1. op' = [op EXCEPT ![w].pc = "ready", ![w].floor = deeper]
          BY <2>2 DEF ReadFloor, deeper
        <4>2. QED
          BY <3>1, <4>1 DEF FileTypeOK, Op
      <3>3. Applied(op'[w], Visible).floor = deeper
        <4>1. /\ Visible.floor \in Floor \cup {Absent} /\ op[w].floor \in Floor \cup {Absent}
              /\ Floor \subseteq Int /\ Absent \notin Floor
          BY <1>2, <3>1, FileAssumption DEF Content, Op
        <4>2. QED
          BY <3>2, <4>1 DEF Applied, Deeper
      <3>4. Applied(op'[w], Visible).rows = Merged(Visible.rows, op[w].fresh)
        BY <3>2 DEF Applied, Merged
      <3>5. [rows |-> op'[w].rows, floor |-> op'[w].floor, whole |-> TRUE]
                = Applied(op'[w], Visible)
        <4>1. Applied(op'[w], Visible)
                = [rows |-> Applied(op'[w], Visible).rows,
                   floor |-> Applied(op'[w], Visible).floor, whole |-> TRUE]
          BY <3>2 DEF Applied
        <4>2. QED
          BY <3>1, <3>2, <3>3, <3>4, <4>1
      <3>6. QED
        BY <1>2, <3>2, <3>5 DEF Carry, At
    <2>3. CASE ReadRows(w)
      <3>1. op[w] \in Op /\ op[w].stamp /\ op[w].fresh = NoRows /\ Visible.whole
        BY <2>3 DEF ReadRows, MergeInv, Carries, Carry, At, FileTypeOK
      <3>2. /\ op'[w].pc = "ready" /\ op'[w].stamp /\ op'[w].fresh = NoRows
            /\ op'[w].rows = Visible.rows /\ op'[w].floor = op[w].floor
        BY <2>3, <3>1 DEF ReadRows, FileTypeOK, Op
      <3>3. [rows |-> op'[w].rows, floor |-> op'[w].floor, whole |-> TRUE]
                = Applied(op'[w], Visible)
        BY <1>2, <3>1, <3>2 DEF Applied, Content
      <3>4. QED
        BY <1>2, <3>2, <3>3 DEF Carry, At
    <2>4. CASE ReadFails(w) \/ WriteFails(w)
      <3>1. op'[w] = Idle
        BY <2>4 DEF ReadFails, WriteFails, Fails, FileTypeOK
      <3>2. QED
        BY <3>1, CarryIdle
    <2>5. QED
      BY <2>1, <2>2, <2>3, <2>4
  <1>4. QED
    BY <1>1, <1>3, MergeInvJob

\* Applied looks only at these fields of a op.
LEMMA AppliedDepends ==
    ASSUME NEW j, NEW k, NEW old,
           j.stamp = k.stamp, j.fresh = k.fresh, j.floor = k.floor
    PROVE  Applied(j, old) = Applied(k, old)
  BY DEF Applied

LEMMA MergeInvOpen ==
    ASSUME FileTypeOK, FileInv, MergeInv, OnlyWriter, NEW w \in Writer, Open(w)
    PROVE  MergeInv'
  <1>1. PICK i \in Inode :
          /\ IF Tmp(w) = Absent THEN i \notin Used ELSE i = Tmp(w)
          /\ content' = [content EXCEPT ![i] = Torn]
          /\ op'[w] = [op[w] EXCEPT !.pc = "open", !.inode = i,
                           !.alone = ({u \in Writer \ {w} : op[u].inode = i} = {})]
    BY DEF Open
  <1>2. i \notin {path, onDisk}
    BY <1>1, TmpType DEF Used, FileInv, TmpApart, Tmp
  <1>3. UNCHANGED <<path, onDisk, acked>>
    BY DEF Open
  <1>4. /\ path # Absent => content'[path] = content[path]
        /\ onDisk # Absent => content'[onDisk] = content[onDisk]
    BY <1>1, <1>2 DEF FileTypeOK
  <1>5. Visible' = Visible
    BY <1>3, <1>4, SameVisible
  <1>6. /\ op'[w].pc = "open" /\ op'[w].rows = op[w].rows
        /\ op'[w].stamp = op[w].stamp /\ op'[w].fresh = op[w].fresh
        /\ op'[w].floor = op[w].floor
    BY <1>1 DEF FileTypeOK, Op
  <1>7. [rows |-> op[w].rows, floor |-> op[w].floor, whole |-> TRUE]
            = Applied(op[w], Visible)
    BY DEF Open, MergeInv, Carries, Carry, At
  <1>8. Applied(op'[w], Visible) = Applied(op[w], Visible)
    BY <1>6, AppliedDepends
  <1>9. Carry(w)'
    BY <1>5, <1>6, <1>7, <1>8 DEF MergeInv, Carries, Carry, At
  <1>10. QED
    BY <1>3, <1>4, <1>9, MergeInvJob

LEMMA MergeInvWrite ==
    ASSUME FileTypeOK, FileInv, MergeInv, OnlyWriter, NEW w \in Writer, Write(w)
    PROVE  MergeInv'
  <1>1. /\ op[w].inode = Tmp(w) /\ Tmp(w) \in Inode /\ Tmp(w) # Absent /\ op[w].alone
        /\ Tmp(w) \notin {path, onDisk}
    BY TmpType DEF Write, At, FileInv, Stages, Stage, TmpApart, Tmp
  <1>2. /\ content' = [content EXCEPT ![Tmp(w)] =
                        [rows |-> op[w].rows, floor |-> op[w].floor, whole |-> TRUE]]
        /\ UNCHANGED <<path, onDisk, tmp, acked>>
    BY <1>1 DEF Write
  <1>3. /\ path # Absent => content'[path] = content[path]
        /\ onDisk # Absent => content'[onDisk] = content[onDisk]
    BY <1>1, <1>2 DEF FileTypeOK
  <1>4. Visible' = Visible /\ Tmp(w)' = Tmp(w)
    BY <1>2, <1>3, SameVisible DEF Tmp
  <1>5. /\ op'[w].pc = "written" /\ op'[w].stamp = op[w].stamp
        /\ op'[w].fresh = op[w].fresh /\ op'[w].floor = op[w].floor
    BY DEF Write, FileTypeOK, Op
  <1>6. content'[Tmp(w)] = Applied(op[w], Visible)
    BY <1>1, <1>2 DEF Write, MergeInv, Carries, Carry, At, FileTypeOK
  <1>7. Applied(op'[w], Visible) = Applied(op[w], Visible)
    BY <1>5, AppliedDepends
  <1>8. Carry(w)'
    BY <1>4, <1>5, <1>6, <1>7 DEF MergeInv, Carries, Carry, At
  <1>9. QED
    BY <1>2, <1>3, <1>8, MergeInvJob

LEMMA MergeInvSync ==
    ASSUME FileTypeOK, MergeInv, OnlyWriter, NEW w \in Writer, Sync(w)
    PROVE  MergeInv'
  <1>1. UNCHANGED <<path, onDisk, tmp, acked, content>>
    BY DEF Sync
  <1>2. Visible' = Visible /\ Tmp(w)' = Tmp(w)
    BY <1>1, SameVisible DEF Tmp
  <1>3. /\ op'[w].pc = "synced" /\ op'[w].stamp = op[w].stamp
        /\ op'[w].fresh = op[w].fresh /\ op'[w].floor = op[w].floor
    BY DEF Sync, Goes, FileTypeOK, Op
  <1>4. Applied(op'[w], Visible) = Applied(op[w], Visible)
    BY <1>3, AppliedDepends
  <1>5. content[Tmp(w)] = Applied(op[w], Visible)
    BY DEF Sync, MergeInv, Carries, Carry, At
  <1>6. Carry(w)'
    BY <1>1, <1>2, <1>3, <1>4, <1>5 DEF MergeInv, Carries, Carry, At
  <1>7. QED
    BY <1>1, <1>6, MergeInvJob

\* What a rename makes visible.
LEMMA RenameApplies ==
    ASSUME MergeInv, NEW w \in Writer, Rename(w)
    PROVE  Visible' = Applied(op[w], Visible)
  <1>1. content[Tmp(w)] = Applied(op[w], Visible)
    BY DEF Rename, MergeInv, Carries, Carry, At
  <1>2. Visible' = content[Tmp(w)]
    BY DEF Rename, Visible
  <1>3. QED
    BY <1>1, <1>2

LEMMA MergeInvRename ==
    ASSUME FileTypeOK, MergeInv, OnlyWriter, NEW w \in Writer, Rename(w)
    PROVE  MergeInv'
  <1>1. op[w].stamp => op[w].fresh = NoRows
    BY DEF MergeInv, Carries, Carry
  <1>2. /\ DOMAIN Visible.rows \subseteq DOMAIN Visible'.rows
        /\ DOMAIN op[w].fresh \subseteq DOMAIN Visible'.rows
    BY <1>1, RenameApplies, AppliedHasBoth
  <1>3. /\ op'[w].pc = "renamed" /\ op'[w].stamp = op[w].stamp
        /\ op'[w].fresh = op[w].fresh
    BY DEF Rename, Goes, FileTypeOK, Op
  <1>4. Carry(w)'
    BY <1>1, <1>2, <1>3 DEF Carry, At
  <1>5. Carries'
    BY <1>4 DEF Carries, OnlyWriter
  <1>6. AckedOnDisk'
    BY <1>2 DEF Rename, MergeInv, AckedOnDisk
  <1>7. QED
    BY <1>5, <1>6 DEF MergeInv

LEMMA MergeInvRenameFails ==
    ASSUME FileTypeOK, MergeInv, OnlyWriter, NEW w \in Writer, RenameFails(w)
    PROVE  MergeInv'
  <1>1. UNCHANGED <<path, onDisk, acked>> /\ Collected(content)
    BY DEF RenameFails
  <1>2. content \in [Inode -> Content]
    BY DEF FileTypeOK
  <1>3. /\ path # Absent => content'[path] = content[path]
        /\ onDisk # Absent => content'[onDisk] = content[onDisk]
    BY <1>1, <1>2, NamedIsKept DEF FileTypeOK
  <1>4. op'[w] = Idle
    BY DEF RenameFails, Fails, FileTypeOK
  <1>5. QED
    BY <1>1, <1>3, <1>4, CarryIdle, MergeInvJob

\* The new name is on the disk before Ok is returned.
LEMMA MergeInvSyncDir ==
    ASSUME FileTypeOK, MergeInv, OnlyWriter, SafeDisk, NEW w \in Writer, SyncDir(w)
    PROVE  MergeInv'
  <1>1. /\ path' = path /\ onDisk' = path /\ Collected(content)
        /\ acked' = acked \cup DOMAIN op[w].fresh
    BY DEF SyncDir, SafeDisk
  <1>2. content \in [Inode -> Content]
    BY DEF FileTypeOK
  <1>3. path # Absent => content'[path] = content[path]
    BY <1>1, <1>2, NamedIsKept DEF FileTypeOK
  <1>4. Visible' = Visible
    BY <1>1, <1>3, SameVisible
  <1>5. acked' \subseteq DOMAIN Visible.rows
    BY <1>1 DEF SyncDir, MergeInv, Carries, Carry, AckedOnDisk
  <1>6. path = Absent => DOMAIN Visible.rows = {}
    BY DEF Visible, NoRows
  <1>7. path # Absent => Visible.rows = content'[onDisk'].rows
    BY <1>1, <1>3 DEF Visible
  <1>8. AckedOnDisk'
    BY <1>1, <1>4, <1>5, <1>6, <1>7 DEF AckedOnDisk
  <1>9. op'[w] = Idle
    BY DEF SyncDir, Fails, FileTypeOK
  <1>10. Carries'
    BY <1>9, CarryIdle DEF Carries, OnlyWriter
  <1>11. QED
    BY <1>8, <1>10 DEF MergeInv

LEMMA MergeInvKill ==
    ASSUME FileTypeOK, MergeInv, NEW p \in Process, Kill(p)
    PROVE  MergeInv'
  <1>1. UNCHANGED <<path, tmp, content, synced, onDisk, acked>>
    BY DEF Kill
  <1>2. Visible' = Visible
    BY <1>1, SameVisible
  <1>3. ASSUME NEW v \in Writer
        PROVE  Carry(v)'
    <2>1. CASE op'[v] = Idle
      BY <2>1, CarryIdle
    <2>2. CASE op'[v] = op[v]
      BY <1>1, <1>2, <2>2 DEF MergeInv, Carries, Carry, At, Tmp
    <2>3. QED
      BY <2>1, <2>2 DEF Kill
  <1>4. QED
    BY <1>1, <1>2, <1>3 DEF MergeInv, Carries, AckedOnDisk

\* Whichever of the two names survives, what was returned Ok is in it.
LEMMA MergeInvPowerLoss ==
    ASSUME FileTypeOK, FileInv, MergeInv, PowerLoss
    PROVE  MergeInv'
  <1>1. PICK lost \in SUBSET (Inode \ synced) :
          Collected([i \in Inode |-> IF i \in lost THEN Torn ELSE content[i]])
    BY DEF PowerLoss
  <1> DEFINE left == [i \in Inode |-> IF i \in lost THEN Torn ELSE content[i]]
  <1>2. left \in [Inode -> Content]
    BY TornType DEF FileTypeOK
  <1>3. path' \in {path, onDisk} /\ onDisk' = path' /\ acked' = acked
    BY DEF PowerLoss
  <1>4. ASSUME path' # Absent
        PROVE  content'[path'] = content[path']
    <2>1. path' \in Inode /\ path' \in synced
      BY <1>3, <1>4 DEF FileTypeOK, FileInv, Safe
    <2>2. left[path'] = content[path']
      BY <2>1
    <2>3. Collected(left)
      BY <1>1
    <2> HIDE DEF left
    <2>4. content'[path'] = left[path']
      BY <1>2, <2>1, <2>3, NamedIsKept
    <2>5. QED
      BY <2>2, <2>4
  <1>5. AckedOnDisk'
    <2>1. CASE acked = {}
      BY <1>3, <2>1 DEF AckedOnDisk
    <2>2. CASE acked # {}
      <3>1. path # Absent
        BY <2>2 DEF MergeInv, AckedOnDisk, Visible, NoRows
      <3>2. onDisk # Absent /\ path' # Absent
        BY <1>3, <2>2, <3>1 DEF MergeInv, AckedOnDisk
      <3>3. acked \subseteq DOMAIN content'[path'].rows
        BY <1>3, <1>4, <2>2, <3>1, <3>2 DEF MergeInv, AckedOnDisk, Visible
      <3>4. QED
        BY <1>3, <3>2, <3>3 DEF AckedOnDisk, Visible
    <2>3. QED
      BY <2>1, <2>2
  <1>6. \A v \in Writer : Carry(v)'
    BY CarryIdle DEF PowerLoss
  <1>7. QED
    BY <1>5, <1>6 DEF MergeInv, Carries

LEMMA MergeInvStep ==
    ASSUME OnlyWriter, SafeDisk
    PROVE  FileTypeOK /\ FileInv /\ MergeInv /\ [FileNext]_fileVars => MergeInv'
  <1> SUFFICES ASSUME FileTypeOK, FileInv, MergeInv, [FileNext]_fileVars
               PROVE  MergeInv'
    OBVIOUS
  <1>1. CASE UNCHANGED fileVars
    <2>1. Visible' = Visible
      BY <1>1 DEF fileVars, Visible
    <2>2. QED
      BY <1>1, <2>1 DEF fileVars, MergeInv, Carries, Carry, AckedOnDisk, At, Tmp
  <1>2. ASSUME NEW w \in Writer, WriterStep(w)
        PROVE  MergeInv'
    BY <1>2, MergeInvBeginMerge, MergeInvReads, MergeInvOpen, MergeInvWrite,
       MergeInvSync, MergeInvRename, MergeInvRenameFails, MergeInvSyncDir DEF WriterStep
  <1>3. QED
    BY <1>1, <1>2, MergeInvKill, MergeInvPowerLoss DEF FileNext

LEMMA MergeInvHolds ==
    ASSUME OnlyWriter, SafeDisk
    PROVE  FileSpec => [](FileTypeOK /\ FileInv /\ MergeInv)
  <1>1. OwnTmp
    BY DEF OwnTmp, OnlyWriter
  <1>2. FileTypeOK /\ FileInv /\ [FileNext]_fileVars => FileInv'
    BY <1>1, FileInvStep
  <1>3. FileTypeOK /\ FileInv /\ MergeInv /\ [FileNext]_fileVars => MergeInv'
    BY MergeInvStep
  <1>4. QED
    BY <1>2, <1>3, FileInvInit, MergeInvInit, FileTypeCorrect, PTL DEF FileSpec

\* With one writer, the bars of every merge that rewrote the file and returned Ok
\* are in the file ever after: through kills, power losses and later rewrites.
THEOREM AckedStays ==
    ASSUME OnlyWriter, SafeDisk
    PROVE  FileSpec => []AckedIsStored
  <1>1. MergeInv => AckedIsStored
    BY DEF MergeInv, AckedOnDisk, AckedIsStored
  <1>2. QED
    BY <1>1, MergeInvHolds, PTL

\* With one writer, what becomes visible is the operation applied to what was
\* visible just before.
THEOREM NothingOverwritten ==
    ASSUME OnlyWriter, SafeDisk
    PROVE  FileSpec => RewritesWhatIsThere
  <1>1. MergeInv =>
            \A w \in Writer : Rename(w) => Visible' = Applied(op[w], Visible)
    BY RenameApplies
  <1>2. QED
    BY <1>1, MergeInvHolds, PTL DEF RewritesWhatIsThere

=============================================================================
