------------------------------- MODULE Signals -------------------------------
(***************************************************************************)
(* Stored series and what is read from them.  The collector appends new     *)
(* bars and backfills older ones, and a command reads the whole archive     *)
(* again each time: the exposures of one strategy, a walk-forward over      *)
(* several, or a basket of two pairs.  A series has holes where the         *)
(* exchange printed nothing.                                                *)
(***************************************************************************)
EXTENDS Basket, FiniteSets

CONSTANTS
    Rules,     \* strategies that are read
    Plans,     \* walk-forward plans that are run
    Baskets,   \* settings of baskets that are run
    Gaps,      \* spacings between neighbours
    Start,     \* time of the first bar collected
    MaxLen(_), \* bound on the length of the series, by what is read from it
    MaxSecond(_), \* bound on the length of the second series, likewise
    Candles(_), \* prices a bar can have, [open, high, low, close], likewise
    MaxOlder,  \* bound on the bars backfilled
    MaxHoles,  \* bound on the spacings other than 1
    SlotCap    \* data_quality stops counting a hole at so many slots (100000)

ASSUME RulesAreAccepted == Rules \subseteq Rule /\ \A r \in Rules : StrategyOK(r)

\* A stored bar has a positive price and a time of its own.
ASSUME SeriesAssumption ==
    /\ None \notin Rational /\ Year \in Nat \ {0}
    /\ Gaps \subseteq Nat \ {0} /\ Start \in Nat /\ MaxOlder \in Nat
    /\ \A j \in Rules \cup Plans \cup Baskets : \A candle \in Candles(j) :
         candle.close \in Rational /\ Positive(candle.close)

VARIABLES
    job,   \* the rule, the plan or the setting of the basket
    bars,  \* the series
    second, \* the series of another pair, for a basket
    older, \* bars that were backfilled
    T,     \* the exposures the rule wants, one per bar
    W      \* what came of the splits of the plan, or of the basket

vars == <<job, bars, second, older, T, W>>

NextLabel(time) == time + 1
Holes(series) ==
    {i \in 1 .. Len(series) - 1 : series[i + 1].time # NextLabel(series[i].time)}
Few == Cardinality(Holes(bars')) + Cardinality(Holes(second')) <= MaxHoles

Bar(candle, time) ==
    [time |-> time, open |-> candle.open, high |-> candle.high, low |-> candle.low,
     close |-> candle.close, turnover |-> candle.turnover]

Init == /\ job \in Rules \cup Plans \cup Baskets
        /\ bars = << >> /\ second = << >> /\ older = 0
        /\ T = << >> /\ W = << >>

Pool == <<bars, second>>

\* A command reads the archive: kcs-backtest, kcs-walkforward or kcs-basket.
Reread ==
    \E pool \in {Pool'} :
        /\ T' = IF job \in Rules THEN Targets(job, pool[1]) ELSE << >>
        /\ W' = IF job \in Rules THEN << >>
                ELSE IF job \in Plans THEN Outcomes(job, pool[1])
                ELSE RunBasket(job, pool)

Room == Len(bars) < MaxLen(job)
Grown(series, candle, gap) ==
    Append(series, Bar(candle, IF series = << >> THEN Start
                               ELSE series[Len(series)].time + gap))

Collect(candle, gap) ==
    /\ Room
    /\ bars' = Grown(bars, candle, gap)
    /\ UNCHANGED <<second, older>>

CollectSecond(candle, gap) ==
    /\ job \in Baskets /\ Len(second) < MaxSecond(job)
    /\ second' = Grown(second, candle, gap)
    /\ UNCHANGED <<bars, older>>

Backfill(candle, gap) ==
    /\ Room /\ bars # << >> /\ older < MaxOlder
    /\ bars[1].time >= gap
    /\ bars' = <<Bar(candle, bars[1].time - gap)>> \o bars
    /\ older' = older + 1
    /\ UNCHANGED second

\* The collector adds a bar, and the command is run again.
Rerun(candle, gap) ==
    /\ \/ Collect(candle, gap)
       \/ CollectSecond(candle, gap)
       \/ Backfill(candle, gap)
    /\ Few
    /\ Reread
    /\ UNCHANGED job

Next == \E candle \in Candles(job), gap \in Gaps : Rerun(candle, gap)

Spec == Init /\ [][Next]_vars

-----------------------------------------------------------------------------
(* data_quality *)

\* (mutated form: the bar after the hole is counted as missing)
SlotsLate(before, after) == IF after = before + 1 THEN 1 ELSE after - before + 1
\* Slots between two neighbours; counting stops at the cap.
Slots(before, after) ==
    IF after - before < SlotCap THEN after - before ELSE SlotCap

Quality(series) ==
    LET slots(i) == Slots(series[i].time, series[i + 1].time)
        step(q, i) ==
            IF i \notin Holes(series) THEN q
            ELSE [gaps |-> q.gaps + 1, missing |-> q.missing + slots(i) - 1,
                  largest |-> IF slots(i) > q.largest THEN slots(i) ELSE q.largest]
        none == [gaps |-> 0, missing |-> 0, largest |-> 1]
    IN  IF Len(series) < 2 THEN none
        ELSE Scan(step, none, Len(series) - 1)[Len(series) - 1]

-----------------------------------------------------------------------------
(* Properties *)

Reads == job \in Rules
Kind == IF Reads THEN job.kind ELSE "none"

TypeOK ==
    /\ job \in Rules \cup Plans \cup Baskets /\ older \in 0 .. MaxOlder
    /\ \A i \in 1 .. Len(bars) - 1 : bars[i].time < bars[i + 1].time
    /\ Reads => \A i \in DOMAIN bars : Abs(T[i]) \preceq One

\* Rules whose reading of a bar uses the spacing of the whole series.
UsesStep == "rebalance" \in DOMAIN Innermost(job) \/ Kind \in {"voltarget", "volfilter"}
SameStep == BarStep(bars) = BarStep(bars')
Appended == Len(bars') > Len(bars) /\ older' = older

\* No strategy looks ahead (strategies.base): the exposures of the bars that
\* were there do not move when a bar is added, as long as the median spacing
\* the grid and the annualisation are taken from does not.
NoPeek ==
    [][Appended /\ Reads /\ (UsesStep => SameStep) => First(T', Len(bars)) = T]_vars

\* The same without that condition, as strategies.base puts it.
NoLookAhead == [][Appended /\ Reads => First(T', Len(bars)) = T]_vars

\* Nothing is held before the warm-up the strategy declares is over.
WarmupIsFlat ==
    Reads => \A i \in DOMAIN bars : T[i] # Zero => i >= Warmup(job)

OnGrid == Kind \in {"tsmom", "tsmom-blend", "sma"} /\ job.rebalance > 1
Period == job.rebalance * BarStep(bars)
Connected == \A i \in 1 .. Len(bars) - 1 : bars[i + 1].time - bars[i].time <= Period

\* An exposure changes only on the first bar at or after a multiple of the
\* period, if no hole is longer than the period.
RereadOnGrid ==
    OnGrid /\ Connected =>
        \A i \in 2 .. Len(bars) :
            T[i] # T[i - 1] => bars[i].time \div Period > bars[i - 1].time \div Period

FirstScore == IF Kind = "sma" THEN job.window ELSE Warmup(job) + 1
Decided(i) ==
    \E j \in FirstScore .. i :
        \/ bars[j].time % Period = 0
        \/ bars[j].time \div Period > bars[FirstScore].time \div Period

\* Backfilling older bars does not move a decision already taken (tsmom: "so
\* the decision dates do not move when the archive grows").
BackfillKeepsDecisions ==
    [][ older' # older /\ OnGrid /\ SameStep /\ Connected /\ Connected' =>
          \A i \in DOMAIN bars : Decided(i) => T'[i + 1] = T[i] ]_vars

Moving(i, up) ==
    LET change(k) == Change(bars, i, Lookbacks(job)[k])
    IN  {k \in 1 .. job.horizons :
            IF up THEN Positive(change(k)) ELSE change(k) \prec Zero}

\* A blend goes long only while more horizons are up than down, and leaves
\* only while they are not.
MajorityDecides ==
    Kind = "tsmom-blend" =>
        \A i \in 2 .. Len(bars) :
            T[i] # T[i - 1] =>
                (T[i] = One <=> Cardinality(Moving(i, TRUE)) > Cardinality(Moving(i, FALSE)))

\* The stretch of equal exposures that ends on bar i.
Leg(i) == {k \in 1 .. i : \A m \in k .. i : T[m] = T[i]}
Length(S, i) == i - (CHOOSE k \in S : \A m \in S : k <= m) + 1

\* A reversion is over after max_hold bars, whatever the price does.
TimeStopHolds ==
    Kind = "rsi-rev" =>
        \A i \in DOMAIN bars : T[i] # Zero => Length(Leg(i), i) <= job.maxHold

\* A breakout that is left for cash was held for min_hold bars.
MinHoldKept ==
    Kind = "breakout" =>
        \A i \in 2 .. Len(bars) :
            T[i] = Zero /\ T[i - 1] # Zero => Length(Leg(i - 1), i - 1) >= job.minHold

Within(x, values) == (\E y \in values : y \preceq x) /\ (\E y \in values : x \preceq y)

\* The running sum of an average is the mean of its window, a smoothed one
\* stays in the range of what it has seen, and an RSI is a share of 100.
IndicatorsHold ==
    LET closes == Closes(bars)
        sma == Sma(closes, 2)
        ema == Ema(closes, 3)
        rsi == Rsi(closes, 2)
    IN  \A i \in DOMAIN bars :
            /\ i >= 2 => sma[i] = Mean(SubSeq(closes, i - 1, i))
            /\ i >= 3 => Within(ema[i], {closes[k] : k \in 1 .. i})
            /\ i >= 3 => Within(rsi[i], {Zero, R(100)})

\* The one pass over a curve finds the worst fall from any earlier value.
DrawdownIsWorst ==
    LET closes == Closes(bars)
        falls == UNION {{(closes[j] // closes[i]) -- One : j \in i .. Len(bars)} :
                           i \in DOMAIN bars}
        found == MaxDrawdown(closes)
    IN  bars # << >> =>
            /\ \A fall \in falls : found.worst \preceq fall
            /\ found.worst = (closes[found.span[2]] // closes[found.span[1]]) -- One

\* Volatility targeting keeps the realised volatility of the position inside
\* the budget once it has the observations to measure it, and the size inside
\* the cap always.
BudgetKept ==
    Kind = "voltarget" =>
        \A i \in DOMAIN bars :
            LET returns == VolWindow(job, bars, i) IN
            /\ Abs(T[i]) \preceq (job.cap ** job.cap)
            /\ i > 1 /\ Len(returns) >= job.minObservations /\ job.floor = Zero =>
                 (Abs(T[i]) ** Variance(returns, bars))
                     \preceq (job.targetVol ** job.targetVol)

\* The audit counts every bar the calendar has and the series has not, if no
\* hole reaches the cap.
MissingIsCounted ==
    bars # << >> /\ (\A i \in 1 .. Len(bars) - 1 : bars[i + 1].time - bars[i].time < SlotCap) =>
        Quality(bars).missing = bars[Len(bars)].time - bars[1].time + 1 - Len(bars)

Walks == job \in Plans

\* What a split chose and how that did depends on no bar after it: running
\* again over a longer archive repeats every earlier split.
ChoicesAreBlind ==
    [][Appended /\ Walks => First(W', Len(W)) = W]_vars

\* What a run made from bar from + 1 to bar last of the series.
Gained(whole, from, last) == whole[last] // whole[from + 1]
\* All splits took one candidate, and the test windows follow each other.
OneChoice == /\ Walks /\ job.step = job.test /\ W # << >>
             /\ \A k \in DOMAIN W : W[k].best = W[1].best
TheRun == RunOf(job, Candidates(job.grid)[W[1].best], bars)
From(k) == Split(job, k).end
EndOfWindows == Split(job, Len(W)).last
\* The moves into the first bars of the test windows after the first.
Seams(whole) ==
    LET upto[k \in Nat] == IF k < 2 THEN One ELSE
            upto[k - 1] ** (whole[From(k) + 1] // whole[From(k)])
    IN  upto[Len(W)]
\* No move is counted in two windows: if every split takes one candidate, the
\* stitched curve is the candidate's own run.  It is short of the moves from
\* window to window, which are in neither (see SeamsBelongToAWindow).
NoMoveTwice ==
    OneChoice => OosLevel(W, Len(W)) ** Seams(TheRun)
                     = Gained(TheRun, From(1), EndOfWindows)

\* The benchmark beside it is the whole stretch held, a round trip per window.
BenchmarkTiles ==
    Walks /\ job.step = job.test /\ W # << >> =>
        LET n == Len(W) IN
        HoldLevel(W, n) = (bars[Split(job, n).last].close // bars[job.train].close)
                              ** Power(job.keep, 2 * n)

Made == job \in Baskets /\ W # Refused

\* "No leg can see past the window": a bar collected after the last one all
\* legs share changes nothing of the result.
LaterOnly ==
    /\ job \in Baskets /\ job.count = 0 /\ W # Refused
    /\ older' = older
    /\ CommonLast({bars', second'}) = CommonLast({bars, second})
SealedWindow == [][LaterOnly => W' = W]_vars

\* The legs are chosen on bars before the window they are judged on, if every
\* series of the pool ends on the same bar.
SameEnd == \A series \in {bars, second} :
              series # << >> => series[Len(series)].time = Earliest(
                  {x[Len(x)].time : x \in {bars, second} \ {<< >>}})
ChosenBefore ==
    Made /\ job.count > 0 /\ SameEnd =>
        W[1].reference <= W[1].times[1]

\* The same without that condition (select_by_turnover's own words).
ChosenBeforeWindow ==
    Made /\ job.count > 0 => W[1].reference <= W[1].times[1]

\* The legs' shares of the final equity make up all of it.
SharesAreWhole ==
    Made /\ Positive(W[1].equity[Len(W[1].times)]) => SumOf(Shares(W[1])) = One

\* A pair that has gone quiet is not held on the bar that follows.
QuietIsLeft ==
    Made /\ Positive(job.minimum) =>
        \A k \in DOMAIN W[1].legs, t \in 2 .. Len(W[1].times) :
            LET series == Pool[W[1].chosen[k]]
                i == Index(series, W[1].times[t])
            IN  series[i - 1].turnover = Zero => W[1].legs[k].positions[t] = Zero

\* How a leg's exposure moved on a bar.
Shift(s, k) == W[1].legs[s].positions[k] -- W[1].legs[s].positions[k - 1]
\* A marker of the chart points the way some leg it names really moved, and a
\* bar is left without one only where what some legs take in others give up
\* (see EveryMoveIsMarked).
MarkersNameMovers ==
    Made =>
        LET marks == Markers(W[1].legs)
        IN  /\ \A m \in marks : \E s \in m.legs : Positive(Shift(s, m.at)) = m.in
                                              /\ Shift(s, m.at) # Zero
            /\ \A k \in (2 .. Len(W[1].times)) \ {m.at : m \in marks} :
                 SumOf([s \in DOMAIN W[1].legs |-> Shift(s, k)]) = Zero

\* Each rule does what its documentation says of it, on every series.
RulesKeepTheirWord ==
    /\ TypeOK /\ WarmupIsFlat /\ RereadOnGrid /\ MajorityDecides
    /\ TimeStopHolds /\ MinHoldKept /\ BudgetKept

\* The numbers a series is described by are those of their definitions.
MeasuresHold == IndicatorsHold /\ DrawdownIsWorst /\ MissingIsCounted

\* The splits of a walk-forward are measured apart, with nothing counted twice,
\* and know nothing of what comes after them.
SplitsAreApart == []NoMoveTwice /\ []BenchmarkTiles /\ ChoicesAreBlind

\* The parts of a basket add up to it, and its legs are picked and left in time.
BasketAddsUp == SharesAreWhole /\ QuietIsLeft /\ MarkersNameMovers /\ ChosenBefore

-----------------------------------------------------------------------------
(* What docstrings promise and the code does not keep: no run checks these,  *)
(* TLC finds each violated.                                                  *)

\* rebalance_markers: "A marker on every bar where any leg moved money in or
\* out".  A bar on which the moves of the legs cancel out has none.
EveryMoveIsMarked ==
    Made => \A k \in 2 .. Len(W[1].times) :
        (\E s \in DOMAIN W[1].legs : Shift(s, k) # Zero)
            => \E m \in Markers(W[1].legs) : m.at = k

\* slice_equity: the move into a window "already belongs to the previous
\* window", so the windows pasted together are the run over all of them.  The
\* previous window ends one bar before that move.
SeamsBelongToAWindow ==
    OneChoice => OosLevel(W, Len(W)) = Gained(TheRun, From(1), EndOfWindows)
===============================================================================
