------------------------------ MODULE Strategies ------------------------------
(***************************************************************************)
(* analysis.strategies: what exposure each rule wants after every bar of a  *)
(* series.  A rule is a record with its kind and its parameters; a wrapper  *)
(* holds the rule it wraps.  Bars are [time, open, high, low, close].       *)
(* An exposure is given by its signed square, so that a size taken from a   *)
(* volatility stays a fraction; for all-or-nothing rules it is itself.      *)
(***************************************************************************)
EXTENDS Indicators, FiniteSets, TLC

CONSTANT Year \* SECONDS_PER_YEAR in the units of a bar's time

Closes(bars) == [i \in DOMAIN bars |-> bars[i].close]
Flat(bars) == [i \in DOMAIN bars |-> Zero]
Short == Zero -- One
Sided(rule, x) == IF rule.mode = "long-short" THEN x ELSE Zero

-----------------------------------------------------------------------------
(* The decision grid *)

\* The k-th smallest member: the least that k members do not exceed.
NthSmallest(s, k) ==
    LET enough(d) == Cardinality({i \in DOMAIN s : s[i] <= d}) >= k
    IN  CHOOSE d \in {s[i] : i \in DOMAIN s} :
            enough(d) /\ \A i \in DOMAIN s : enough(s[i]) => d <= s[i]

\* bar_step: the median spacing of the whole series, truncated.
BarStep(bars) ==
    LET n == Len(bars) - 1
        deltas == [i \in 1 .. n |-> bars[i + 1].time - bars[i].time]
    IN  IF n < 1 THEN 1
        ELSE IF n % 2 = 1 THEN NthSmallest(deltas, (n + 1) \div 2)
        ELSE (NthSmallest(deltas, n \div 2) + NthSmallest(deltas, n \div 2 + 1)) \div 2

\* (mutated form: the grid starts on the first bar that has a score)
GridAtStart(time, period) == time
FirstGrid(time, period) == ((time + period - 1) \div period) * period

\* (mutated form: a tie is read as a rise)
ReadTies(score, short) == IF score >= 0 THEN One
                          ELSE IF short THEN Short ELSE Zero
Read(score, short) == IF score > 0 THEN One
                      ELSE IF short /\ score < 0 THEN Short ELSE Zero

\* (mutated form: re-read on every bar)
NextGridNever(grid, period) == grid
NextGrid(grid, period) == grid + period

\* on_decision_grid: scores read at grid points, held in between.
OnDecisionGrid(scores, bars, rebalance, short) ==
    LET start == FirstKnown(scores)
        period == rebalance * BarStep(bars)
        step(s, i) ==
            IF i < start \/ bars[i].time < s.grid THEN s
            ELSE [grid |-> NextGrid(s.grid, period),
                  held |-> IF scores[i] = None THEN s.held ELSE Read(scores[i], short)]
        from == [grid |-> FirstGrid(bars[start].time, period), held |-> Zero]
        held(states) == [i \in DOMAIN bars |-> states[i].held]
    IN  IF start = 0 THEN Flat(bars) ELSE held(Scan(step, from, Len(bars)))

Sign(x) == IF Positive(x) THEN 1 ELSE IF x[1] < 0 THEN -1 ELSE 0
Change(bars, i, lookback) == (bars[i].close // bars[i - lookback].close) -- One

-----------------------------------------------------------------------------
(* Trend *)

TsmomOK(r) == /\ r.lookback >= 1 /\ r.rebalance >= 1
              /\ Zero \preceq r.threshold /\ r.mode \in {"long-only", "long-short"}

TsmomScores(r, bars) ==
    [i \in DOMAIN bars |->
        IF i <= r.lookback THEN None
        ELSE LET change == Change(bars, i, r.lookback)
             IN  IF r.threshold \prec change THEN 1
                 ELSE IF change \prec (Zero -- r.threshold) /\ r.mode = "long-short"
                 THEN -1 ELSE 0]
Tsmom(r, bars) ==
    OnDecisionGrid(TsmomScores(r, bars), bars, r.rebalance, r.mode = "long-short")

BlendOK(r) == r.base >= 1 /\ r.horizons >= 2 /\ r.rebalance >= 1
Lookbacks(r) ==
    LET doubled[k \in 1 .. r.horizons] == IF k = 1 THEN r.base ELSE 2 * doubled[k - 1]
    IN  doubled

\* The sum of the signs; the mean has the same sign, which is all that is read.
BlendScores(r, bars) ==
    LET ways(i, sign) ==
            {k \in 1 .. r.horizons : Sign(Change(bars, i, Lookbacks(r)[k])) = sign}
        size(S) == SumOf([k \in 1 .. r.horizons |-> IF k \in S THEN One ELSE Zero])[1]
    IN  [i \in DOMAIN bars |->
            IF i <= Lookbacks(r)[r.horizons] THEN None
            ELSE size(ways(i, 1)) - size(ways(i, -1))]
Blend(r, bars) == OnDecisionGrid(BlendScores(r, bars), bars, r.rebalance, FALSE)

SmaOK(r) == r.window >= 2 /\ r.rebalance >= 1
SmaScores(r, bars) ==
    LET above(mean) == [i \in DOMAIN bars |->
            IF mean[i] = None THEN None ELSE Sign(bars[i].close -- mean[i])]
    IN  above(Sma(Closes(bars), r.window))
SmaTrend(r, bars) ==
    LET every(scores) == [i \in DOMAIN bars |->
                IF scores[i] = None THEN Zero ELSE Read(scores[i], FALSE)]
        sparse(scores) == OnDecisionGrid(scores, bars, r.rebalance, FALSE)
        read(scores) == IF r.rebalance = 1 THEN every(scores) ELSE sparse(scores)
    IN  read(SmaScores(r, bars))

\* On the average is below it: always in the market.
SmaTrendLongShort(r, bars) ==
    LET side(mean) == [i \in DOMAIN bars |->
            IF mean[i] = None THEN Zero
            ELSE IF mean[i] \prec bars[i].close THEN One ELSE Short]
    IN  side(Sma(Closes(bars), r.window))

MacdOK(r) == /\ r.fast >= 2 /\ r.signal >= 2 /\ r.fast < r.slow
             /\ r.mode \in {"long-only", "long-short"}

\* (mutated form: warm-up counted on the slow average alone)
MacdTrendEager(r, bars) ==
    LET line == MacdLine(Closes(bars), r.fast, r.slow)
    IN  [i \in DOMAIN bars |->
            IF line[i] = None \/ line[i] = Zero THEN Zero
            ELSE IF Positive(line[i]) THEN One ELSE Sided(r, Short)]
MacdTrend(r, bars) ==
    LET side(line, signal) == [i \in DOMAIN bars |->
            IF line[i] = None \/ signal[i] = None \/ line[i] = signal[i] THEN Zero
            ELSE IF signal[i] \prec line[i] THEN One ELSE Sided(r, Short)]
        crossed(line) == side(line, Ema(line, r.signal))
    IN  crossed(MacdLine(Closes(bars), r.fast, r.slow))

\* A channel is the range of the window bars before the bar itself.
Top(bars, i, window) == Largest({bars[k].high : k \in i - window .. i - 1})
Bottom(bars, i, window) == Smallest({bars[k].low : k \in i - window .. i - 1})
DonchianOK(r) == /\ r.entry >= 2 /\ r.exitWindow >= 2 /\ r.minHold >= 0
                 /\ r.mode \in {"long-only", "long-short"}

At(side, i) == [side |-> side, since |-> i]
NoSide == At(0, 0)
Held(s, i) == IF s.side = 0 THEN 0 ELSE i - s.since

\* (mutated form: the exit channel is free from the first bar on)
MayLeaveAtOnce(r, s, i) == TRUE
MayLeave(r, s, i) == Held(s, i) >= r.minHold

Donchian(r, bars) ==
    LET warmup == IF r.entry > r.exitWindow THEN r.entry ELSE r.exitWindow
        up(i) == Top(bars, i, r.entry) \prec bars[i].close
        down(i) == r.mode = "long-short" /\ bars[i].close \prec Bottom(bars, i, r.entry)
        left(s, i) == /\ MayLeave(r, s, i)
                      /\ IF s.side = 1 THEN bars[i].close \prec Bottom(bars, i, r.exitWindow)
                         ELSE Top(bars, i, r.exitWindow) \prec bars[i].close
        step(s, i) ==
            IF i <= warmup THEN NoSide
            ELSE IF s.side # 1 /\ up(i) THEN At(1, i)
            ELSE IF s.side # -1 /\ down(i) THEN At(-1, i)
            ELSE IF s.side # 0 /\ left(s, i) THEN NoSide ELSE s
        side(states) == [i \in DOMAIN bars |-> R(states[i].side)]
    IN  side(Scan(step, NoSide, Len(bars)))

-----------------------------------------------------------------------------
(* Reversion *)

ReversionOK(r) == r.window >= 2 /\ r.mode \in {"long-only", "long-short"}
SmaReversion(r, bars) ==
    LET side(mean) == [i \in DOMAIN bars |->
            IF mean[i] = None \/ mean[i] = bars[i].close THEN Zero
            ELSE IF bars[i].close \prec mean[i] THEN One ELSE Sided(r, Short)]
    IN  side(Sma(Closes(bars), r.window))

RsiOK(r) == /\ r.window >= 2 /\ r.maxHold >= 1
            /\ Positive(r.oversold) /\ r.oversold \prec r.exit
            /\ r.exit \prec r.overbought /\ r.overbought \prec R(100)
            /\ r.mode \in {"long-only", "long-short"}

\* (mutated form: the time stop is one bar late)
TimeUpLate(r, s, i) == Held(s, i) > r.maxHold
TimeUp(r, s, i) == Held(s, i) >= r.maxHold

RsiReversion(r, bars) ==
    LET step(rsi, s, i) ==
            IF rsi[i] = None THEN NoSide
            ELSE IF s.side = 0
            THEN IF rsi[i] \prec r.oversold THEN At(1, i)
                 ELSE IF r.mode = "long-short" /\ r.overbought \prec rsi[i] THEN At(-1, i)
                 ELSE s
            ELSE IF TimeUp(r, s, i) THEN NoSide
            ELSE IF (s.side = 1 /\ r.exit \prec rsi[i]) \/ (s.side = -1 /\ rsi[i] \prec r.exit)
            THEN NoSide ELSE s
        side(states) == [i \in DOMAIN bars |-> R(states[i].side)]
        walk(rsi) == side(Scan(LAMBDA s, i : step(rsi, s, i), NoSide, Len(bars)))
    IN  walk(Rsi(Closes(bars), r.window))

-----------------------------------------------------------------------------
(* Wrappers *)

\* The returns the volatility of bar i is taken from, i's own included.
\* (mutated form: the next bar's return too)
VolWindowAhead(r, bars, i) ==
    LET from == IF i - r.volWindow < 1 THEN 2 ELSE i - r.volWindow + 1
        to == IF i < Len(bars) THEN i + 1 ELSE i
    IN  [k \in 1 .. to - from + 1 |-> Change(bars, from + k - 1, 1)]
VolWindow(r, bars, i) ==
    LET from == IF i - r.volWindow < 1 THEN 2 ELSE i - r.volWindow + 1
    IN  [k \in 1 .. i - from + 1 |-> Change(bars, from + k - 1, 1)]

\* The square of the annualised volatility of some returns.
Variance(returns, bars) ==
    LET mean == Mean(returns)
        off(k) == returns[k] -- mean
    IN  Mean([k \in DOMAIN returns |-> off(k) ** off(k)]) ** Q(Year, BarStep(bars))

ScaledOK(r) == /\ Positive(r.targetVol) /\ r.volWindow >= 2 /\ r.minObservations >= 2
               /\ Zero \preceq r.floor /\ r.floor \preceq r.cap /\ r.cap \preceq One

\* ScaledStrategy.scales, squared.
\* (mutated form: the ratio upside down)
ScaleInverted(r, bars, i) ==
    LET returns == VolWindow(r, bars, i)
        variance == Variance(returns, bars)
    IN  IF i = 1 \/ Len(returns) < r.minObservations THEN One
        ELSE Greatest(r.floor ** r.floor,
                      Least(r.cap ** r.cap, variance // (r.targetVol ** r.targetVol)))
ScaleSquared(r, bars, i) ==
    LET returns == VolWindow(r, bars, i)
        factor(variance) ==
            IF variance = Zero THEN r.cap ** r.cap
            ELSE Greatest(r.floor ** r.floor,
                          Least(r.cap ** r.cap, (r.targetVol ** r.targetVol) // variance))
    IN  IF i = 1 \/ Len(returns) < r.minObservations THEN One
        ELSE factor(Variance(returns, bars))

\* (mutated form: the ratio is not clamped at all)
ScaledUnclamped(r, inner, bars) ==
    LET ratio(i) == (r.targetVol ** r.targetVol) // Variance(VolWindow(r, bars, i), bars)
    IN  [i \in DOMAIN bars |->
            IF i = 1 \/ Variance(VolWindow(r, bars, i), bars) = Zero THEN inner[i]
            ELSE inner[i] ** ratio(i)]
\* Clamped to the cap on either side.
Scaled(r, inner, bars) ==
    LET cap == r.cap ** r.cap
    IN  [i \in DOMAIN bars |->
            Greatest(Zero -- cap, Least(cap, inner[i] ** ScaleSquared(r, bars, i)))]

VolFilterOK(r) == Positive(r.maxVol) /\ r.volWindow >= 2
Calm(r, bars, i) ==
    LET returns == VolWindow(r, bars, i)
    IN  \/ i = 1 \/ Len(returns) < r.minObservations
        \/ Variance(returns, bars) \preceq (r.maxVol ** r.maxVol)
VolFiltered(r, inner, bars) ==
    [i \in DOMAIN bars |-> IF Calm(r, bars, i) THEN inner[i] ELSE Zero]

-----------------------------------------------------------------------------
(* The registry *)

Plain(r, bars) ==
    CASE r.kind = "tsmom" -> Tsmom(r, bars)
      [] r.kind = "tsmom-blend" -> Blend(r, bars)
      [] r.kind = "sma" -> SmaTrend(r, bars)
      [] r.kind = "sma-ls" -> SmaTrendLongShort(r, bars)
      [] r.kind = "sma-rev" -> SmaReversion(r, bars)
      [] r.kind = "macd" -> MacdTrend(r, bars)
      [] r.kind = "breakout" -> Donchian(r, bars)
      [] r.kind = "rsi-rev" -> RsiReversion(r, bars)

\* A rule, a wrapper over a rule, or one over a wrapped rule: voltarget-volfilter-sma.
Under(r) == IF r.kind = "voltarget" THEN r.inner ELSE r
Innermost(r) == IF Under(r).kind = "volfilter" THEN Under(r).inner ELSE Under(r)

Wrapped(r, wanted, bars) ==
    IF r.kind = "volfilter" THEN VolFiltered(r, wanted, bars) ELSE wanted
Outermost(r, wanted, bars) ==
    IF r.kind = "voltarget" THEN Scaled(r, wanted, bars) ELSE wanted
Targets(r, bars) ==
    Outermost(r, Wrapped(Under(r), Plain(Innermost(r), bars), bars), bars)

\* A constructor that refuses its parameters builds no strategy.
PlainOK(r) ==
    CASE r.kind = "tsmom" -> TsmomOK(r)
      [] r.kind = "tsmom-blend" -> BlendOK(r)
      [] r.kind = "sma" -> SmaOK(r)
      [] r.kind = "macd" -> MacdOK(r)
      [] r.kind = "breakout" -> DonchianOK(r)
      [] r.kind = "rsi-rev" -> RsiOK(r)
      [] r.kind = "sma-rev" -> ReversionOK(r)
      [] OTHER -> r.window >= 2
WrappedOK(r) == IF r.kind = "volfilter" THEN VolFilterOK(r) /\ PlainOK(r.inner)
                ELSE PlainOK(r)
StrategyOK(r) == IF r.kind = "voltarget" THEN ScaledOK(r) /\ WrappedOK(r.inner)
                 ELSE WrappedOK(r)

\* The parameters a rule is built from.
Mode == {"long-only", "long-short"}
PlainRule ==
    [kind : {"tsmom"}, lookback : Nat, rebalance : Nat, threshold : Rational, mode : Mode]
    \cup [kind : {"tsmom-blend"}, base : Nat, horizons : Nat, rebalance : Nat]
    \cup [kind : {"sma"}, window : Nat, rebalance : Nat]
    \cup [kind : {"sma-ls"}, window : Nat]
    \cup [kind : {"sma-rev"}, window : Nat, mode : Mode]
    \cup [kind : {"macd"}, fast : Nat, slow : Nat, signal : Nat, mode : Mode]
    \cup [kind : {"breakout"}, entry : Nat, exitWindow : Nat, minHold : Nat, mode : Mode]
    \cup [kind : {"rsi-rev"}, window : Nat, oversold : Rational, exit : Rational,
          overbought : Rational, maxHold : Nat, mode : Mode]
FilteredRule ==
    [kind : {"volfilter"}, maxVol : Rational, volWindow : Nat, minObservations : Nat,
     inner : PlainRule]
SizedRule ==
    [kind : {"voltarget"}, targetVol : Rational, volWindow : Nat, minObservations : Nat,
     cap : Rational, floor : Rational, inner : PlainRule \cup FilteredRule]
Rule == PlainRule \cup FilteredRule \cup SizedRule

\* Bars needed before the first exposure can appear.
PlainWarmup(r) ==
    CASE r.kind = "tsmom" -> r.lookback
      [] r.kind = "tsmom-blend" -> Lookbacks(r)[r.horizons]
      [] r.kind = "macd" -> r.slow + r.signal - 1
      [] r.kind = "breakout" -> IF r.entry > r.exitWindow THEN r.entry ELSE r.exitWindow
      [] r.kind = "rsi-rev" -> r.window + 1
      [] OTHER -> r.window
Warmup(r) == PlainWarmup(Innermost(r))
===============================================================================
