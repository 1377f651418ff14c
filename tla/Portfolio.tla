------------------------------ MODULE Portfolio ------------------------------
(***************************************************************************)
(* portfolio.run_portfolio over panels sampled by build_panel.  The archive *)
(* prints bar by bar; every so many bars is a rebalance date, at which the *)
(* book of the period before is marked and the next one is chosen and paid *)
(* for.  Beside it go the benchmark, the trade log and the cash markers    *)
(* computed from the run.  Amounts are exact.                              *)
(***************************************************************************)
EXTENDS Ratio, SequencesExt

CONSTANTS
    Symbols,   \* numbered in the order of their names
    Prices,    \* closes a symbol may print
    Rules,     \* settings of a run, see Rule
    CostRate,  \* Costs.rate
    None

\* A volatility target, VolTarget: what its __post_init__ accepts, with target on.
IsVol(v) ==
    /\ v.target \in Rational /\ v.cap \in Rational /\ v.floor \in Rational
    /\ Positive(v.target)
    /\ Zero \preceq v.floor /\ v.floor \preceq v.cap /\ v.cap \preceq One

\* A rule: every (bars between dates), lookback and maxAge (bars), mode,
\* select, top, threshold, belowPeak and trend (gates, None is off) and vol
\* (None, or target, cap and floor); bars is the bound on the calendar.
IsRule(r) ==
    /\ r.bars \in Nat /\ r.every \in Nat \ {0} /\ r.lookback \in Nat /\ r.maxAge \in Nat
    /\ r.mode \in {"long-only", "long-short"} /\ r.select \in {"rank", "sign"}
    /\ r.top \in Rational /\ Positive(r.top) /\ r.threshold \in Rational
    /\ r.belowPeak \in Rational \cup {None} /\ r.trend \in (Nat \ {0}) \cup {None}
    /\ r.vol = None \/ IsVol(r.vol)

ASSUME PortfolioAssumption ==
    /\ IsFiniteSet(Symbols) /\ Symbols # {} /\ Symbols \subseteq Nat
    /\ Prices \subseteq Nat \ {0}
    /\ None \notin Nat
    /\ \A r \in Rules : IsRule(r)
    /\ CostRate \in Rational /\ Zero \preceq CostRate /\ CostRate \prec One

VARIABLES
    rule,    \* the settings of this run
    prints,  \* per bar of the calendar, what each symbol printed
    phase,   \* at a date: the period before is earned, then the next traded
    book,    \* weights, value (of the curve, or after costs), fees, dropped
             \* marks, alive
    scaled,  \* unscaled weights, the book's own returns, the last multiplier
    chosen,  \* rebalances: longs and shorts, one pair per date
    ledger   \* history: the same account kept in units and cash

vars == <<rule, prints, phase, book, scaled, chosen, ledger>>

Nothing == [s \in Symbols |-> Zero]
Total(f) == FoldFunction(++, Zero, f)

Init ==
    /\ rule \in Rules
    /\ prints = <<>>
    /\ phase = "bars"
    /\ book = [weights |-> Nothing, value |-> One, fees |-> Zero,
               dropped |-> 0, alive |-> TRUE]
    /\ scaled = [unscaled |-> Nothing, returns |-> <<>>, scale |-> One]
    /\ chosen = <<>>
    /\ ledger = [units |-> Nothing, cash |-> One, traded |-> Zero, mark |-> Nothing,
                  passive |-> [s \in Symbols |-> Q(1, Cardinality(Symbols))]]

-----------------------------------------------------------------------------
(* Sampling: close_at, rebalance_dates, build_panel *)

DateBar(k) == 1 + (k - 1) * rule.every
IsDate(b) == (b - 1) % rule.every = 0
Dates == IF prints = <<>> THEN 0 ELSE 1 + (Len(prints) - 1) \div rule.every

Printed(s, b) == {c \in 1 .. b : prints[c][s] # None}
Newest(cs) == CHOOSE c \in cs : \A d \in cs : d <= c

\* (mutated form: a print never gets too old)
CloseForever(s, b) ==
    IF b < 1 \/ Printed(s, b) = {} THEN None ELSE prints[Newest(Printed(s, b))][s]

\* The last close at or before bar b, None when it is too old.
CloseAt(s, b) ==
    LET cs == IF b < 1 THEN {} ELSE Printed(s, b)
        newest == Newest(cs)
    IN  IF cs = {} \/ b - newest > rule.maxAge THEN None ELSE prints[newest][s]

Momentum(s, b) ==
    LET value == CloseAt(s, b)  past == CloseAt(s, b - rule.lookback) IN
    IF value = None \/ past = None THEN None ELSE Q(value, past) -- One

\* A gate whose reading does not exist yet counts as failed.
GateOk(s, b) ==
    LET seen == {prints[c][s] : c \in Printed(s, b)}
        peak == CHOOSE p \in seen : \A q \in seen : q <= p
        long == {c \in Printed(s, b) :
                   Cardinality({d \in Printed(s, b) : c < d}) < rule.trend}
        mean == Total([c \in long |-> R(prints[c][s])]) // R(rule.trend)
    IN  /\ rule.belowPeak # None =>
             /\ Cardinality(Printed(s, b)) > 1
             /\ Zero -- rule.belowPeak \preceq Q(CloseAt(s, b), peak) -- One
        /\ rule.trend # None =>
             /\ Cardinality(long) >= rule.trend
             /\ One \preceq R(CloseAt(s, b)) // mean

-----------------------------------------------------------------------------
(* Choosing: select, VolTarget *)

Candidates(b) == {s \in Symbols : Momentum(s, b) # None /\ GateOk(s, b)}

\* Strongest first, equals by name.
Stronger(s, t, b) ==
    \/ Momentum(t, b) \prec Momentum(s, b)
    \/ Momentum(s, b) = Momentum(t, b) /\ s < t

\* round() to the even neighbour on a half.
Rounded(a) ==
    LET down == a[1] \div a[2]
        rest == (a -- R(down)) -- <<1, 2>>
    IN  IF Positive(rest) \/ (rest = Zero /\ down % 2 = 1) THEN down + 1 ELSE down
SliceSize(n) ==
    LET size == IF rule.top \prec One
                THEN (LET r == Rounded(R(n) ** rule.top) IN IF r < 1 THEN 1 ELSE r)
                ELSE rule.top[1] \div rule.top[2]
    IN  IF size < n THEN size ELSE n

\* The first and the last names of that ranking.
Slice(b) ==
    {s \in Candidates(b) : Cardinality({t \in Candidates(b) : Stronger(t, s, b)})
                             < SliceSize(Cardinality(Candidates(b)))}
Weakest(b) ==
    {s \in Candidates(b) : Cardinality({t \in Candidates(b) : Stronger(s, t, b)})
                             < SliceSize(Cardinality(Candidates(b)))}

\* (mutated form: a name may be both bought and shorted)
SelectBoth(b) ==
    LET short == rule.mode = "long-short"
        ms == [s \in Candidates(b) |-> Momentum(s, b)]
        drop == Zero -- Abs(rule.threshold)
    IN  IF rule.select = "sign"
        THEN [longs |-> {s \in DOMAIN ms : rule.threshold \prec ms[s]},
              shorts |-> {s \in DOMAIN ms : short /\ ms[s] \prec drop}]
        ELSE [longs |-> Slice(b), shorts |-> IF short THEN Weakest(b) ELSE {}]
Select(b) ==
    LET short == rule.mode = "long-short"
        ms == [s \in Candidates(b) |-> Momentum(s, b)]
        drop == Zero -- Abs(rule.threshold)
    IN  IF rule.select = "sign"
        THEN [longs |-> {s \in DOMAIN ms : rule.threshold \prec ms[s]},
              shorts |-> {s \in DOMAIN ms : short /\ ms[s] \prec drop}]
        ELSE [longs |-> Slice(b),
              shorts |-> IF short THEN Weakest(b) \ Slice(b) ELSE {}]

\* (mutated form: each side gets the whole account)
UnscaledFull(pick) ==
    LET part(names) == One // R(Cardinality(names))
    IN  [s \in Symbols |->
           (IF s \in pick.longs THEN part(pick.longs) ELSE Zero)
             -- (IF s \in pick.shorts THEN part(pick.shorts) ELSE Zero)]
\* Equal weights; half of the account a side once there is a short.
Unscaled(pick) ==
    LET side == IF pick.shorts # {} THEN <<1, 2>> ELSE One
        part(names) == side // R(Cardinality(names))
    IN  [s \in Symbols |->
           (IF s \in pick.longs THEN part(pick.longs) ELSE Zero)
             -- (IF s \in pick.shorts THEN part(pick.shorts) ELSE Zero)]

\* (mutated form: the volatility divides without the cap)
ScaleUncapped(returns) ==
    LET gap == Abs(returns[Len(returns)] -- returns[Len(returns) - 1])
    IN  IF rule.vol = None \/ Len(returns) < 2 \/ gap = Zero THEN One
        ELSE rule.vol.target // (gap // R(2))

\* Two periods are the window, so their deviation is half their distance.
Scale(returns) ==
    IF rule.vol = None \/ Len(returns) < 2 THEN One
    ELSE LET sigma == Abs(returns[Len(returns)] -- returns[Len(returns) - 1]) // R(2)
         IN  IF sigma = Zero THEN rule.vol.cap
             ELSE Greatest(rule.vol.floor, Least(rule.vol.cap, rule.vol.target // sigma))

-----------------------------------------------------------------------------
(* The loop of run_portfolio *)

Sized(f, scale) == [s \in Symbols |-> f[s] ** scale]
Turnover(targets) == Total([s \in Symbols |-> Abs(targets[s] -- book.weights[s])])

\* (mutated form: a position without a bar is worth nothing)
RatiosLost(from, b) ==
    [s \in Symbols |->
       LET start == CloseAt(s, from)  end == CloseAt(s, b) IN
       IF start = None THEN One ELSE IF end = None THEN Zero ELSE Q(end, start)]
\* Fraction of a price that its symbol's position is marked at a bar later on:
\* none in reach leaves it where the period started.
Ratios(from, b) ==
    [s \in Symbols |->
       LET start == CloseAt(s, from)  end == CloseAt(s, b) IN
       IF start = None \/ end = None THEN One ELSE Q(end, start)]
Growth(weights, ratios) ==
    One ++ Total([s \in Symbols |-> weights[s] ** (ratios[s] -- One)])

\* (mutated form: the growth is divided out twice)
DriftedTwice(ratios, growth) ==
    [s \in Symbols |-> (book.weights[s] ** ratios[s]) // Power(growth, 2)]

Drifted(ratios, growth) ==
    IF Positive(growth)
    THEN [s \in Symbols |-> (book.weights[s] ** ratios[s]) // growth]
    ELSE book.weights

Held == IF chosen = <<>> THEN {} ELSE Last(chosen).longs \cup Last(chosen).shorts

\* (mutated form: a book that lost everything goes on below zero)
NegativeAfter(after) == after
After(after) == Greatest(after, Zero)

\* The history's own marks: the price each symbol was last sampled at.
Marks(b) == [s \in Symbols |->
               IF CloseAt(s, b) = None THEN ledger.mark[s] ELSE R(CloseAt(s, b))]

\* A share of each symbol bought when it was first sampled, and left alone.
Passive(marks) ==
    [s \in Symbols |->
       IF marks[s] = Zero THEN ledger.passive[s]
       ELSE IF ledger.mark[s] = Zero THEN ledger.passive[s] ** Power(One -- CostRate, 2)
       ELSE ledger.passive[s] ** (marks[s] // ledger.mark[s])]

\* A bar of the calendar; the book waits for its next date.
Bar(p) ==
    LET b == Len(prints) + 1 IN
    /\ phase = "bars" /\ book.alive
    /\ b <= rule.bars
    /\ prints' = Append(prints, p)
    /\ phase' = IF ~IsDate(b) THEN "bars" ELSE IF chosen = <<>> THEN "trade" ELSE "earn"
    /\ UNCHANGED <<rule, book, scaled, chosen, ledger>>

Earned(b, ratios, growth) ==
    LET after == book.value ** growth IN
    /\ book' = [book EXCEPT
                 !.weights = Drifted(ratios, growth),
                 !.value = After(after),
                 !.dropped = @ + Cardinality({s \in Held : CloseAt(s, b) = None}),
                 !.alive = Positive(after)]
    /\ scaled' = [scaled EXCEPT
                   !.returns = Append(@, Growth(scaled.unscaled, ratios) -- One)]
    /\ ledger' = [ledger EXCEPT !.mark = Marks(b), !.passive = Passive(Marks(b))]

EarnedAt(b, ratios) == Earned(b, ratios, Growth(book.weights, ratios))

\* The period that ends on this date.
Earn ==
    LET b == Len(prints) IN
    /\ phase = "earn"
    /\ phase' = "trade"
    /\ EarnedAt(b, Ratios(b - rule.every, b))
    /\ UNCHANGED <<rule, prints, chosen>>

\* What the history keeps of a trade into targets: the money moved, and the
\* units and the cash that are left.
Traded(targets, value, marks) ==
    [units |-> [s \in Symbols |-> IF targets[s] = Zero THEN Zero
                                  ELSE (targets[s] ** value) // marks[s]],
     cash |-> value ** (One -- Total(targets)),
     traded |-> ledger.traded ++
       Total([s \in Symbols |->
                Abs((targets[s] ** book.value) -- (ledger.units[s] ** ledger.mark[s]))]),
     mark |-> marks,
     passive |-> IF chosen = <<>> THEN Passive(marks) ELSE ledger.passive]

PaidFor(targets, cost) ==
    /\ book' = [book EXCEPT !.weights = targets, !.value = After(@ -- cost),
                            !.fees = @ ++ cost]
    /\ ledger' = Traded(targets, book'.value, Marks(Len(prints)))

Bought(targets) == PaidFor(targets, (book.value ** Turnover(targets)) ** CostRate)

Taken(pick, unscaled, scale) ==
    /\ scaled' = [scaled EXCEPT !.unscaled = unscaled, !.scale = scale]
    /\ chosen' = Append(chosen, pick)
    /\ Bought(Sized(unscaled, scale))

Picked(pick) == Taken(pick, Unscaled(pick), Scale(scaled.returns))

\* The next book is chosen, paid for against the drifted one, and held.
Rebalance ==
    /\ phase = "trade" /\ book.alive
    /\ phase' = "bars"
    /\ Picked(Select(Len(prints)))
    /\ UNCHANGED <<rule, prints>>

Next == (\E p \in [Symbols -> Prices \cup {None}] : Bar(p)) \/ Earn \/ Rebalance

Spec == Init /\ [][Next]_vars

-----------------------------------------------------------------------------
(* Computed from the run: equal_weight_benchmark, trade_log *)

Sampled(s) == {k \in 1 .. Dates : CloseAt(s, DateBar(k)) # None}
First(ks) == CHOOSE k \in ks : \A j \in ks : k <= j

\* (mutated form: a symbol that is gone is worth what was paid for it)
LatestIsEntry(s) ==
    IF Dates \in Sampled(s) THEN R(CloseAt(s, DateBar(Dates)))
    ELSE R(CloseAt(s, DateBar(First(Sampled(s)))))
Latest(s) == R(CloseAt(s, DateBar(Newest(Sampled(s)))))

\* Each share is in cash until its symbol is listed, and bears both sides'
\* commission from then on.
Benchmark ==
    Total([s \in Symbols |->
      (IF Sampled(s) = {} THEN One
       ELSE (Latest(s) // R(CloseAt(s, DateBar(First(Sampled(s))))))
              ** Power(One -- CostRate, 2)) // R(Cardinality(Symbols))])

Longs(k) == IF k < 1 THEN {} ELSE chosen[k].longs
Shorts(k) == IF k < 1 THEN {} ELSE chosen[k].shorts
Priced(s, k) == CloseAt(s, DateBar(k)) # None

\* (mutated form: both sides are compared with the longs before)
TradeLogOneSide ==
    UNION {{<<"buy", s, k>> : s \in Longs(k) \ Longs(k - 1)}
             \cup {<<"sell", s, k>> : s \in {s \in Longs(k - 1) \ Longs(k) : Priced(s, k)}}
             \cup {<<"short", s, k>> : s \in Shorts(k) \ Longs(k - 1)}
             \cup {<<"cover", s, k>> : s \in {s \in Longs(k - 1) \ Shorts(k) : Priced(s, k)}}
           : k \in 1 .. Len(chosen)}
\* An exit on a date its symbol has no price for is not logged.
TradeLog ==
    UNION {{<<"buy", s, k>> : s \in Longs(k) \ Longs(k - 1)}
             \cup {<<"sell", s, k>> : s \in {s \in Longs(k - 1) \ Longs(k) : Priced(s, k)}}
             \cup {<<"short", s, k>> : s \in Shorts(k) \ Shorts(k - 1)}
             \cup {<<"cover", s, k>> : s \in {s \in Shorts(k - 1) \ Shorts(k) : Priced(s, k)}}
           : k \in 1 .. Len(chosen)}
-----------------------------------------------------------------------------
(* Properties *)

TypeOK ==
    /\ rule \in Rules /\ Len(prints) <= rule.bars
    /\ phase \in {"bars", "earn", "trade"}
    /\ Len(scaled.returns) \in {Len(chosen), Len(chosen) - 1} \cup {0}
    /\ Zero \preceq scaled.scale /\ scaled.scale \preceq One
    /\ book.dropped \in 0 .. Cardinality(Symbols) * rule.bars /\ book.alive \in BOOLEAN
    /\ \A c \in Range(chosen) : c.longs \cup c.shorts \subseteq Symbols

Worth == Total([s \in Symbols |-> ledger.units[s] ** ledger.mark[s]]) ++ ledger.cash

\* The loop of weights and growth is an account of units and cash: what the
\* curve says after a period is what the units held through it and the cash
\* beside them are worth (run_portfolio marks "weights" drifted by growth).
LedgerReproducesCurve ==
    phase = "trade" => book.value = Greatest(Worth, Zero)

\* The commissions are the rate on the money that really changed hands: a
\* position that only drifted is not billed ("a merely-held position free").
FeesAreTraded == book.fees = CostRate ** ledger.traded

\* The curve never passes below zero, only a book with shorts can reach it,
\* and nothing is traded afterwards ("flat at zero").
Solvent ==
    /\ Zero \preceq book.value
    /\ ~book.alive => book.value = Zero /\ \E c \in Range(chosen) : c.shorts # {}

Decided == phase = "bars" /\ chosen # <<>> /\ IsDate(Len(prints))
Fresh(s, b) == \E c \in Printed(s, b) : b - c <= rule.maxAge

\* A symbol that has not traded for maxAge "is simply out of the universe":
\* what is bought printed lately, at the date and a lookback before it.
StaleIsOut ==
    Decided => \A s \in Held : Fresh(s, Len(prints)) /\ Fresh(s, Len(prints) - rule.lookback)

\* No name is on both sides, and none is shorted that is stronger than one held
\* long, whatever the slice and its overlap in a thin cross-section.
LongsOutrankShorts ==
    Decided =>
        \A l \in Last(chosen).longs, s \in Last(chosen).shorts :
            l # s /\ Momentum(s, Len(prints)) \preceq Momentum(l, Len(prints))

\* The target is reached by holding less, never by gearing: "never gear up
\* beyond this".  Before there are two periods to read, the book is unscaled.
GrossIsCapped ==
    Decided =>
        Total([s \in Symbols |-> Abs(book.weights[s])])
            \preceq (IF rule.vol = None \/ Len(scaled.returns) < 2 THEN One ELSE rule.vol.cap)

\* Replaying the trade log gives the book, unless a holding was dropped.
LogReplaysToBook ==
    LET log == TradeLog
        times(kind, s) == Cardinality({e \in log : e[1] = kind /\ e[2] = s})
        holds(s, names) == IF s \in names THEN 1 ELSE 0
    IN  book.dropped = 0 => \A s \in Symbols :
          /\ times("buy", s) - times("sell", s) = holds(s, Longs(Len(chosen)))
          /\ times("short", s) - times("cover", s) = holds(s, Shorts(Len(chosen)))

\* The benchmark, computed anew for every date from the panels, is one account
\* that buys each symbol once and never trades again.
BenchmarkIsBuyAndHold ==
    chosen # <<>> /\ phase # "earn" => Benchmark = Total(ledger.passive)

\* Curve, commissions and benchmark are those of accounts of units and cash.
AccountsAgree == LedgerReproducesCurve /\ FeesAreTraded /\ BenchmarkIsBuyAndHold

\* What is held was traded lately and outranks what is shorted, and the book
\* is neither geared nor in debt.
HoldingsAreSound == TypeOK /\ StaleIsOut /\ LongsOutrankShorts /\ GrossIsCapped /\ Solvent

\* "No bar since: the position sits at its last print."
DroppedAtLastPrint ==
    phase = "trade" => \A s \in Held :
        CloseAt(s, Len(prints)) = None =>
            ledger.mark[s] = R(prints[Newest(Printed(s, Len(prints)))][s])
=============================================================================
