-------------------------------- MODULE Basket --------------------------------
(***************************************************************************)
(* basket.run_basket and the choice of its legs: every leg is run over its  *)
(* own history, cut to the window all of them share and rebased there, and  *)
(* the curves are added up at fixed weights.  A setting holds the rule of   *)
(* the legs, the window's length or start, the liquidity rule, and how many *)
(* legs are chosen by turnover (0: all that are given).                     *)
(***************************************************************************)
EXTENDS WalkForward

Latest(S) == CHOOSE t \in S : \A u \in S : u <= t
Earliest(S) == CHOOSE t \in S : \A u \in S : t <= u
Later(a, b) == IF a > b THEN a ELSE b

Median(values) ==
    LET s == SortSeq(values, LAMBDA a, b : a \prec b)
        n == Len(s)
        upper == n \div 2 + 1
    IN  IF n % 2 = 1 THEN s[upper] ELSE (s[upper - 1] ++ s[upper]) // R(2)

-----------------------------------------------------------------------------
(* Choosing the legs *)

\* (mutated form: --last is not taken off)
ReferenceLate(b, pool) ==
    Latest({pool[s][Len(pool[s])].time : s \in {x \in DOMAIN pool : pool[x] # << >>}})
\* Where the selection window ends, measured on the newest series there is.
Reference(b, pool) ==
    IF b.since > 0 THEN b.since
    ELSE Latest({pool[s][Len(pool[s])].time : s \in {x \in DOMAIN pool : pool[x] # << >>}})
            - b.last

Sample(b, series, reference) ==
    LET in(bar) == /\ reference - b.lookback <= bar.time /\ bar.time < reference
                   /\ Positive(bar.turnover)
        chosen == SelectSeq(series, in)
    IN  [i \in DOMAIN chosen |-> chosen[i].turnover]

\* select_by_turnover: the busiest, the first of equals, if they have enough
\* history before the reference.
Ranked(medians, pool) ==
    LET before(s, t) == \/ medians[t] \prec medians[s]
                        \/ medians[s] = medians[t] /\ s < t
    IN  SortSeq(SelectSeq([s \in pool |-> s], LAMBDA s : s \in DOMAIN medians), before)
BusiestOf(b, samples) ==
    LET known == {s \in DOMAIN samples : Len(samples[s]) >= b.sample}
        ranked == Ranked([s \in known |-> Median(samples[s])], DOMAIN samples)
    IN  SubSeq(ranked, 1, IF Len(ranked) < b.count THEN Len(ranked) ELSE b.count)
Sampled(b, pool, reference) == [s \in DOMAIN pool |-> Sample(b, pool[s], reference)]
Select(b, pool) == BusiestOf(b, Sampled(b, pool, Reference(b, pool)))

Chosen(b, pool) == IF b.count = 0 THEN [s \in DOMAIN pool |-> s]
                   ELSE IF \A s \in DOMAIN pool : pool[s] = << >> THEN << >>
                   ELSE Select(b, pool)

-----------------------------------------------------------------------------
(* The window *)

\* common_window, cut by --last or --since.
CommonLast(legs) == Earliest({bars[Len(bars)].time : bars \in legs})
WindowFirst(b, legs) ==
    LET listed == Latest({bars[1].time : bars \in legs})
        cut == IF b.last > 0 THEN Later(listed, CommonLast(legs) - b.last) ELSE listed
    IN  Later(cut, b.since)

\* shared_timeline: the bars every leg has.
Timeline(b, legs) ==
    LET first == WindowFirst(b, legs)
        last == CommonLast(legs)
    IN  SelectSeq([k \in 1 .. last |-> k],
                  LAMBDA t : first <= t /\ \A bars \in legs :
                                \E i \in DOMAIN bars : bars[i].time = t)

-----------------------------------------------------------------------------
(* A leg *)

\* liquidity_mask: the median turnover of the last bars is enough.
Liquid(b, bars, i) ==
    i >= b.maskWindow
    /\ b.minimum \preceq Median([k \in 1 .. b.maskWindow |->
                                    bars[i - b.maskWindow + k].turnover])

\* (mutated form: the mask is not applied)
MaskedNever(b, bars, targets) == targets
Masked(b, bars, targets) ==
    IF b.minimum = Zero THEN targets
    ELSE [i \in DOMAIN bars |-> IF Liquid(b, bars, i) THEN targets[i] ELSE Zero]

\* (mutated form: a leg is run to its own end)
WindowedAll(bars, last) == bars
Windowed(bars, last) == SelectSeq(bars, LAMBDA bar : bar.time <= last)
Index(bars, time) == CHOOSE i \in DOMAIN bars : bars[i].time = time

\* The run's value at the last close, an open position marked there.
Final(bars, curve, targets) ==
    LET n == Len(bars)
        position == IF n = 1 THEN Zero ELSE targets[n - 1]
    IN  curve[n] ** (One ++ (position ** ((bars[n].close // bars[n].open) -- One)))

Rebased(bars, timeline, curve, targets) ==
    LET at(k) == Index(bars, timeline[k])
        n == Len(timeline)
    IN  [equity |-> [k \in 1 .. n |->
            (IF k = n THEN Final(bars, curve, targets) ELSE curve[at(k)]) // curve[at(1)]],
         positions |-> [k \in 1 .. n |-> IF at(k) = 1 THEN Zero ELSE targets[at(k) - 1]],
         \* buy_and_hold_bars: in at the window's second open
         hold |-> [k \in 1 .. n |->
            IF k = 1 THEN One ELSE bars[at(k)].close // bars[at(2)].open]]

LegOf(b, all, timeline, last) ==
    LET bars == Windowed(all, last)
        run(targets) == Rebased(bars, timeline, Curve(bars, targets, b.keep), targets)
    IN  run(Masked(b, bars, Targets(b.rule, bars)))

-----------------------------------------------------------------------------
(* The basket *)

Weight(n) == Q(1, n)

\* (mutated form: the returns are added up without the weights)
CombinedUnweighted(made, t) ==
    One ++ SumOf([k \in DOMAIN made |-> made[k].equity[t] -- One])
\* Fixed weights: the weighted sum of the legs' returns.
Combined(made, t) ==
    One ++ SumOf([k \in DOMAIN made |-> Weight(Len(made)) ** (made[k].equity[t] -- One)])

Refused == << >>

Added(b, pool, chosen, timeline, made) ==
    [chosen |-> chosen,
     reference |-> IF b.count = 0 THEN 0 ELSE Reference(b, pool),
     times |-> timeline,
     legs |-> made,
     equity |-> [t \in DOMAIN timeline |-> Combined(made, t)],
     hold |-> [t \in DOMAIN timeline |->
        SumOf([k \in DOMAIN made |-> Weight(Len(made)) ** made[k].hold[t]])]]

\* A basket whose legs share fewer than three bars is refused.
Shared(b, pool, chosen, timeline, last) ==
    IF Len(timeline) < 3 THEN Refused
    ELSE <<Added(b, pool, chosen, timeline,
                 [k \in DOMAIN chosen |-> LegOf(b, pool[chosen[k]], timeline, last)])>>

Gathered(b, pool, chosen) ==
    LET legs == {pool[chosen[k]] : k \in DOMAIN chosen}
    IN  IF chosen = << >> \/ << >> \in legs THEN Refused
        ELSE Shared(b, pool, chosen, Timeline(b, legs), CommonLast(legs))
RunBasket(b, pool) == Gathered(b, pool, Chosen(b, pool))

\* (mutated form: against the bar before the last)
MovedLate(leg, k) == k > 2 /\ leg.positions[k] # leg.positions[k - 2]
Moved(leg, k) == leg.positions[k] # leg.positions[k - 1]

\* rebalance_markers: the bars on which the capital in the market changes,
\* and the legs that moved.
Invested(legs, k) == SumOf([s \in DOMAIN legs |-> Weight(Len(legs)) ** Abs(legs[s].positions[k])])
Markers(legs) ==
    LET grew(k) == Invested(legs, k - 1) \prec Invested(legs, k)
        changed(k) == Invested(legs, k) # Invested(legs, k - 1)
        names(k) == {s \in DOMAIN legs : Moved(legs[s], k)}
    IN  {[at |-> k, in |-> grew(k), legs |-> names(k)] :
            k \in {k \in 2 .. Len(legs[1].positions) : changed(k)}}

\* Where the money ended up, as shares of the basket's equity.
Shares(result) ==
    LET n == Len(result.legs)
        end == Len(result.times)
        final == result.equity[end]
    IN  [k \in 1 .. n |-> IF final \preceq Zero THEN Zero
                          ELSE (Weight(n) ** result.legs[k].equity[end]) // final]
===============================================================================
