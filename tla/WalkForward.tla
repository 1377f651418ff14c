----------------------------- MODULE WalkForward -----------------------------
(***************************************************************************)
(* walkforward.run_walkforward over a series: for every split the          *)
(* candidate that did best on the train window is run over the test window *)
(* that follows, and the test windows are pasted into one curve.  A plan    *)
(* holds the grid, the window lengths, the step and what one side of  *)
(* a trade leaves.  Candidates are scored by total return.                  *)
(***************************************************************************)
EXTENDS Strategies

First(bars, n) == SubSeq(bars, 1, n)

\* engine.run_backtest for an account that is all in or all out: what was
\* decided on one bar is filled at the next one's open.
Curve(bars, targets, keep) ==
    LET step(s, i) ==
            IF i = 1 THEN s
            ELSE LET moved == s.position ** ((bars[i].open // bars[i - 1].open) -- One)
                     want == targets[i - 1]
                 IN  [equity |-> (s.equity ** (One ++ moved))
                                   ** (IF want = s.position THEN One ELSE keep),
                      position |-> want]
        equity(states) == [i \in DOMAIN bars |-> states[i].equity]
    IN  equity(Scan(step, [equity |-> One, position |-> Zero], Len(bars)))

-----------------------------------------------------------------------------
(* The windows *)

\* split_bounds: as many splits as fit, each test right after its train.
Count(p, n) ==
    IF n < p.train + p.test THEN 0 ELSE (n - p.train - p.test) \div p.step + 1

\* Train bars are start + 1 .. end, test bars end + 1 .. last.
Split(p, k) ==
    LET end == p.train + (k - 1) * p.step
    IN  [start |-> end - p.train, end |-> end, last |-> end + p.test]

\* (mutated form: not rebased)
SliceAsIs(curve, from, to) == [i \in 1 .. to - from |-> curve[from + i]]
\* slice_equity: rebased to the window's own first bar.
Slice(curve, from, to) ==
    [i \in 1 .. to - from |-> curve[from + i] // curve[from + 1]]

-----------------------------------------------------------------------------
(* One split *)

\* expand_grid: every combination, the parameters in order of their names.
Candidates(grid) ==
    LET m == Len(grid.window)
    IN  [c \in 1 .. Len(grid.rebalance) * m |->
            [kind |-> "sma", rebalance |-> grid.rebalance[((c - 1) \div m) + 1],
             window |-> grid.window[((c - 1) % m) + 1]]]

TrainedOn(bars, split) == First(bars, split.end)

RunOf(p, rule, bars) == Curve(bars, Targets(rule, bars), p.keep)
\* (mutated form: scored on all that is known)
ScoreOnAll(p, rule, bars, split) ==
    Performance(Slice(RunOf(p, rule, bars), split.start, Len(bars))).total
Score(p, rule, bars, split) ==
    Performance(Slice(RunOf(p, rule, TrainedOn(bars, split)), split.start, split.end)).total

\* pick_best: the best score, the first of equals.
PickBest(scores) ==
    CHOOSE i \in DOMAIN scores :
        /\ \A j \in DOMAIN scores : scores[j] \preceq scores[i]
        /\ \A j \in 1 .. i - 1 : scores[j] \prec scores[i]

\* (mutated form: from the first close inside the window)
EntryCloseInside(bars, split) == bars[split.end + 1].close
EntryClose(bars, split) == bars[split.end].close

Outcome(p, bars, k) ==
    LET split == Split(p, k)
        history == First(bars, split.last)
        rules == Candidates(p.grid)
        scored(last, c) == Score(p, rules[c], bars, split)
        tested(best) ==
            [best |-> best,
             test |-> Slice(RunOf(p, rules[best], history), split.end, split.last),
             hold |-> [i \in 1 .. p.test |->
                         (bars[split.end + i].close // EntryClose(bars, split))
                             ** Power(p.keep, 2)]]
    IN  tested(PickBest(Scan(scored, Zero, Len(rules))))
Outcomes(p, bars) == [k \in 1 .. Count(p, Len(bars)) |-> Outcome(p, bars, k)]

\* The level a stitched curve has reached after k windows.
OosLevel(outcomes, k) ==
    LET f[i \in Nat] == IF i = 0 THEN One
                        ELSE f[i - 1] ** outcomes[i].test[Len(outcomes[i].test)]
    IN  f[k]
HoldLevel(outcomes, k) ==
    LET f[i \in Nat] == IF i = 0 THEN One
                        ELSE f[i - 1] ** outcomes[i].hold[Len(outcomes[i].hold)]
    IN  f[k]
===============================================================================
