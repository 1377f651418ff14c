------------------------------ MODULE MCSignals ------------------------------
(* Prices 1, 2 and 4 and a wide bar; one hole of up to three bars.  A year *)
(* is as long as the usual spacing, so an annualised volatility is a plain *)
(* one. *)
EXTENDS Signals

Candle(o, l, h, c) ==
    [open |-> R(o), low |-> R(l), high |-> R(h), close |-> R(c), turnover |-> R(c)]
Quiet == [Candle(2, 2, 2, 2) EXCEPT !.turnover = Zero]
Still == {Candle(1, 1, 1, 1), Candle(2, 2, 2, 2), Candle(4, 4, 4, 4)}
MCGaps == {1, 3}
Half == <<1, 2>>

Sma2 == [kind |-> "sma", window |-> 2, rebalance |-> 1]
SmaGrid == [kind |-> "sma", window |-> 2, rebalance |-> 2]
SmaLs == [kind |-> "sma-ls", window |-> 2]
Rev == [kind |-> "sma-rev", window |-> 3, mode |-> "long-short"]
Momentum == [kind |-> "tsmom", lookback |-> 1, rebalance |-> 2, threshold |-> <<1, 1>>,
             mode |-> "long-short"]
BlendOfTwo == [kind |-> "tsmom-blend", base |-> 1, horizons |-> 2, rebalance |-> 2]
Macd232 == [kind |-> "macd", fast |-> 2, slow |-> 3, signal |-> 2, mode |-> "long-short"]
Channel == [kind |-> "breakout", entry |-> 2, exitWindow |-> 2, minHold |-> 2,
            mode |-> "long-only"]
RsiTwo == [kind |-> "rsi-rev", window |-> 2, oversold |-> R(30), exit |-> R(50),
           overbought |-> R(90), maxHold |-> 2, mode |-> "long-short"]
Filtered == [kind |-> "volfilter", maxVol |-> Half, volWindow |-> 2, minObservations |-> 2,
             inner |-> SmaLs]
Sized == [kind |-> "voltarget", targetVol |-> Half, volWindow |-> 2, minObservations |-> 2,
          cap |-> <<3, 4>>, floor |-> Zero, inner |-> Filtered]
SizedLs == [Sized EXCEPT !.inner = SmaLs]

MCRules == {SmaGrid, Rev, Momentum, BlendOfTwo, Macd232, Channel, RsiTwo, Sized, SizedLs}

Walk(windows) == [grid |-> [window |-> windows, rebalance |-> <<1>>], train |-> 2, test |-> 2, step |-> 2,
                     keep |-> Half]
MCPlans == {Walk(<<2, 3>>)}
\* A basket of both pairs, of both since a date, and the busier of the two
\* over a window of two.
Both == [rule |-> Sma2, keep |-> Half, last |-> 0, since |-> 0, minimum |-> One,
         maskWindow |-> 1, count |-> 0, lookback |-> 0, sample |-> 0]
Recent == [Both EXCEPT !.since = 5, !.minimum = Zero]
Busiest == [Both EXCEPT !.last = 2, !.minimum = Zero, !.count = 1, !.lookback = 2,
                        !.sample = 1]
MCBaskets == {Both, Recent, Busiest}

MCCandles(j) == CASE j = Channel -> Still \cup {Candle(2, 1, 4, 2)}
                  [] j = Both -> {Candle(1, 1, 1, 1), Candle(2, 2, 2, 2), Quiet}
                  [] j \in {Recent, Busiest} -> {Candle(1, 1, 1, 1), Candle(2, 2, 2, 2)}
                  [] OTHER -> Still
MCMaxLen(j) == CASE j \in MCPlans -> 6 [] j \in MCBaskets -> 4 [] OTHER -> 5
MCMaxSecond(j) == IF j = Recent THEN 4 ELSE 3
===============================================================================
