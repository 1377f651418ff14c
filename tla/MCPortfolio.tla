---------------------------- MODULE MCPortfolio ----------------------------
(* Two symbols that rise, fall, pause and vanish; a book ranked, one long and *)
(* short by sign under a volatility target, and one gated.                  *)
EXTENDS Portfolio

MCRate == <<1, 8>>
MCVol == [target |-> <<1, 2>>, cap |-> <<3, 4>>, floor |-> <<1, 2>>]

Setting(bars, every, lookback, maxAge, mode, choice, top, peak, trend, vol) ==
    [bars |-> bars, every |-> every, lookback |-> lookback, maxAge |-> maxAge, mode |-> mode,
     select |-> choice, top |-> top, threshold |-> Zero, belowPeak |-> peak,
     trend |-> trend, vol |-> vol]

MCRules == {Setting(4, 1, 1, 1, "long-short", "sign", One, None, None, MCVol),
            Setting(5, 2, 1, 0, "long-only", "rank", <<1, 2>>, None, None, None),
            Setting(4, 1, 1, 0, "long-short", "rank", One, <<1, 2>>, 2, None)}
=============================================================================
