----------------------------- MODULE MCBacktest -----------------------------
(* Bars over the prices 1, 2 and 4: still, up, down, gaps, both levels. *)
EXTENDS Backtest

Candle(o, l, h, c) == [open |-> R(o), low |-> R(l), high |-> R(h), close |-> R(c)]

MCBars == {Candle(2, 2, 2, 2), Candle(2, 1, 4, 2), Candle(2, 2, 4, 4),
           Candle(4, 1, 4, 1), Candle(1, 1, 1, 1)}
MCWants == {<<-1, 1>>, Zero, One}
Half == <<1, 2>>

Setting(loss, profit, trail, cooldown, scale, short) ==
    [loss |-> loss, profit |-> profit, trail |-> trail, cooldown |-> cooldown,
     scale |-> scale, short |-> short]
Overlay == [start |-> <<1, 4>>, full |-> <<13, 50>>, floor |-> Half]

MCRules == {Setting(Half, One, Zero, 1, None, TRUE),
            Setting(Zero, Zero, Half, 0, Overlay, TRUE),
            Setting(Zero, Zero, Zero, 0, None, FALSE)}
=============================================================================
