---------------------------- MODULE MCRiskParity ----------------------------
(* Two symbols that rise, fall, pause and vanish; an equal book under the  *)
(* trend rule, a leaning one under a budget, and half in one name at most.  *)
EXTENDS RiskParity

MCRate == <<1, 8>>
MCLeans == {None, One, <<3, 1>>}
MCScales == {One, <<1, 2>>}
Interchangeable == Permutations(Symbols)

Setting(bars, grid, top, history, maxAge, cap, scheme, trend, budget) ==
    [bars |-> bars, grid |-> grid, top |-> top, history |-> history,
     maxAge |-> maxAge, maxWeight |-> cap, scheme |-> scheme, trend |-> trend,
     budget |-> budget, opens |-> 2]

MCRules == {Setting(5, 2, 2, 0, 1, One, "equal", 1, None),
            Setting(4, 2, 2, 1, 0, <<2, 3>>, "invvol", None, 2),
            Setting(4, 1, 1, 0, 0, <<1, 2>>, "equal", 1, None)}
=============================================================================
