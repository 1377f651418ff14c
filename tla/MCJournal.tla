------------------------------ MODULE MCJournal ------------------------------
(* One command at a time over a series with a hole that may be filled, and  *)
(* the options a command may run with.                                      *)
EXTENDS Journal

CONSTANTS p1, s1

AnyRuns == {<<"backtest", {}>>, <<"backtest", {"overlay"}>>,
            <<"basket", {"since"}>>, <<"basket", {"short"}>>}
OldBars == {1, 3}
=============================================================================
