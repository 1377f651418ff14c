----------------------------- MODULE MCDashboard -----------------------------
(* Two handler threads over a daily series and the hourly one of its symbol. *)
EXTENDS Dashboard

CONSTANTS daily, hourly, t1, t2

MCTimeframe == [s \in Series |-> s]
MCHourlyOf == [s \in Series |-> hourly]
=============================================================================
