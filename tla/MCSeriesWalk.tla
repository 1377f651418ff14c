----------------------------- MODULE MCSeriesWalk -----------------------------
(* Small instances of SeriesWalk for TLC. *)
EXTENDS SeriesWalk

CONSTANTS PartitionLength, OffGrid

\* Partitions of equal length; with OffGrid no partition but the first begins
\* on a bar label, as with weekly bars in yearly files.
MCStartOf == [t \in Slot |-> t - (t % PartitionLength)]
MCHeadOf == [p \in {MCStartOf[t] : t \in Slot} |->
                IF OffGrid /\ p > 0 THEN p - 1 ELSE p]

\* A day is two bars long.
MCDayStart == [d \in Day |-> MinOf(2 * d, MaxTime)]

\* The days on which the series has a bar, all of them or without the first.
DaysOf(S) == {d \in Day : \E t \in S : t \div 2 = d}

AnyWorld ==
    {[upstream |-> S, daily |-> {}] : S \in SUBSET Bar}
        \cup {[upstream |-> S, daily |-> DaysOf(S)] : S \in SUBSET Bar}
        \cup {[upstream |-> S, daily |-> DaysOf(S) \ {0}] : S \in SUBSET Bar}

\* Nothing is listed before the first bar and nothing is missing after it.
SolidWorld == {[upstream |-> k .. MaxTime - 1, daily |-> {}] : k \in Bar}

\* Two blocks of bars with a stretch between them, and nothing from the probe
\* of the daily candles.
GapWorld == {[upstream |-> a .. b \cup c .. d, daily |-> {}] :
                 <<a, b, c, d>> \in {q \in Bar \X Bar \X Bar \X Bar :
                     q[1] <= q[2] /\ q[2] + 1 < q[3] /\ q[3] <= q[4]}}
=============================================================================
