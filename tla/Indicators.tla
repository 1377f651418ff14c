------------------------------ MODULE Indicators ------------------------------
(***************************************************************************)
(* metrics: the averages, the oscillators and the drawdown, each computed  *)
(* in one pass the way the code does, and the definition it stands for.    *)
(* A value that does not exist yet is None.                                *)
(***************************************************************************)
EXTENDS Ratio

CONSTANT None

\* The states of a loop over 1 .. n: step maps the last state and the index.
Scan(step(_, _), start, n) ==
    LET extended(states, i) == Append(states, step(states[i], i))
        f[i \in 0 .. n] == IF i = 0 THEN <<start>> ELSE extended(f[i - 1], i)
    IN  Tail(f[n])

Largest(S) == CHOOSE x \in S : \A y \in S : y \preceq x
Smallest(S) == CHOOSE x \in S : \A y \in S : x \preceq y

\* The first index whose value exists, or 0.
FirstKnown(values) ==
    LET known == {i \in DOMAIN values : values[i] # None}
    IN  IF known = {} THEN 0 ELSE CHOOSE i \in known : \A j \in known : i <= j

Mean(values) == SumOf(values) // R(Len(values))

\* (mutated form: a bar too many stays in the running sum)
SmaLate(values, window) ==
    LET left(i) == IF i > window + 1 THEN values[i - window] ELSE Zero
        step(s, i) == (s ++ values[i]) -- left(i)
        mean(sums) == [i \in DOMAIN values |->
                        IF i < window THEN None ELSE sums[i] // R(window)]
    IN  mean(Scan(step, Zero, Len(values)))

\* sma: a running sum, the oldest value taken out again.
Sma(values, window) ==
    LET left(i) == IF i > window THEN values[i - window] ELSE Zero
        step(s, i) == (s ++ values[i]) -- left(i)
        mean(sums) == [i \in DOMAIN values |->
                        IF i < window THEN None ELSE sums[i] // R(window)]
    IN  mean(Scan(step, Zero, Len(values)))

\* ema: seeded with the mean of the first window that exists.
Ema(values, window) ==
    LET start == FirstKnown(values)
        seed == start + window - 1
        alpha == Q(2, window + 1)
        step(e, i) == IF i < seed THEN None
                      ELSE IF i = seed THEN Mean(SubSeq(values, start, seed))
                      ELSE IF values[i] = None THEN e
                      ELSE (alpha ** values[i]) ++ ((One -- alpha) ** e)
    IN  IF start = 0 \/ Len(values) - start + 1 < window
        THEN [i \in DOMAIN values |-> None]
        ELSE Scan(step, None, Len(values))

\* macd: the MACD line and its signal line.
MacdLine(values, fast, slow) ==
    LET line(f, s) == [i \in DOMAIN values |->
                        IF f[i] = None \/ s[i] = None THEN None ELSE f[i] -- s[i]]
    IN  line(Ema(values, fast), Ema(values, slow))

\* rsi: Wilder's averages of gains and losses, as a share of 100.
RsiFrom(gain, loss) ==
    IF loss = Zero THEN (IF gain = Zero THEN R(50) ELSE R(100))
    ELSE R(100) -- (R(100) // (One ++ (gain // loss)))

Loss(change) == Greatest(Zero -- change, Zero)
Gain(change) == Greatest(change, Zero)

Rsi(values, window) ==
    LET change(i) == values[i] -- values[i - 1]
        seeded(part(_)) == Mean([k \in 1 .. window |-> part(change(k + 1))])
        smooth(old, new) == ((old ** R(window - 1)) ++ new) // R(window)
        step(a, i) ==
            IF i <= window THEN None
            ELSE IF i = window + 1 THEN [gain |-> seeded(Gain), loss |-> seeded(Loss)]
            ELSE [gain |-> smooth(a.gain, Gain(change(i))),
                  loss |-> smooth(a.loss, Loss(change(i)))]
        reading(averages) ==
            [i \in DOMAIN values |-> IF i <= window THEN None
                                     ELSE RsiFrom(averages[i].gain, averages[i].loss)]
    IN  reading(Scan(step, None, Len(values)))

\* (mutated form: the peak follows the curve down)
PeakLast(peak, value) == value
PeakOf(peak, value) == Greatest(peak, value)

\* max_drawdown: worst fall from the highest value so far, and where it was.
MaxDrawdown(equity) ==
    LET fall(peak, value) == IF Positive(peak) THEN (value // peak) -- One ELSE Zero
        step(s, i) ==
            LET peak == PeakOf(s.peak, equity[i])
                at == IF s.peak \prec equity[i] THEN i ELSE s.at
                d == fall(peak, equity[i])
            IN  IF d \prec s.worst THEN [peak |-> peak, at |-> at, worst |-> d, span |-> <<at, i>>]
                ELSE [s EXCEPT !.peak = peak, !.at = at]
        n == Len(equity)
    IN  Scan(step, [peak |-> equity[1], at |-> 1, worst |-> Zero, span |-> <<1, 1>>], n)[n]

\* performance: what a curve came to, its worst fall, and the returns its
\* volatility is taken from, those of bars that still had capital.
Performance(equity) ==
    LET with(i) == Positive(equity[i])
        kept == SelectSeq([i \in 1 .. Len(equity) - 1 |-> i], with)
    IN  [total |-> equity[Len(equity)] -- One,
         drawdown |-> MaxDrawdown(equity),
         returns |-> [k \in DOMAIN kept |->
                        (equity[kept[k] + 1] // equity[kept[k]]) -- One]]
===============================================================================
