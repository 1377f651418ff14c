----------------------------- MODULE RiskParity -----------------------------
(***************************************************************************)
(* riskparity.run_riskparity, one step per bar of the calendar: the book   *)
(* and its passive twin are marked at the close, what the bar before       *)
(* decided takes effect, and the next decision is taken.  Turnover ranks   *)
(* and volatilities are chosen freely; amounts are exact.                  *)
(***************************************************************************)
EXTENDS Ratio, FiniteSetsExt, SequencesExt

CONSTANTS
    Symbols,
    Prices,     \* closes a symbol may print
    Rules,      \* settings of a run, see Rule
    Leans,      \* what 1 / volatility may read
    Scales,     \* multipliers the volatility budget may ask for, at most 1
    CostRate,   \* Costs.rate
    None

\* A rule: grid (bars between rebalances), top, history, maxAge, maxWeight,
\* scheme, trend (bars, or None), budget (the bars it looks back, or None) and
\* opens, the bar a window starts at; bars is the bound on the calendar.
IsRule(r) ==
    /\ r.bars \in Nat /\ r.bars >= 3 /\ r.grid \in Nat \ {0} /\ r.top \in Nat \ {0}
    /\ r.history \in Nat /\ r.maxAge \in Nat
    /\ r.maxWeight \in Rational /\ Positive(r.maxWeight)
    /\ r.scheme \in {"equal", "invvol"}
    /\ r.trend \in (Nat \ {0}) \cup {None} /\ r.budget \in (Nat \ {0}) \cup {None}
    /\ r.opens \in Nat

ASSUME RiskParityAssumption ==
    /\ IsFiniteSet(Symbols) /\ Prices \subseteq Nat \ {0}
    /\ None \notin Nat \cup Rational
    /\ \A r \in Rules : IsRule(r)
    /\ \A x \in Leans : x = None \/ (x \in Rational /\ Positive(x))
    /\ \A x \in Scales : x \in Rational /\ Zero \preceq x /\ x \preceq One
    /\ CostRate \in Rational /\ Zero \preceq CostRate /\ CostRate \prec One

VARIABLES
    rule,    \* the settings of this run
    rows,    \* aligned closes: per bar of the calendar, one per symbol
    age,     \* bars since each symbol printed
    book,    \* weights, equity, fees
    passive, \* the same for the benchmark
    decided, \* pending, pending_passive and pending_exits
    bills,   \* cost_by_bar in sum, and whether a bar was billed more than once
    gated,   \* the newest bar is in gated_out
    window   \* restrict to the bars since some bar, or None before it

vars == <<rule, rows, age, book, passive, decided, bills, gated, window>>

Nothing == [s \in Symbols |-> Zero]
Numbers == [Symbols -> Rational]
Total(f) == FoldFunction(++, Zero, f)
Of(names, f) == [s \in Symbols |-> IF s \in names THEN f[s] ELSE Zero]
Account == [weights |-> Nothing, equity |-> One, fees |-> Zero]

\* The index of the newest bar; the calendar's first is 0.
Index == Len(rows) - 1
Price(s, i) == rows[i + 1][s]

-----------------------------------------------------------------------------
(* align: the newest close, for as long as it is not too old *)

Filled(p) ==
    [s \in Symbols |->
       IF p[s] # None THEN p[s]
       ELSE IF rows = <<>> \/ age[s] >= rule.maxAge THEN None ELSE Last(rows)[s]]
Aged(p) == [s \in Symbols |-> IF p[s] # None THEN 0
                              ELSE IF age[s] > rule.maxAge THEN age[s] ELSE age[s] + 1]

-----------------------------------------------------------------------------
(* Marking and paying, on the row that was just read *)

Moved(s, row) == IF row[s] = None \/ Last(rows)[s] = None THEN One
                 ELSE Q(row[s], Last(rows)[s])
Grown(weights, row) == [s \in Symbols |-> weights[s] ** Moved(s, row)]

\* (mutated form: the cash earns the move of the book too)
MarkedNoCash(a, row) ==
    LET total == Total(Grown(a.weights, row)) IN
    [a EXCEPT !.equity = IF total = Zero THEN @ ELSE @ ** total,
              !.weights = IF total = Zero THEN @ ELSE
                 [s \in Symbols |-> Grown(a.weights, row)[s] // total]]
\* (mutated form: the weights do not drift)
MarkedStill(a, row) ==
    [a EXCEPT !.equity = @ ** ((One -- Total(a.weights)) ++ Total(Grown(a.weights, row)))]
Drifted(a, grown, total) ==
    [a EXCEPT !.equity = @ ** total, !.weights = [s \in Symbols |-> grown[s] // total]]
Revalued(a, grown) == Drifted(a, grown, (One -- Total(a.weights)) ++ Total(grown))
Marked(a, row) == Revalued(a, Grown(a.weights, row))

Turnover(before, after) == Total([s \in Symbols |-> Abs(after[s] -- before[s])])
Paid(a, targets) ==
    LET cost == (a.equity ** Turnover(a.weights, targets)) ** CostRate IN
    [a EXCEPT !.equity = Greatest(@ -- cost, Zero), !.fees = @ ++ cost,
              !.weights = targets]

\* A name that lost its trend is sold for cash.
Without(weights, names) == Of(Symbols \ names, weights)

-----------------------------------------------------------------------------
(* Deciding, from the closes up to the newest bar *)

\* passes_trend.
Passes(s, i, row) ==
    \/ rule.trend = None
    \/ /\ rule.trend <= i
       /\ row[s] # None /\ Price(s, i - rule.trend) # None
       /\ Price(s, i - rule.trend) < row[s]

\* The bars a symbol is in the calendar for.
History(s, i, row) ==
    LET seen == {j \in 0 .. i - 1 : Price(s, j) # None} IN
    IF seen # {} THEN i - Min(seen) ELSE 0

\* (mutated form: a symbol that is gone can still be chosen)
EligibleGone(i, row) == {s \in Symbols : History(s, i, row) >= rule.history}
Eligible(i, row) ==
    {s \in Symbols : row[s] # None /\ History(s, i, row) >= rule.history}

\* The most traded of them, whichever those are.
Universes(i, row) ==
    LET able == Eligible(i, row)
        size == Min({rule.top, Cardinality(able)})
    IN  {u \in SUBSET able : Cardinality(u) = size}

Over(weights) == {s \in Symbols : rule.maxWeight \prec weights[s]}

\* (mutated form: the rest is given what the capped names keep)
RoundKept(weights) ==
    LET over == Over(weights)
        excess == Total(Of(over, [s \in Symbols |-> weights[s] -- rule.maxWeight]))
        room == {s \in Symbols : Positive(weights[s]) /\ weights[s] \prec rule.maxWeight}
        held == Total(Of(room, weights))
    IN  [s \in Symbols |->
           IF s \in room THEN weights[s] ++ ((excess ** weights[s]) // held)
           ELSE weights[s]]

\* One round of cap_weights, and its loop.
Round(weights) ==
    LET over == Over(weights)
        excess == Total(Of(over, [s \in Symbols |-> weights[s] -- rule.maxWeight]))
        room == {s \in Symbols : Positive(weights[s]) /\ weights[s] \prec rule.maxWeight}
        held == Total(Of(room, weights))
    IN  [s \in Symbols |->
           IF s \in over THEN rule.maxWeight
           ELSE IF s \in room THEN weights[s] ++ ((excess ** weights[s]) // held)
           ELSE weights[s]]
CapRounds == 10
Capped(weights) ==
    LET capped[k \in Nat] ==
          [w \in Numbers |-> IF k = 0 \/ Over(w) = {} THEN w ELSE capped[k - 1][Round(w)]]
    IN  capped[CapRounds][weights]

\* Proportional to the leans; nothing at all when none of them is readable.
Weights(names, leans) ==
    LET read == {s \in names : leans[s] # None}
        total == Total(Of(read, leans))
    IN  IF read = {} THEN Nothing
        ELSE Capped([s \in Symbols |-> Of(read, leans)[s] // total])
Equal == [s \in Symbols |-> One]

Undecided == [book |-> None, passive |-> None, exits |-> {}]

\* (mutated form: a price that stood still is no loss of trend)
ExitsFallen(weights, i, row) ==
    [Undecided EXCEPT !.exits =
       {s \in Symbols : weights[s] # Zero /\ ~Passes(s, i, row) /\ row[s] # Last(rows)[s]}]
\* (mutated form: the book is bought back when its trend returns)
ExitsBothWays(weights, i, row) ==
    [Undecided EXCEPT !.book =
       IF \E s \in Symbols : Passes(s, i, row)
       THEN Weights({s \in Symbols : Passes(s, i, row)}, Equal) ELSE None]

\* Between rebalances only the trend rule acts, and only by selling.
Exits(weights, i, row) ==
    [Undecided EXCEPT !.exits = {s \in Symbols : weights[s] # Zero /\ ~Passes(s, i, row)}]

\* (mutated form: the budget gears up)
RebalancedUncut(universe, leans, scale, i, row) ==
    LET names == {s \in universe : Passes(s, i, row)}
        targets == Weights(names, IF rule.scheme = "equal" THEN Equal ELSE leans)
    IN  [Undecided EXCEPT
           !.passive = Weights(universe, Equal),
           !.book = IF targets = Nothing THEN None
                    ELSE [s \in Symbols |-> targets[s] // scale]]

\* On the grid the benchmark re-equalises whatever the book does; a book with
\* nothing to buy decides nothing.
Rebalanced(universe, leans, scale, i, row) ==
    LET names == {s \in universe : Passes(s, i, row)}
        targets == Weights(names, IF rule.scheme = "equal" THEN Equal ELSE leans)
    IN  [Undecided EXCEPT
           !.passive = Weights(universe, Equal),
           !.book = IF targets = Nothing THEN None
                    ELSE [s \in Symbols |-> targets[s] ** scale]]

\* Before budget bars there is no volatility to size the book by.
Multipliers(i) == IF rule.budget = None \/ i < rule.budget THEN {One} ELSE Scales

-----------------------------------------------------------------------------
(* The loop of run_riskparity *)

Init ==
    /\ rule \in Rules
    /\ rows = <<>> /\ age = [s \in Symbols |-> 0]
    /\ book = Account /\ passive = Account
    /\ decided = Undecided
    /\ bills = [sum |-> Zero, doubled |-> FALSE]
    /\ gated = FALSE
    /\ window = None

\* cost_by_bar takes the cost of the exits once for every name they sold.
Billed(account, targets, left, sold) ==
    LET filled == IF targets = None THEN left ELSE Paid(left, targets)
    IN  [account |-> filled, sold |-> sold,
         bill |-> (filled.fees -- left.fees) ++ (R(sold) ** (left.fees -- account.fees))]

\* The account after what the bar before decided for it: its exits, then the
\* fill.
Settled(account, targets, exits, marked) ==
    Billed(account, targets, Paid(marked, Without(marked.weights, exits)),
           Cardinality({s \in exits : Positive(marked.weights[s])}))
Closed(account, targets, exits, row) ==
    Settled(account, targets, exits, Marked(account, row))

\* restrict: rebased to the window's first bar, whose bill is in the window; a
\* book worth nothing by then is refused.
\* (mutated form: the window's first bar is not billed)
OpenedLate(e, bill) == [base |-> e.equity, before |-> book.fees, fees |-> Zero]
Opened(e, bill) == [base |-> e.equity, before |-> book.fees, fees |-> bill // e.equity]
Windowed(e, bill) ==
    IF window # None THEN [window EXCEPT !.fees = @ ++ (bill // window.base)]
    ELSE IF Len(rows) = rule.opens /\ Positive(e.equity) THEN Opened(e, bill)
    ELSE None

\* _buy_and_hold_curve: one price held from its first bar on, less one side.
Seen(s, i) == {j \in 0 .. i : Price(s, j) # None}
\* (mutated form: the side is paid on every bar)
HoldCurvePaying(s, i) ==
    IF Seen(s, i) = {} THEN One
    ELSE Q(Price(s, Max(Seen(s, i))), Price(s, Min(Seen(s, i)))) ** (One -- (R(i) ** CostRate))
HoldCurve(s, i) ==
    IF Seen(s, i) = {} THEN One
    ELSE Q(Price(s, Max(Seen(s, i))), Price(s, Min(Seen(s, i)))) ** (One -- CostRate)

\* The same in a window of the run: rebased, and the side paid again.
WindowHold(s) ==
    (HoldCurve(s, Index) // HoldCurve(s, rule.opens)) ** (One -- CostRate)

Listed(p) ==
    /\ rows = <<>>
    /\ rows' = <<Filled(p)>>
    /\ age' = Aged(p)
    /\ UNCHANGED <<rule, book, passive, decided, bills, gated, window>>

Booked(row, own) ==
    /\ book' = own.account
    /\ passive' = Closed(passive, decided.passive, {}, row).account
    /\ bills' = [sum |-> bills.sum ++ own.bill,
                 doubled |-> bills.doubled \/ own.sold > 1]
    /\ window' = Windowed(own.account, own.bill)

Decides(row, i) ==
    IF i % rule.grid # 0
    THEN decided' = Exits(book'.weights, i, row) /\ gated' = FALSE
    ELSE \E u \in Universes(i, row), leans \in [Symbols -> Leans],
            scale \in Multipliers(i) :
           /\ rule.scheme = "equal" => leans = Equal
           /\ decided' = Rebalanced(u, leans, scale, i, row)
           /\ gated' = (rule.trend # None /\ \A s \in u : ~Passes(s, i, row))

Ends(row) ==
    /\ rows' = Append(rows, row)
    /\ Booked(row, Closed(book, decided.book, decided.exits, row))
    /\ Decides(row, Len(rows))

Bar(p) ==
    /\ rows # <<>> /\ Len(rows) < rule.bars
    /\ age' = Aged(p)
    /\ Ends(Filled(p))
    /\ UNCHANGED rule

Next == \E p \in [Symbols -> Prices \cup {None}] : Listed(p) \/ Bar(p)

Spec == Init /\ [][Next]_vars

-----------------------------------------------------------------------------
(* Properties *)

Fraction(a) == Zero \preceq a /\ a \preceq One

TypeOK ==
    /\ rule \in Rules /\ Len(rows) <= rule.bars
    /\ \A s \in Symbols : age[s] \in 0 .. rule.maxAge + 1
    /\ \A s \in Symbols : Fraction(book.weights[s]) /\ Fraction(passive.weights[s])
    /\ decided.exits \subseteq Symbols

\* The price each symbol was last seen at.
Known(s) == LET seen == {i \in DOMAIN rows : rows[i][s] # None} IN
            IF seen = {} THEN Zero ELSE R(rows[Max(seen)][s])
Units(s) == IF book.weights[s] = Zero THEN Zero
            ELSE (book.weights[s] ** book.equity) // Known(s)
Cash == book.equity ** (One -- Total(book.weights))

\* A held symbol that was gone from the feed is back.
Returned == \E s \in Symbols :
    book.weights[s] # Zero /\ Last(rows)[s] = None /\ rows'[Len(rows')][s] # None

\* From one bar to the next the units held move with their prices, the cash
\* beside them earns nothing, and what is missing was paid in commissions.
ValueIsConserved ==
    [][rows # <<>> /\ ~Returned =>
         book.equity' ++ (book.fees' -- book.fees) =
             Cash ++ Total([s \in Symbols |-> Units(s) ** Known(s)'])]_vars

\* "Decide on a close, act on the next one": on a bar for which the one before
\* decided nothing, not a unit changes hands.
NothingTradesUndecided ==
    [][rows # <<>> /\ ~Returned /\ decided.book = None /\ decided.exits = {} =>
         \A s \in Symbols : Units(s)' = Units(s)]_vars

\* The book never gears: what it holds, drifted or decided, is at most the
\* account, and no name is decided above the cap.
NeverLevered ==
    /\ Fraction(Total(book.weights)) /\ Fraction(Total(passive.weights))
    /\ decided.book # None =>
         \A s \in Symbols : decided.book[s] \preceq rule.maxWeight

\* The benchmark is "the same names, equal weight, full size": it is never
\* smaller than the book it is compared with.
PassiveIsFuller ==
    decided.book # None => Total(decided.book) \preceq Total(decided.passive)

\* A name that lost its trend between rebalances is out at the next close.
LosersAreSold ==
    [][rows # <<>> /\ Index % rule.grid # 0 =>
         \A s \in Symbols : ~Passes(s, Index, Last(rows)) => book.weights'[s] = Zero]_vars

\* "It can only come back at the next rebalance".
OnlyGridBuys ==
    [][\A s \in Symbols :
         book.weights[s] = Zero /\ book.weights'[s] # Zero => Index % rule.grid = 0]_vars

\* Nothing is decided for a symbol too old to trade, and nothing bought whose
\* trend is down at that close.
GoneIsNotBought ==
    decided.book # None =>
        \A s \in Symbols : Positive(decided.book[s]) =>
            age[s] <= rule.maxAge /\ Passes(s, Index, Last(rows))

\* A window's commissions are those paid in it, as long as no bar sold two.
WindowFeesArePaid ==
    window # None /\ ~bills.doubled =>
        (window.fees ** window.base) ++ window.before = book.fees

\* "What you held and what you would have bought are the same position": in a
\* window the reference is a purchase of one account's worth at its first bar,
\* for a symbol that had a price by then.
HoldIsAPurchase ==
    window # None =>
        \A s \in Symbols :
            LET had == {j \in Seen(s, Index) : j <= rule.opens}
            IN  had # {} => WindowHold(s) ** R(Price(s, Max(had)))
                              = (One -- CostRate) ** Known(s)

\* "The window pays one entry side", a symbol first listed inside it too.
HoldPaysOneSide ==
    window # None =>
        \A s \in Symbols : Seen(s, Index) # {} /\ Seen(s, rule.opens) = {} =>
            WindowHold(s) = HoldCurve(s, Index)

\* No money appears or is lost, in the whole run or in a window of it.
MoneyAddsUp == ValueIsConserved /\ []WindowFeesArePaid /\ []HoldIsAPurchase

\* Units change hands only where the rules of the book let them.
TradesAreDecided == NothingTradesUndecided /\ LosersAreSold /\ OnlyGridBuys

\* What a close decides is within the limits of the book.
DecisionsAreSound == TypeOK /\ NeverLevered /\ PassiveIsFuller /\ GoneIsNotBought

\* cost_by_bar is the "Commission paid on each bar".
BillIsOnce == bills.sum = book.fees

\* "The trend rule emptied the book on n rebalance(s) ... so the capital was
\* held in cash".
GatedIsCash == gated => Total(book.weights) = Zero
=============================================================================
