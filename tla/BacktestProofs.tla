--------------------------- MODULE BacktestProofs ---------------------------
(***************************************************************************)
(* What the engine, its stops and the runs beside it promise, for every    *)
(* series of bars, every strategy and every setting the constructors       *)
(* accept.  The accounts are fractions: the laws are those of RatioProofs. *)
(***************************************************************************)
EXTENDS Backtest, RatioProofs

-----------------------------------------------------------------------------
(* The inductive invariant, in parts *)

Stops == [side : {-1, 0, 1}, reference : Rational, best : Rational, blocked : Int]
Runs == [equity : Rational, position : Rational, trade : Leg \cup {None}, book : Rational,
         fees : Rational, peak : Rational, alive : BOOLEAN]
Crosses == [gross : Rational, closeFill : Rational, closePos : Rational,
            base : Rational \cup {None}, turned : Rational]

Settled ==
    /\ rule \in Rules /\ n \in 0 .. MaxBars
    /\ n > 0 => bar \in Bars
    /\ run \in Runs /\ Abs(run.position) \preceq One /\ Positive(run.peak)
    /\ cross \in Crosses
    /\ window # None => window \in Inside /\ window.base # Zero
    /\ past.exits \in BOOLEAN /\ past.gaps \in BOOLEAN /\ past.long \in BOOLEAN

\* What the stops think they hold is what they asked for.
Following ==
    /\ stop \in Stops
    /\ target \in Rational /\ Abs(target) \preceq One /\ Sign(target) = stop.side
    /\ exit # None => exit \in Rational /\ target = Zero

\* The quiet bars still to come are bars of the block.
Waiting ==
    /\ past.quiet \in 0 .. rule.cooldown
    /\ past.quiet > 0 => stop.side = 0 /\ stop.blocked >= n + past.quiet

\* Nothing is executed before the second bar.
Untraded ==
    /\ n = 0 => exit = None /\ stop.side = 0
    /\ n <= 1 => /\ run = [equity |-> One, position |-> Zero, trade |-> None, book |-> One,
                           fees |-> Zero, peak |-> One, alive |-> TRUE]
                 /\ cross = [gross |-> One, closeFill |-> One, closePos |-> Zero,
                             base |-> None, turned |-> Zero]
                 /\ window = None /\ ~past.exits

\* The book holds what the account was worth when the open leg began, or what
\* it is worth now.
Booked ==
    run.alive =>
        /\ Positive(run.equity)
        /\ IF run.trade = None THEN run.position = Zero /\ run.book = run.equity
           ELSE /\ run.position # Zero /\ run.trade.at < n
                /\ run.book = run.trade.basis /\ run.trade.basis # Zero

\* The same of a window's book, rebased at its first bar.
Rebased ==
    window # None /\ run.alive =>
        /\ (window.fees ** window.base) ++ window.before = run.fees
        /\ ~window.entered =>
              IF run.trade = None
              THEN ~window.carried /\ window.book = run.equity // window.base
              ELSE window.book = IF window.carried THEN One
                                 ELSE run.trade.basis // window.base

\* The cross-checks follow the run.
Followed ==
    run.alive =>
        /\ cross.closePos = run.position
        /\ n > 0 /\ ~past.gaps /\ ~past.exits => cross.closeFill = Marked

\* A run that has always wanted everything holds everything.
AlwaysLong ==
    past.long /\ rule.scale = None =>
        /\ n > 0 => target = One /\ exit = None
        /\ n > 1 => /\ run.alive /\ run.position = One
                    /\ cross.base \in Rational /\ cross.base # Zero
                    /\ run.equity = Keep(One) ** (bar.open // cross.base)

Accounted == Settled /\ Following /\ Waiting /\ Untraded /\ Booked /\ Rebased /\ Followed
             /\ AlwaysLong

-----------------------------------------------------------------------------
(* The part that needs exposures on the grid of Keep *)

ScaledOnGrid == rule.scale # None => OnGrid(run.position)

Charged ==
    run.alive =>
        /\ rule.scale = None => OnGrid(target) /\ OnGrid(run.position)
        /\ cross.turned[1] >= 0 /\ OnGrid(cross.turned)
        /\ ~past.exits => run.equity = cross.gross ** Keep(cross.turned)

-----------------------------------------------------------------------------
(* Costs and exposures *)

LEMMA Settings ==
    /\ Unit \in Nat \ {0} /\ KeepOfUnit \in Rational /\ Positive(KeepOfUnit)
    /\ \A b \in Bars : /\ b.open \in Rational /\ b.low \in Rational /\ b.high \in Rational
                       /\ b.close \in Rational /\ Positive(b.open) /\ Positive(b.close)
                       /\ b.open # Zero /\ b.close # Zero
    /\ \A r \in Rules : /\ r.loss \in Rational /\ r.profit \in Rational /\ r.trail \in Rational
                        /\ r.cooldown \in Nat /\ (r.scale # None => IsScale(r.scale))
    /\ \A want \in Wants : want \in Rational /\ Abs(want) \preceq One /\ OnGrid(want)
    /\ None \notin Rational /\ None \notin Leg /\ None \notin Inside
<1>1. ASSUME NEW b \in Bars
      PROVE  /\ b.open \in Rational /\ b.low \in Rational /\ b.high \in Rational
             /\ b.close \in Rational /\ Positive(b.open) /\ Positive(b.close)
             /\ b.open # Zero /\ b.close # Zero
    <2>1. IsCandle(b)
        BY BacktestAssumption
    <2>2. b.open \in Rational /\ b.close \in Rational /\ b.low \in Rational /\ b.high \in Rational
        BY <2>1 DEF IsCandle
    <2>3. b.open # Zero /\ b.close # Zero
        BY <2>1, <2>2, PositiveProduct DEF IsCandle
    <2> QED BY <2>1, <2>2, <2>3 DEF IsCandle
<1>2. ASSUME NEW r \in Rules
      PROVE  /\ r.loss \in Rational /\ r.profit \in Rational /\ r.trail \in Rational
             /\ r.cooldown \in Nat /\ (r.scale # None => IsScale(r.scale))
    <2>1. IsRule(r)
        BY BacktestAssumption
    <2> QED BY <2>1 DEF IsRule
<1> QED BY <1>1, <1>2, BacktestAssumption

\* Exposure that does not change turns nothing over.
LEMMA TurnoverLaws ==
    ASSUME NEW x \in Rational, NEW y \in Rational
    PROVE  /\ Turnover(x, y) \in Rational /\ Turnover(x, y)[1] >= 0
           /\ Turnover(x, x) = Zero /\ Turnover(Zero, One) = One
<1>1. y -- x \in Rational
    BY Difference
<1>2. x -- x = Zero /\ One -- Zero = One
    BY NoDifference, Constants
<1>3. Abs(Zero) = Zero /\ Abs(One) = One
    BY Constants DEF Abs
<1> QED BY <1>1, <1>2, <1>3, Distance DEF Turnover

LEMMA KeepLaws ==
    ASSUME NEW t \in Rational, t[1] >= 0
    PROVE  Keep(t) \in Rational /\ Positive(Keep(t)) /\ Keep(t) # Zero
<1>1. t[1] * Unit \in Nat /\ t[2] \in Nat \ {0}
    BY Terms, Settings DEF Whole
<1>2. (t[1] * Unit) \div t[2] \in Nat
    <2> DEFINE p == t[1] * Unit
               q == t[2]
    <2> HIDE DEF p, q
    <2>1. p \in Nat /\ q \in Nat \ {0} => p \div q \in Nat
        OBVIOUS
    <2> QED BY <1>1, <2>1 DEF p, q
<1> DEFINE k == (t[1] * Unit) \div t[2]
<1>3. Keep(t) = Power(KeepOfUnit, k)
    BY DEF Keep
<1> HIDE DEF k
<1>4. Positive(Keep(t)) /\ Keep(t) \in Rational
    BY <1>2, <1>3, Settings, PowerIsPositive DEF k
<1> QED BY <1>4, PositiveProduct

LEMMA KeepConstants ==
    /\ Keep(Zero) = One /\ Rate \in Rational
    /\ Keep(One) \in Rational /\ Positive(Keep(One)) /\ Keep(One) # Zero
<1>1. (0 * Unit) \div 1 = 0
    BY Settings
<1>2. Keep(Zero) = Power(KeepOfUnit, 0)
    BY <1>1, Constants DEF Keep
<1>3. Unit \in Nat /\ Power(KeepOfUnit, Unit) \in Rational /\ Power(KeepOfUnit, 0) = One
    BY Settings, PowerUnfolds
<1>4. Rate \in Rational
    BY <1>3, Constants, Difference DEF Rate
<1> QED BY <1>2, <1>3, <1>4, KeepLaws, Constants

\* Signs are equal exactly when the numerators are on one side of zero.
LEMMA SignLaws ==
    ASSUME NEW x \in Rational
    PROVE  /\ Sign(x) \in {-1, 0, 1}
           /\ Sign(x) = 0 <=> x = Zero
           /\ Sign(x) = 1 <=> x[1] > 0
           /\ Sign(x) = -1 <=> x[1] < 0
<1>1. x[1] \in Int /\ (x = Zero <=> x[1] = 0)
    BY Signs
<1> QED BY <1>1 DEF Sign

LEMMA SignOfProduct ==
    ASSUME NEW x \in Rational, NEW y \in Rational, Positive(y)
    PROVE  Sign(x ** y) = Sign(x)
<1>1. ((x ** y)[1] > 0 <=> x[1] > 0) /\ ((x ** y)[1] < 0 <=> x[1] < 0)
    BY ProductSign
<1> QED BY <1>1 DEF Sign

\* The overlay cuts, down to its floor.
LEMMA FactorLaws ==
    ASSUME rule \in Rules, rule.scale # None,
           NEW equity \in Rational, NEW peak \in Rational, Positive(peak)
    PROVE  /\ Factor(equity, peak) \in Rational
           /\ rule.scale.floor \preceq Factor(equity, peak) /\ Factor(equity, peak) \preceq One
<1> DEFINE start == rule.scale.start
           full == rule.scale.full
           floor == rule.scale.floor
           drawdown == One -- (equity // peak)
           x == One -- (((One -- floor) ** (drawdown -- start)) // (full -- start))
<1>1. /\ start \in Rational /\ full \in Rational /\ floor \in Rational /\ start \prec full
      /\ Zero \preceq floor /\ floor \preceq One
    BY Settings DEF IsScale
<1>2. drawdown \in Rational
    BY PositiveProduct, Quotient, Difference, Constants
<1> DEFINE whole == peak \preceq equity \/ drawdown \preceq start
<1>3. Factor(equity, peak) = IF whole THEN One ELSE IF full \preceq drawdown THEN floor ELSE x
    BY DEF Factor
<1> HIDE DEF start, full, floor, drawdown
<1>4. CASE whole
    BY <1>1, <1>3, <1>4, Ordered, Constants DEF floor
<1>5. CASE ~whole /\ full \preceq drawdown
    BY <1>1, <1>3, <1>5, Ordered DEF floor
<1>6. CASE ~whole /\ ~(full \preceq drawdown)
    <2>1. start \preceq drawdown /\ drawdown \preceq full
        BY <1>1, <1>2, <1>6, Ordered
    <2>2. x \in Rational /\ floor \preceq x /\ x \preceq One
        BY <1>1, <1>2, <2>1, PartOfTheWay
    <2>3. Factor(equity, peak) = x
        BY <1>3, <1>6
    <2> HIDE DEF x
    <2> QED BY <2>2, <2>3 DEF floor
<1> QED BY <1>4, <1>5, <1>6

\* What is executed is what was decided, or less of it.
LEMMA EffectiveLaws ==
    ASSUME Settled, Following
    PROVE  /\ Effective \in Rational /\ Abs(Effective) \preceq One
           /\ rule.scale = None => Effective = target
           /\ rule.scale # None /\ Positive(rule.scale.floor) => Sign(Effective) = Sign(target)
           /\ Peak \in Rational /\ Positive(Peak)
<1>1. /\ run.equity \in Rational /\ run.peak \in Rational /\ Positive(run.peak)
      /\ rule \in Rules /\ target \in Rational /\ Abs(target) \preceq One
    BY DEF Settled, Following, Runs
<1>2. Peak \in Rational /\ Positive(Peak)
    <2>1. Peak \in {run.peak, run.equity} /\ run.peak \preceq Peak
        BY <1>1, LeastBounds DEF Peak
    <2>2. Peak \in Rational
        BY <1>1, <2>1
    <2>3. ~(Peak \preceq Zero)
        <3> SUFFICES ASSUME Peak \preceq Zero PROVE FALSE
            OBVIOUS
        <3>1. run.peak \preceq Zero
            BY <1>1, <2>1, <2>2, Constants, OrderedSteps
        <3> QED BY <1>1, <3>1, Signs
    <2> QED BY <2>2, <2>3, Signs
<1>3. CASE rule.scale = None
    BY <1>1, <1>2, <1>3 DEF Effective
<1>4. CASE rule.scale # None
    <2> DEFINE f == Factor(run.equity, Peak)
    <2>1. Effective = target ** f
        BY <1>4 DEF Effective
    <2>2. f \in Rational /\ rule.scale.floor \preceq f /\ f \preceq One
        BY <1>1, <1>2, <1>4, FactorLaws
    <2> HIDE DEF f
    <2>3. rule.scale.floor \in Rational /\ Zero \preceq rule.scale.floor
        BY <1>1, <1>4, Settings DEF IsScale
    <2>4. Zero \preceq f
        BY <2>2, <2>3, Constants, OrderedSteps
    <2>5. Effective \in Rational /\ Abs(Effective) \preceq One
        BY <1>1, <2>1, <2>2, <2>4, ProductType, ProductWithinOne
    <2>6. Positive(rule.scale.floor) => Positive(f)
        <3> SUFFICES ASSUME Positive(rule.scale.floor), f \preceq Zero PROVE FALSE
            BY <2>2, Signs
        <3>1. rule.scale.floor \preceq Zero
            BY <2>2, <2>3, Constants, OrderedSteps
        <3> QED BY <2>3, <3>1, Signs
    <2> QED BY <1>1, <1>2, <1>4, <2>1, <2>2, <2>5, <2>6, SignOfProduct
<1> QED BY <1>3, <1>4

-----------------------------------------------------------------------------
(* The stops *)

\* What a level in reach fills at.
LEMMA WorseLaws ==
    ASSUME NEW b \in Bars, NEW l \in Rational
    PROVE  /\ Worse(l, b, TRUE) \in Rational /\ Worse(l, b, FALSE) \in Rational
           /\ Worse(l, b, TRUE) \preceq l /\ l \preceq Worse(l, b, FALSE)
           /\ b.open \preceq b.high => Worse(l, b, TRUE) \preceq b.high
           /\ b.low \preceq b.open => b.low \preceq Worse(l, b, FALSE)
<1>1. b.open \in Rational /\ b.low \in Rational /\ b.high \in Rational
    BY Settings
<1> DEFINE v == Least(l, b.open)
           w == Greatest(l, b.open)
<1>2. Worse(l, b, TRUE) = v /\ Worse(l, b, FALSE) = w
    BY DEF Worse
<1>3. /\ v \in Rational /\ w \in Rational /\ v \preceq l /\ v \preceq b.open
      /\ l \preceq w /\ b.open \preceq w
    BY <1>1, LeastBounds
<1> HIDE DEF v, w
<1>4. (b.open \preceq b.high => v \preceq b.high) /\ (b.low \preceq b.open => b.low \preceq w)
    BY <1>1, <1>3, OrderedSteps
<1> QED BY <1>2, <1>3, <1>4

\* Against a long position the price falls to the level, and the fill is no
\* better than the stop where the stop was in reach.
LEMMA LongLevel ==
    ASSUME rule \in Rules, NEW b \in Bars, NEW reference \in Rational, NEW best \in Rational,
           LevelHit(b, TRUE, reference, best) # None
    PROVE  LET level == LevelHit(b, TRUE, reference, best)
               lost == reference ** (One -- rule.loss)
           IN  /\ level \in Rational /\ (b.open \preceq b.high => level \preceq b.high)
               /\ rule.loss # Zero /\ b.low \preceq lost => level \preceq lost
<1> DEFINE level == LevelHit(b, TRUE, reference, best)
           lost == reference ** (One -- rule.loss)
           trailed == best ** (One -- rule.trail)
           gain == reference ** (One ++ rule.profit)
<1>1. level = IF rule.loss # Zero /\ b.low \preceq lost THEN Worse(lost, b, TRUE)
              ELSE IF rule.profit # Zero /\ gain \preceq b.high THEN gain
              ELSE IF rule.trail # Zero /\ b.low \preceq trailed THEN Worse(trailed, b, TRUE)
              ELSE None
    BY DEF LevelHit
<1>2. lost \in Rational /\ trailed \in Rational /\ gain \in Rational
    BY Settings, Constants, SumType, Difference, ProductType
<1>3. /\ Worse(lost, b, TRUE) \in Rational /\ Worse(trailed, b, TRUE) \in Rational
      /\ Worse(lost, b, TRUE) \preceq lost
      /\ b.open \preceq b.high => /\ Worse(lost, b, TRUE) \preceq b.high
                                 /\ Worse(trailed, b, TRUE) \preceq b.high
    BY <1>2, WorseLaws
<1>4. level # None
    OBVIOUS
<1> HIDE DEF level, lost, trailed, gain
<1>5. /\ level \in Rational /\ (b.open \preceq b.high => level \preceq b.high)
      /\ rule.loss # Zero /\ b.low \preceq lost => level \preceq lost
    BY <1>1, <1>2, <1>3, <1>4
<1> QED BY <1>5 DEF level, lost

\* Against a short one it rises.
LEMMA ShortLevel ==
    ASSUME rule \in Rules, NEW b \in Bars, NEW reference \in Rational, NEW best \in Rational,
           LevelHit(b, FALSE, reference, best) # None
    PROVE  LET level == LevelHit(b, FALSE, reference, best)
               lost == reference ** (One ++ rule.loss)
           IN  /\ level \in Rational /\ (b.low \preceq b.open => b.low \preceq level)
               /\ rule.loss # Zero /\ lost \preceq b.high => lost \preceq level
<1> DEFINE level == LevelHit(b, FALSE, reference, best)
           lost == reference ** (One ++ rule.loss)
           trailed == best ** (One ++ rule.trail)
           gain == reference ** (One -- rule.profit)
<1>1. level = IF rule.loss # Zero /\ lost \preceq b.high THEN Worse(lost, b, FALSE)
              ELSE IF rule.profit # Zero /\ b.low \preceq gain THEN gain
              ELSE IF rule.trail # Zero /\ trailed \preceq b.high THEN Worse(trailed, b, FALSE)
              ELSE None
    BY DEF LevelHit
<1>2. lost \in Rational /\ trailed \in Rational /\ gain \in Rational
    BY Settings, Constants, SumType, Difference, ProductType
<1>3. /\ Worse(lost, b, FALSE) \in Rational /\ Worse(trailed, b, FALSE) \in Rational
      /\ lost \preceq Worse(lost, b, FALSE)
      /\ b.low \preceq b.open => /\ b.low \preceq Worse(lost, b, FALSE)
                                /\ b.low \preceq Worse(trailed, b, FALSE)
    BY <1>2, WorseLaws
<1>4. level # None
    OBVIOUS
<1> HIDE DEF level, lost, trailed, gain
<1>5. /\ level \in Rational /\ (b.low \preceq b.open => b.low \preceq level)
      /\ rule.loss # Zero /\ lost \preceq b.high => lost \preceq level
    BY <1>1, <1>2, <1>3, <1>4
<1> QED BY <1>5 DEF level, lost

\* The rounds of the stops, one disjunct for each way they end.
Ends(d, state, asked, level) == d.state = state /\ d.target = asked /\ d.exit = level

LEMMA Rounds ==
    ASSUME NEW b, NEW want, n \in Int, stop.blocked \in Int
    PROVE  LET d == Decide(b, want)
               level == LevelHit(b, stop.side > 0, stop.reference, stop.best)
               best == IF stop.side > 0 THEN Greatest(stop.best, b.close)
                       ELSE Least(stop.best, b.close)
           IN  \/ /\ stop.side = 0 /\ (want = Zero \/ n < stop.blocked)
                  /\ Ends(d, stop, Zero, None)
               \/ /\ stop.side = 0 /\ want # Zero /\ n >= stop.blocked
                  /\ Ends(d, Entered(b, want), want, None)
               \/ /\ stop.side # 0 /\ level # None
                  /\ Ends(d, Flat(Cooled), Zero, level)
               \/ /\ stop.side # 0 /\ want = Zero
                  /\ Ends(d, Flat(stop.blocked), Zero, None)
               \/ /\ stop.side # 0 /\ want # Zero /\ Sign(want) # stop.side
                  /\ Ends(d, Entered(b, want), want, None)
               \/ /\ stop.side # 0 /\ want # Zero /\ Sign(want) = stop.side
                  /\ Ends(d, Flat(Cooled), Zero, None)
               \/ /\ stop.side # 0 /\ want # Zero /\ Sign(want) = stop.side
                  /\ Ends(d, [stop EXCEPT !.best = best], want, None)
<1> DEFINE long == stop.side > 0
           level == LevelHit(b, long, stop.reference, stop.best)
           best == IF long THEN Greatest(stop.best, b.close) ELSE Least(stop.best, b.close)
           d == Decide(b, want)
           hit == CloseHit(b, long, stop.reference, best)
           idle == [state |-> stop, target |-> Zero, exit |-> None]
           enter == [state |-> Entered(b, want), target |-> want, exit |-> None]
           touched == [state |-> Flat(Cooled), target |-> Zero, exit |-> level]
           left == [state |-> Flat(stop.blocked), target |-> Zero, exit |-> None]
           closed == [state |-> Flat(Cooled), target |-> Zero, exit |-> None]
           kept == [state |-> [stop EXCEPT !.best = best], target |-> want, exit |-> None]
<1>1. d = CASE stop.side = 0 /\ (want = Zero \/ n < stop.blocked) -> idle
            [] stop.side = 0 /\ want # Zero /\ n >= stop.blocked -> enter
            [] stop.side # 0 /\ level # None -> touched
            [] stop.side # 0 /\ level = None /\ want = Zero -> left
            [] stop.side # 0 /\ level = None /\ want # Zero /\ Sign(want) # stop.side -> enter
            [] OTHER -> IF hit THEN closed ELSE kept
    BY Zenon DEF Decide
<1> HIDE DEF level, best, d, hit, idle, enter, touched, left, closed, kept
<1>2. \/ stop.side = 0 /\ (want = Zero \/ n < stop.blocked) /\ d = idle
      \/ stop.side = 0 /\ want # Zero /\ n >= stop.blocked /\ d = enter
      \/ stop.side # 0 /\ level # None /\ d = touched
      \/ stop.side # 0 /\ want = Zero /\ d = left
      \/ stop.side # 0 /\ want # Zero /\ Sign(want) # stop.side /\ d = enter
      \/ stop.side # 0 /\ want # Zero /\ Sign(want) = stop.side /\ d = closed
      \/ stop.side # 0 /\ want # Zero /\ Sign(want) = stop.side /\ d = kept
    BY <1>1
<1>3. /\ d = idle => Ends(d, stop, Zero, None)
      /\ d = enter => Ends(d, Entered(b, want), want, None)
      /\ d = touched => Ends(d, Flat(Cooled), Zero, level)
      /\ d = left => Ends(d, Flat(stop.blocked), Zero, None)
      /\ d = closed => Ends(d, Flat(Cooled), Zero, None)
      /\ d = kept => Ends(d, [stop EXCEPT !.best = best], want, None)
    BY DEF Ends, idle, enter, touched, left, closed, kept
<1> QED BY <1>2, <1>3, Zenon DEF level, best, d

\* A round leaves the stops holding what they ask for, and remembers what it did.
LEMMA RoundLaws ==
    ASSUME Settled, Following, NEW b \in Bars, NEW want \in Wants,
           Decided(b, want, Decide(b, want))
    PROVE  /\ Following'
           /\ exit' # None => /\ stop.side # 0 /\ past'.held = stop
                              /\ exit' = LevelHit(b, stop.side > 0, stop.reference, stop.best)
           /\ past'.long => past.long /\ target' = One
           /\ target' \in {want, Zero}
<1> DEFINE d == Decide(b, want)
           level == LevelHit(b, stop.side > 0, stop.reference, stop.best)
           best == IF stop.side > 0 THEN Greatest(stop.best, b.close)
                   ELSE Least(stop.best, b.close)
<1>1. /\ stop \in Stops /\ stop.side \in {-1, 0, 1} /\ stop.reference \in Rational
      /\ stop.best \in Rational /\ stop.blocked \in Int /\ n \in Nat /\ rule \in Rules
      /\ past.long \in BOOLEAN
    BY DEF Following, Settled, Stops
<1>2. /\ b.close \in Rational /\ want \in Rational /\ Abs(want) \preceq One
      /\ rule.cooldown \in Nat /\ None \notin Rational
    BY <1>1, Settings
<1>3. best \in Rational
    BY <1>1, <1>2, LeastBounds
<1>4. level # None => level \in Rational
    <2>1. CASE stop.side > 0
        BY <1>1, <2>1, LongLevel
    <2>2. CASE ~(stop.side > 0)
        <3>1. (stop.side > 0) = FALSE
            BY <2>2
        <3> QED BY <1>1, <3>1, ShortLevel
    <2> QED BY <2>1, <2>2
<1>5. Sign(Zero) = 0 /\ Sign(want) \in {-1, 0, 1} /\ Zero \in Rational /\ Abs(Zero) \preceq One
    <2>1. Zero[1] <= Zero[2] /\ -Zero[1] <= Zero[2]
        BY Constants
    <2> QED BY <1>2, <2>1, SignLaws, WithinOne, Constants
<1>6. /\ Flat(Cooled) = [side |-> 0, reference |-> Zero, best |-> Zero, blocked |-> Cooled]
      /\ Flat(stop.blocked) = [side |-> 0, reference |-> Zero, best |-> Zero,
                               blocked |-> stop.blocked]
      /\ Entered(b, want) = [side |-> Sign(want), reference |-> b.close, best |-> b.close,
                             blocked |-> stop.blocked]
      /\ Cooled = n + 1 + rule.cooldown /\ Cooled \in Int
    BY <1>1, <1>2 DEF Flat, Entered, Cooled
<1>7. /\ stop' = d.state /\ target' = d.target /\ exit' = d.exit
      /\ past'.held = IF d.exit = None THEN None ELSE stop
      /\ past'.long = (past.long /\ d.target = One)
    BY DEF Decided, Remember
<1>8. /\ d.state \in Stops /\ d.target \in {want, Zero} /\ Sign(d.target) = d.state.side
      /\ d.exit # None => d.exit = level /\ stop.side # 0 /\ d.target = Zero
    <2>1. Flat(Cooled) \in Stops /\ Flat(stop.blocked) \in Stops /\ Entered(b, want) \in Stops
        BY <1>1, <1>2, <1>5, <1>6 DEF Stops
    <2>2. [stop EXCEPT !.best = best] \in Stops /\ [stop EXCEPT !.best = best].side = stop.side
        BY <1>1, <1>3 DEF Stops
    <2>3. Flat(Cooled).side = 0 /\ Flat(stop.blocked).side = 0 /\ Entered(b, want).side = Sign(want)
        BY <1>6
    <2> HIDE DEF d, level, best
    <2>4. \/ stop.side = 0 /\ Ends(d, stop, Zero, None)
          \/ Ends(d, Entered(b, want), want, None)
          \/ stop.side # 0 /\ Ends(d, Flat(Cooled), Zero, level)
          \/ Ends(d, Flat(stop.blocked), Zero, None)
          \/ Ends(d, Flat(Cooled), Zero, None)
          \/ /\ Sign(want) = stop.side
             /\ Ends(d, [stop EXCEPT !.best = best], want, None)
        BY <1>1, Rounds DEF d, level, best
    <2> QED BY <1>1, <1>5, <2>1, <2>2, <2>3, <2>4 DEF Ends
<1> HIDE DEF d, level
<1>9. target' \in Rational /\ Abs(target') \preceq One
    BY <1>2, <1>5, <1>7, <1>8
<1>10. Following'
    <2>1. exit' # None => exit' \in Rational /\ target' = Zero
        BY <1>4, <1>7, <1>8
    <2> QED BY <1>7, <1>8, <1>9, <2>1 DEF Following
<1> QED BY <1>7, <1>8, <1>10 DEF level

\* While it is quiet nothing is entered, and a level or a close exit starts the quiet.
LEMMA QuietLaws ==
    ASSUME Settled, Following, Waiting, NEW b \in Bars, NEW want \in Wants,
           n' = n + 1, rule' = rule, Decided(b, want, Decide(b, want))
    PROVE  Waiting' /\ (past.quiet > 0 => target' = Zero)
<1> DEFINE d == Decide(b, want)
           level == LevelHit(b, stop.side > 0, stop.reference, stop.best)
           best == IF stop.side > 0 THEN Greatest(stop.best, b.close)
                   ELSE Least(stop.best, b.close)
           q == IF stop.side # 0 /\ d.state.side = 0 /\ (d.exit # None \/ want # Zero)
                THEN rule.cooldown ELSE IF past.quiet > 0 THEN past.quiet - 1 ELSE 0
<1>1. /\ stop.side \in {-1, 0, 1} /\ stop.blocked \in Int /\ n \in Nat
      /\ rule.cooldown \in Nat /\ past.quiet \in 0 .. rule.cooldown
      /\ past.quiet > 0 => stop.side = 0 /\ stop.blocked >= n + past.quiet
      /\ stop \in Stops
    BY Settings DEF Following, Settled, Stops, Waiting
<1>2. stop' = d.state /\ target' = d.target /\ past'.quiet = q
    BY DEF Decided, Remember
<1>3. /\ Flat(Cooled).side = 0 /\ Flat(Cooled).blocked = n + 1 + rule.cooldown
      /\ Flat(stop.blocked).side = 0
      /\ Entered(b, want).side = Sign(want)
      /\ [stop EXCEPT !.best = best].side = stop.side
    BY <1>1 DEF Flat, Cooled, Entered, Stops
<1>4. want # Zero => Sign(want) # 0
    BY Settings, SignLaws
<1>5. /\ \/ stop.side = 0 /\ d.state = stop /\ d.target = Zero
         \/ ~(past.quiet > 0) /\ d.state.side # 0
         \/ d.state = Flat(Cooled) /\ stop.side # 0 /\ (d.exit # None \/ want # Zero)
         \/ d.state.side = 0 /\ stop.side # 0 /\ want = Zero /\ d.exit = None
    <2> HIDE DEF d, level, best, q
    <2>1. \/ stop.side = 0 /\ Ends(d, stop, Zero, None)
          \/ stop.side = 0 /\ want # Zero /\ n >= stop.blocked
             /\ Ends(d, Entered(b, want), want, None)
          \/ stop.side # 0 /\ level # None /\ Ends(d, Flat(Cooled), Zero, level)
          \/ stop.side # 0 /\ want = Zero /\ Ends(d, Flat(stop.blocked), Zero, None)
          \/ stop.side # 0 /\ want # Zero /\ Ends(d, Entered(b, want), want, None)
          \/ stop.side # 0 /\ want # Zero /\ Ends(d, Flat(Cooled), Zero, None)
          \/ stop.side # 0 /\ Ends(d, [stop EXCEPT !.best = best], want, None)
        <3>1. n \in Int /\ stop.blocked \in Int
            BY <1>1
        <3> QED BY <3>1, Rounds, Zenon DEF d, level, best
    <2>2. CASE stop.side = 0 /\ Ends(d, stop, Zero, None)
        BY <2>2 DEF Ends
    <2>3. CASE stop.side = 0 /\ want # Zero /\ n >= stop.blocked
               /\ Ends(d, Entered(b, want), want, None)
        BY <1>1, <1>3, <1>4, <2>3 DEF Ends
    <2>4. CASE stop.side # 0 /\ level # None /\ Ends(d, Flat(Cooled), Zero, level)
        BY <2>4 DEF Ends
    <2>5. CASE stop.side # 0 /\ want = Zero /\ Ends(d, Flat(stop.blocked), Zero, None)
        BY <1>3, <2>5 DEF Ends
    <2>6. CASE stop.side # 0 /\ want # Zero /\ Ends(d, Entered(b, want), want, None)
        BY <1>1, <1>3, <1>4, <2>6 DEF Ends
    <2>7. CASE stop.side # 0 /\ want # Zero /\ Ends(d, Flat(Cooled), Zero, None)
        BY <2>7 DEF Ends
    <2>8. CASE stop.side # 0 /\ Ends(d, [stop EXCEPT !.best = best], want, None)
        BY <1>1, <1>3, <2>8 DEF Ends
    <2> QED BY <2>1, <2>2, <2>3, <2>4, <2>5, <2>6, <2>7, <2>8
<1> HIDE DEF d
<1>6. past'.quiet \in 0 .. rule.cooldown
    <2>1. q \in 0 .. rule.cooldown
        BY <1>1
    <2> QED BY <1>2, <2>1
<1>7. past.quiet > 0 => d.target = Zero
    BY <1>1, <1>5
<1>8. q > 0 => d.state.side = 0 /\ d.state.blocked >= (n + 1) + q
    BY <1>1, <1>3, <1>5
<1> QED BY <1>2, <1>6, <1>7, <1>8 DEF Waiting

-----------------------------------------------------------------------------
(* The engine *)

LEMMA MoveLaws ==
    ASSUME NEW from \in Rational, from # Zero, NEW to \in Rational
    PROVE  Move(from, to) \in Rational /\ Move(from, to) = (to // from) -- One
BY Quotient, Difference, Constants DEF Move

\* A fill takes the move since the last open, and then the commission.
LEMMA FillLaws ==
    ASSUME Settled, Following, n > 0, NEW b \in Bars
    PROVE  LET f == Fill(b) IN
           /\ f.to = Effective /\ f.to \in Rational /\ Abs(f.to) \preceq One
           /\ f.turn = Turnover(run.position, f.to) /\ f.turn \in Rational /\ f.turn[1] >= 0
           /\ f.before = BeforeCosts(b) /\ f.before \in Rational
           /\ f.after = f.before ** Keep(f.turn) /\ f.after \in Rational
           /\ f.cost = (Rate ** f.turn) ** f.before /\ f.cost \in Rational
           /\ f.after // Keep(f.turn) = f.before
           /\ run.position = Zero => f.before = run.equity
           /\ run.position = f.to => f.after = f.before
           /\ Positive(f.after) <=> Positive(f.before)
<1> DEFINE f == Fill(b)
           mark == Mark(b)
           m == Move(bar.open, mark)
<1>1. /\ run.position \in Rational /\ run.equity \in Rational /\ bar \in Bars
      /\ exit # None => exit \in Rational
    BY DEF Settled, Following, Runs
<1>2. bar.open \in Rational /\ bar.open # Zero /\ b.open \in Rational
    BY <1>1, Settings
<1>3. mark \in Rational
    BY <1>1, <1>2 DEF Mark
<1>4. m \in Rational /\ m = (mark // bar.open) -- One /\ mark // bar.open \in Rational
    BY <1>2, <1>3, MoveLaws, Quotient
<1>5. /\ f.to = Effective /\ f.turn = Turnover(run.position, f.to) /\ f.before = BeforeCosts(b)
      /\ f.after = f.before ** Keep(f.turn) /\ f.cost = (Rate ** f.turn) ** f.before
    BY DEF Fill
<1>6. BeforeCosts(b) = run.equity ** (One ++ (run.position ** m))
    BY DEF BeforeCosts
<1> HIDE DEF f, m, mark
<1>7. f.to \in Rational /\ Abs(f.to) \preceq One
    BY <1>5, EffectiveLaws
<1>8. f.before \in Rational
    <2>1. run.position ** m \in Rational
        BY <1>1, <1>4, ProductType
    <2>2. One ++ (run.position ** m) \in Rational
        BY <2>1, SumType, Constants
    <2> QED BY <1>1, <1>5, <1>6, <2>2, ProductType
<1>9. f.turn \in Rational /\ f.turn[1] >= 0 /\ (run.position = f.to => f.turn = Zero)
    BY <1>1, <1>5, <1>7, TurnoverLaws
<1>10. Keep(f.turn) \in Rational /\ Positive(Keep(f.turn)) /\ Keep(f.turn) # Zero
    BY <1>9, KeepLaws
<1>11. f.after \in Rational /\ f.cost \in Rational
    BY <1>5, <1>8, <1>9, <1>10, KeepConstants, ProductType
<1>12. f.after // Keep(f.turn) = f.before
    BY <1>5, <1>8, <1>10, <1>11, QuotientIs
<1>13. run.position = Zero => f.before = run.equity
    BY <1>1, <1>4, <1>5, <1>6, EarnsOnlyHeld
<1>14. run.position = f.to => f.after = f.before
    BY <1>5, <1>8, <1>9, KeepConstants, Neutral
<1>15. Positive(f.after) <=> Positive(f.before)
    BY <1>5, <1>8, <1>10, ProductSign DEF Positive
<1> QED BY <1>5, <1>7, <1>8, <1>9, <1>11, <1>12, <1>13, <1>14, <1>15 DEF f

\* What a bar that is traded makes of the run.
LEMMA ExecuteLaws ==
    ASSUME Settled, Following, Booked, run.alive, n > 0, NEW b \in Bars
    PROVE  LET f == Fill(b)
               e == Execute(b, f)
           IN  /\ e \in Runs
               /\ e.equity = f.after /\ e.position = f.to /\ e.peak = Peak
               /\ e.fees = run.fees ++ f.cost
               /\ e.alive <=> Positive(f.after)
               /\ e.alive =>
                    /\ e.trade = IF Opens(f) THEN Opened(b, f)
                                 ELSE IF Closes(f) THEN None ELSE run.trade
                    /\ e.book = IF Closes(f) THEN run.book ** (f.after // run.trade.basis)
                                ELSE run.book
<1> DEFINE f == Fill(b)
           e == Execute(b, f)
           wiped == f.after \preceq Zero
           compounded == run.book ** (f.after // run.trade.basis)
           closes == Closes(f)
           opens == Opens(f)
           trade == IF wiped THEN None
                    ELSE IF opens THEN Opened(b, f) ELSE IF closes THEN None ELSE run.trade
           book == IF wiped THEN (IF run.trade = None THEN run.book ELSE Zero)
                   ELSE IF closes THEN compounded ELSE run.book
<1>1. run \in Runs /\ run.trade \in Leg \cup {None} /\ run.book \in Rational
    BY DEF Settled, Runs
<1>2. e = [run EXCEPT !.equity = f.after, !.position = f.to, !.peak = Peak, !.alive = ~wiped,
                      !.fees = run.fees ++ f.cost, !.trade = trade, !.book = book]
    BY DEF Execute
<1>3. Opened(b, f) \in Leg
    <2>1. /\ Opened(b, f) = [at |-> n, basis |-> EntryBasis(f), price |-> b.open,
                             side |-> Sign(f.to), flat |-> run.position = Zero]
          /\ EntryBasis(f) = IF run.position = Zero THEN f.before ELSE f.after
        BY DEF Opened, EntryBasis
    <2>2. f.before \in Rational /\ f.after \in Rational /\ f.to \in Rational
        BY FillLaws
    <2>3. b.open \in Rational /\ Sign(f.to) \in {-1, 0, 1} /\ n \in Nat
        BY <2>2, Settings, SignLaws DEF Settled
    <2> HIDE DEF f
    <2> QED BY <2>1, <2>2, <2>3 DEF Leg
<1>4. f.after \in Rational /\ run.fees ++ f.cost \in Rational /\ f.to \in Rational /\ Peak \in Rational
    BY <1>1, FillLaws, SumType, EffectiveLaws DEF Runs
<1>5. closes => run.trade # None
    BY DEF Closes
<1>6. closes => compounded \in Rational
    <2>1. run.trade # None => run.trade.basis \in Rational /\ run.trade.basis # Zero
        BY <1>1 DEF Booked, Leg
    <2> QED BY <1>1, <1>4, <1>5, <2>1, Quotient, ProductType
<1> HIDE DEF f, e, compounded, closes, opens
<1>7. wiped <=> ~Positive(f.after)
    BY <1>4, Signs
<1>8. trade \in Leg \cup {None} /\ book \in Rational
    BY <1>1, <1>3, <1>6, Constants
<1> HIDE DEF trade, book
<1>9. /\ e \in Runs /\ e.equity = f.after /\ e.position = f.to /\ e.peak = Peak
      /\ e.fees = run.fees ++ f.cost /\ e.alive = ~wiped /\ e.trade = trade /\ e.book = book
    BY <1>1, <1>2, <1>4, <1>8 DEF Runs
<1>10. e.alive <=> Positive(f.after)
    BY <1>7, <1>9
<1>11. e.alive => /\ e.trade = IF opens THEN Opened(b, f) ELSE IF closes THEN None ELSE run.trade
                  /\ e.book = IF closes THEN compounded ELSE run.book
    BY <1>9 DEF trade, book
<1> QED BY <1>9, <1>10, <1>11, Zenon DEF f, e, opens, closes, compounded

\* The five ways a bar that is survived can leave the open leg.
LEMMA Legs ==
    ASSUME Settled, Following, Booked, run.alive, n > 0, NEW b \in Bars,
           Execute(b, Fill(b)).alive
    PROVE  LET f == Fill(b)
               e == Execute(b, f)
           IN  /\ e.equity \in Rational /\ Positive(e.equity)
               /\ \/ /\ run.trade = None /\ e.trade = None /\ ~Closes(f)
                     /\ e.position = Zero /\ e.book = run.book /\ e.equity = run.equity
                  \/ /\ run.trade = None /\ e.trade # None /\ ~Closes(f) /\ e.position # Zero
                     /\ e.trade.at = n /\ e.trade.flat /\ e.trade.basis = run.equity
                     /\ e.book = run.book
                  \/ /\ run.trade # None /\ e.trade = None /\ Closes(f)
                     /\ e.position = Zero /\ e.book = e.equity
                  \/ /\ run.trade # None /\ e.trade # None /\ Closes(f) /\ e.position # Zero
                     /\ e.trade.at = n /\ ~e.trade.flat /\ e.trade.basis = e.equity
                     /\ e.book = e.equity
                  \/ /\ run.trade # None /\ e.trade = run.trade /\ ~Closes(f)
                     /\ e.position # Zero /\ e.book = run.book
<1> DEFINE f == Fill(b)
           e == Execute(b, f)
           opened == Opened(b, f)
           closes == Closes(f)
           opens == Opens(f)
<1>1. /\ e.equity = f.after /\ e.position = f.to
      /\ e.trade = IF opens THEN opened ELSE IF closes THEN None ELSE run.trade
      /\ e.book = IF closes THEN run.book ** (f.after // run.trade.basis) ELSE run.book
      /\ Positive(f.after)
    BY ExecuteLaws, Zenon
<1>2. /\ f.after \in Rational /\ f.to \in Rational
      /\ run.position = Zero => f.before = run.equity
      /\ run.position = f.to => f.after = f.before
    BY FillLaws
<1>3. /\ closes <=> run.trade # None /\ (f.to = Zero \/ Sign(f.to) # Sign(run.position))
      /\ opens <=> f.to # Zero /\ (run.trade = None \/ closes)
    BY DEF Closes, Opens
<1>4. /\ opened # None /\ opened.at = n
      /\ opened.flat = (run.position = Zero)
      /\ opened.basis = IF run.position = Zero THEN f.before ELSE f.after
    <2>1. opened = [at |-> n, basis |-> EntryBasis(f), price |-> b.open,
                    side |-> Sign(f.to), flat |-> run.position = Zero]
        BY DEF Opened
    <2>2. EntryBasis(f) = IF run.position = Zero THEN f.before ELSE f.after
        BY DEF EntryBasis
    <2>3. opened \in Leg
        <3>1. f.before \in Rational /\ f.after \in Rational /\ f.to \in Rational
            BY FillLaws
        <3>2. b.open \in Rational /\ Sign(f.to) \in {-1, 0, 1} /\ n \in Nat
            BY <3>1, Settings, SignLaws DEF Settled
        <3> HIDE DEF f, opened
        <3> QED BY <2>1, <2>2, <3>1, <3>2 DEF Leg
    <2>4. None \notin Leg
        BY Settings
    <2> HIDE DEF opened
    <2> QED BY <2>1, <2>2, <2>3, <2>4
<1>5. /\ run.trade = None => run.position = Zero /\ run.book = run.equity
      /\ run.trade # None => /\ run.position # Zero /\ run.book = run.trade.basis
                             /\ run.trade.basis # Zero /\ run.trade.basis \in Rational
    BY DEF Booked, Settled, Runs, Leg
<1>6. run.trade # None => run.book ** (f.after // run.trade.basis) = f.after
    <2> SUFFICES ASSUME run.trade # None
                 PROVE  run.book ** (f.after // run.trade.basis) = f.after
        OBVIOUS
    <2> DEFINE basis == run.trade.basis
               y == f.after // basis
    <2>1. basis \in Rational /\ y \in Rational /\ y ** basis = f.after
        BY <1>2, <1>5, Quotient
    <2> HIDE DEF y
    <2>2. basis ** y = f.after
        BY <2>1, ProductCommutes
    <2> QED BY <1>5, <2>2 DEF y
<1>7. e.equity \in Rational /\ Positive(e.equity)
    BY <1>1, <1>2
<1> HIDE DEF f, e, opened, closes, opens
<1>8. CASE run.trade = None /\ f.to = Zero
    <2>1. e.equity = run.equity
        BY <1>1, <1>2, <1>5, <1>8
    <2> QED BY <1>1, <1>3, <1>7, <1>8, <2>1, Zenon DEF e, f, closes
<1>9. CASE run.trade = None /\ f.to # Zero
    <2>1. ~closes /\ opens /\ e.trade = opened /\ e.book = run.book
        BY <1>1, <1>3, <1>9
    <2>2. opened.flat /\ opened.basis = run.equity
        BY <1>2, <1>4, <1>5, <1>9
    <2> QED BY <1>1, <1>4, <1>7, <1>9, <2>1, <2>2, Zenon DEF e, f, closes
<1>10. CASE run.trade # None /\ f.to = Zero
    <2>1. closes /\ ~opens /\ e.trade = None /\ e.book = f.after
        BY <1>1, <1>3, <1>6, <1>10
    <2> QED BY <1>1, <1>7, <1>10, <2>1, Zenon DEF e, f, closes
<1>11. CASE run.trade # None /\ f.to # Zero /\ closes
    <2>1. opens /\ e.trade = opened /\ e.book = f.after
        BY <1>1, <1>3, <1>6, <1>11
    <2>2. ~opened.flat /\ opened.basis = f.after
        BY <1>4, <1>5, <1>11
    <2> QED BY <1>1, <1>4, <1>7, <1>11, <2>1, <2>2, Zenon DEF e, f, closes
<1>12. CASE run.trade # None /\ f.to # Zero /\ ~closes
    <2>1. ~opens /\ e.trade = run.trade /\ e.book = run.book
        BY <1>1, <1>3, <1>12
    <2> QED BY <1>1, <1>7, <1>12, <2>1, Zenon DEF e, f, closes
<1> QED BY <1>8, <1>9, <1>10, <1>11, <1>12

\* The book follows the account.
LEMMA BookedKeeps ==
    ASSUME Settled, Following, Booked, run.alive, n > 0, NEW b \in Bars,
           n' = n + 1, run' = Execute(b, Fill(b))
    PROVE  Booked'
<1> DEFINE f == Fill(b)
           e == Execute(b, f)
<1> SUFFICES ASSUME e.alive
             PROVE  /\ Positive(e.equity)
                    /\ IF e.trade = None THEN e.position = Zero /\ e.book = e.equity
                       ELSE /\ e.position # Zero /\ e.trade.at < n + 1
                            /\ e.book = e.trade.basis /\ e.trade.basis # Zero
    BY DEF Booked
<1>1. /\ run.trade = None => run.position = Zero /\ run.book = run.equity
      /\ run.trade # None => /\ run.book = run.trade.basis /\ run.trade.basis # Zero
                             /\ run.trade.at < n /\ run.trade.at \in Int
      /\ n \in Int /\ run.equity # Zero
    <2>1. run.equity # Zero
        BY Signs DEF Booked, Settled, Runs, Positive
    <2> QED BY <2>1 DEF Booked, Settled, Runs, Leg
<1>2. e.equity # Zero /\ Positive(e.equity)
    <2>1. e.equity \in Rational /\ Positive(e.equity)
        BY Legs, Zenon
    <2> QED BY <2>1, Signs DEF Positive
<1>3. \/ /\ run.trade = None /\ e.trade = None
         /\ e.position = Zero /\ e.book = run.book /\ e.equity = run.equity
      \/ /\ run.trade = None /\ e.trade # None /\ e.position # Zero
         /\ e.trade.at = n /\ e.trade.basis = run.equity /\ e.book = run.book
      \/ /\ e.trade = None /\ e.position = Zero /\ e.book = e.equity
      \/ /\ e.trade # None /\ e.position # Zero
         /\ e.trade.at = n /\ e.trade.basis = e.equity /\ e.book = e.equity
      \/ /\ run.trade # None /\ e.trade = run.trade /\ e.position # Zero /\ e.book = run.book
    BY Legs, Zenon
<1> HIDE DEF e
<1> QED BY <1>1, <1>2, <1>3

-----------------------------------------------------------------------------
(* Windows *)

\* fees_in_window recovers the commission that was charged.
LEMMA FeesRecovered ==
    ASSUME Settled, Following, Booked, run.alive, n > 0, NEW b \in Bars
    PROVE  Recovered(Execute(b, Fill(b))) = Fill(b).cost /\ Fill(b).cost \in Rational
<1> DEFINE f == Fill(b)
           e == Execute(b, f)
<1>1. e.equity = f.after /\ e.position = f.to
    BY ExecuteLaws, Zenon
<1>2. /\ f.turn = Turnover(run.position, f.to) /\ f.cost = (Rate ** f.turn) ** f.before
      /\ f.after // Keep(f.turn) = f.before /\ f.cost \in Rational
    BY FillLaws
<1>3. Recovered(e) = (Rate ** Turnover(run.position, e.position))
                         ** (e.equity // Keep(Turnover(run.position, e.position)))
    BY DEF Recovered
<1> QED BY <1>1, <1>2, <1>3

\* A share that is added in the window is a share of the account.
LEMMA ShareAdded ==
    ASSUME NEW fees \in Rational, NEW cost \in Rational, NEW base \in Rational, base # Zero,
           NEW before \in Rational
    PROVE  /\ ((fees ++ (cost // base)) ** base) ++ before = ((fees ** base) ++ before) ++ cost
           /\ cost // base \in Rational /\ (cost // base) ** base = cost
<1> DEFINE c == cost // base
<1>1. c \in Rational /\ c ** base = cost
    BY Quotient
<1> HIDE DEF c
<1> DEFINE p == fees ** base
<1>2. p \in Rational
    BY ProductType
<1>3. (fees ++ c) ** base = p ++ cost
    <2>1. fees ++ c \in Rational
        BY <1>1, SumType
    <2>2. (fees ++ c) ** base = base ** (fees ++ c)
        BY <2>1, ProductCommutes
    <2>3. base ** (fees ++ c) = (base ** fees) ++ (base ** c)
        BY <1>1, ProductDistributes
    <2>4. base ** fees = p /\ base ** c = cost
        BY <1>1, ProductCommutes
    <2> QED BY <2>2, <2>3, <2>4
<1> HIDE DEF p
<1>4. (p ++ cost) ++ before = p ++ (cost ++ before)
    BY <1>2, SumAssociates
<1>5. (p ++ before) ++ cost = p ++ (before ++ cost)
    BY <1>2, SumAssociates
<1>6. cost ++ before = before ++ cost
    BY SumCommutes
<1> QED BY <1>1, <1>3, <1>4, <1>5, <1>6 DEF c, p

\* A window that opens on a bar starts from what the account is worth there.
LEMMA WindowOpens ==
    ASSUME Settled, Following, Booked, run.alive, n > 0, NEW b \in Bars,
           n' = n + 1, run' = Execute(b, Fill(b)), run'.alive, window' = Window(run')
    PROVE  window' \in Inside /\ window'.base # Zero /\ Rebased'
<1> DEFINE f == Fill(b)
           e == Execute(b, f)
           w == Window(e)
<1>1. e.equity \in Rational /\ e.equity # Zero
    <2>1. e.equity \in Rational /\ Positive(e.equity)
        BY Legs, Zenon
    <2> QED BY <2>1, Signs DEF Positive
<1>2. e.fees = run.fees ++ f.cost /\ f.cost \in Rational /\ run.fees \in Rational /\ e \in Runs
    <2>1. e.fees = run.fees ++ f.cost /\ e \in Runs
        BY ExecuteLaws, Zenon
    <2> QED BY <2>1, FeesRecovered DEF Settled, Runs
<1>3. /\ w = [base |-> e.equity, book |-> One, fees |-> f.cost // e.equity,
              carried |-> e.trade # None /\ e.trade.at < n,
              entered |-> e.trade # None /\ e.trade.at = n /\ e.trade.flat,
              before |-> run.fees]
    BY FeesRecovered, Zenon DEF Window, FirstFees
<1>4. run.trade # None => run.trade.at < n /\ run.trade.at \in Int
    BY DEF Booked, Settled, Runs, Leg
<1>5. e.trade # None =>
        \/ e.trade.at = n /\ e.trade.flat
        \/ e.trade.at = n /\ ~e.trade.flat /\ e.trade.basis = e.equity
        \/ e.trade.at < n
    <2>1. \/ e.trade = None
          \/ e.trade.at = n /\ e.trade.flat
          \/ e.trade.at = n /\ ~e.trade.flat /\ e.trade.basis = e.equity
          \/ run.trade # None /\ e.trade = run.trade
        BY Legs, Zenon
    <2> HIDE DEF e
    <2> QED BY <1>4, <2>1
<1>6. n \in Int
    BY DEF Settled
<1>7. /\ (f.cost // e.equity) ** e.equity = f.cost
      /\ f.cost // e.equity \in Rational
      /\ f.cost ++ run.fees = run.fees ++ f.cost
    BY <1>1, <1>2, Quotient, SumCommutes
<1>8. e.equity // e.equity = One /\ One \in Rational
    BY <1>1, SelfQuotient, Constants
<1>9. e.trade # None => e.trade.flat \in BOOLEAN
    BY <1>2 DEF Runs, Leg
<1>10. run' = e /\ window' = w
    OBVIOUS
<1> HIDE DEF e, w, f
<1>11. w \in Inside /\ w.base # Zero
    BY <1>1, <1>2, <1>3, <1>7, <1>8, <1>9 DEF Inside
<1>12. (w.fees ** w.base) ++ w.before = e.fees
    BY <1>2, <1>3, <1>7
<1>13. ~w.entered =>
          IF e.trade = None THEN ~w.carried /\ w.book = e.equity // w.base
          ELSE w.book = IF w.carried THEN One ELSE e.trade.basis // w.base
    <2>1. CASE e.trade = None
        BY <1>3, <1>8, <2>1
    <2>2. CASE e.trade # None /\ e.trade.at < n
        BY <1>3, <2>2
    <2>3. CASE e.trade # None /\ e.trade.at = n /\ ~e.trade.flat /\ e.trade.basis = e.equity
        BY <1>3, <1>6, <1>8, <2>3
    <2>4. CASE e.trade # None /\ e.trade.at = n /\ e.trade.flat
        BY <1>3, <2>4
    <2> QED BY <1>5, <2>1, <2>2, <2>3, <2>4
<1> QED BY <1>10, <1>11, <1>12, <1>13 DEF Rebased

\* A window that is open follows the book.
LEMMA WindowFollows ==
    ASSUME Settled, Following, Booked, Rebased, run.alive, n > 0, NEW b \in Bars,
           window # None, run' = Execute(b, Fill(b)), run'.alive,
           window' = InWindow(Fill(b), run')
    PROVE  window' \in Inside /\ window'.base # Zero /\ Rebased'
<1> DEFINE f == Fill(b)
           e == Execute(b, f)
           w == window
           basis == IF w.carried THEN w.base ELSE run.trade.basis
           closes == Closes(f)
           fees == w.fees ++ (f.cost // w.base)
           book == IF closes THEN w.book ** (f.after // basis) ELSE w.book
           carried == w.carried /\ ~closes
           v == [w EXCEPT !.fees = fees, !.book = book, !.carried = carried]
<1>1. run' = e /\ window' = v
    BY FeesRecovered, Zenon DEF InWindow, Basis
<1>2. /\ w \in Inside /\ w.base # Zero /\ w.base \in Rational /\ w.book \in Rational
      /\ w.fees \in Rational /\ w.before \in Rational /\ w.carried \in BOOLEAN
      /\ w.entered \in BOOLEAN
    BY DEF Settled, Inside
<1>3. /\ f.after \in Rational /\ f.cost \in Rational /\ e.fees = run.fees ++ f.cost
      /\ e.equity = f.after
    <2>1. e.fees = run.fees ++ f.cost /\ e.equity = f.after
        BY ExecuteLaws, Zenon
    <2> QED BY <2>1, FillLaws, FeesRecovered
<1>4. run.trade # None => basis \in Rational /\ basis # Zero
    BY <1>2 DEF Booked, Settled, Runs, Leg
<1>5. closes => run.trade # None
    BY DEF Closes
<1>6. fees \in Rational /\ book \in Rational /\ carried \in BOOLEAN
    BY <1>2, <1>3, <1>4, <1>5, ShareAdded, SumType, Quotient, ProductType
<1>7. v \in Inside /\ v.base = w.base /\ v.before = w.before /\ v.entered = w.entered
      /\ v.fees = fees /\ v.book = book /\ v.carried = carried
    <2> HIDE DEF fees, book, carried
    <2> QED BY <1>2, <1>6 DEF Inside
<1>8. (v.fees ** v.base) ++ v.before = e.fees
    <2>1. (w.fees ** w.base) ++ w.before = run.fees
        BY DEF Rebased
    <2>2. (fees ** w.base) ++ w.before = ((w.fees ** w.base) ++ w.before) ++ f.cost
        BY <1>2, <1>3, ShareAdded
    <2> QED BY <1>3, <1>7, <2>1, <2>2
<1>9. ASSUME ~w.entered
      PROVE  IF e.trade = None THEN ~v.carried /\ v.book = e.equity // v.base
             ELSE v.book = IF v.carried THEN One ELSE e.trade.basis // v.base
    <2>1. IF run.trade = None THEN ~w.carried /\ w.book = run.equity // w.base
          ELSE w.book = IF w.carried THEN One ELSE run.trade.basis // w.base
        BY <1>9 DEF Rebased
    <2>2. closes => w.book ** (f.after // basis) = f.after // w.base
        <3> SUFFICES ASSUME closes PROVE w.book ** (f.after // basis) = f.after // w.base
            OBVIOUS
        <3>1. run.trade # None /\ basis \in Rational /\ basis # Zero
            BY <1>4, <1>5
        <3>2. CASE w.carried
            <4>1. w.book = One /\ basis = w.base
                BY <2>1, <3>1, <3>2
            <4>2. f.after // w.base \in Rational
                BY <1>2, <1>3, Quotient
            <4> QED BY <4>1, <4>2, Neutral
        <3>3. CASE ~w.carried
            <4>1. w.book = basis // w.base
                BY <2>1, <3>1, <3>3
            <4> QED BY <1>2, <1>3, <3>1, <4>1, QuotientChain
        <3> QED BY <3>2, <3>3
    <2>3. \/ /\ run.trade = None /\ e.trade = None /\ ~closes /\ e.equity = run.equity
          \/ /\ run.trade = None /\ e.trade # None /\ ~closes /\ e.trade.basis = run.equity
          \/ /\ run.trade # None /\ e.trade = None /\ closes
          \/ /\ run.trade # None /\ e.trade # None /\ closes /\ e.trade.basis = e.equity
          \/ /\ run.trade # None /\ e.trade = run.trade /\ ~closes
        BY Legs, Zenon
    <2> HIDE DEF e, f, closes, v, basis
    <2> QED BY <1>3, <1>7, <2>1, <2>2, <2>3
<1> QED BY <1>1, <1>2, <1>7, <1>8, <1>9 DEF Rebased

-----------------------------------------------------------------------------
(* The runs beside the run *)

LEMMA MemoryLaws ==
    ASSUME Settled, NEW b \in Bars, NEW want, Decided(b, want, Decide(b, want))
    PROVE  /\ past'.exits <=> past.exits \/ (run.position # Zero /\ exit # None)
           /\ past'.gaps <=> past.gaps \/ (n > 0 /\ b.open # bar.close)
           /\ past'.exits \in BOOLEAN /\ past'.gaps \in BOOLEAN /\ past'.long \in BOOLEAN
<1> DEFINE d == Decide(b, want)
<1>1. /\ past'.exits = (past.exits \/ (run.position # Zero /\ exit # None))
      /\ past'.gaps = (past.gaps \/ (n > 0 /\ b.open # bar.close))
      /\ past'.long = (past.long /\ d.target = One)
    BY DEF Decided, Remember
<1>2. past.exits \in BOOLEAN /\ past.gaps \in BOOLEAN /\ past.long \in BOOLEAN
    BY DEF Settled
<1> HIDE DEF d
<1> QED BY <1>1, <1>2

LEMMA GrowthType ==
    ASSUME NEW x \in Rational, NEW p \in Rational, NEW from \in Rational, from # Zero,
           NEW to \in Rational
    PROVE  One ++ (p ** Move(from, to)) \in Rational
           /\ x ** (One ++ (p ** Move(from, to))) \in Rational
<1>1. p ** Move(from, to) \in Rational
    BY MoveLaws, ProductType
<1>2. One ++ (p ** Move(from, to)) \in Rational
    BY <1>1, SumType, Constants
<1> QED BY <1>2, ProductType

LEMMA ChecksLaws ==
    ASSUME Settled, Following, n > 0, NEW b \in Bars
    PROVE  LET f == Fill(b)
               c == Checks(b, f)
           IN  /\ c \in Crosses
               /\ c.gross = cross.gross ** (One ++ (run.position ** Move(bar.open, b.open)))
               /\ c.closeFill = (cross.closeFill ** (One ++ (f.to ** Move(bar.close, b.close))))
                                    ** Keep(Turnover(cross.closePos, f.to))
               /\ c.closePos = f.to
               /\ c.base = IF n = 1 THEN b.open ELSE cross.base
               /\ c.turned = cross.turned ++ f.turn
<1> DEFINE f == Fill(b)
           c == Checks(b, f)
           gross == cross.gross ** (One ++ (run.position ** Move(bar.open, b.open)))
           atClose == (cross.closeFill ** (One ++ (f.to ** Move(bar.close, b.close))))
                          ** Keep(Turnover(cross.closePos, f.to))
           base == IF n = 1 THEN b.open ELSE cross.base
           turned == cross.turned ++ f.turn
<1>1. n # 0
    BY DEF Settled
<1>2. c = [gross |-> gross, closeFill |-> atClose, closePos |-> f.to, base |-> base,
           turned |-> turned]
    BY <1>1, Zenon DEF Checks, CloseFill, Base
<1>3. /\ cross.gross \in Rational /\ cross.closeFill \in Rational /\ cross.closePos \in Rational
      /\ cross.base \in Rational \cup {None} /\ cross.turned \in Rational
      /\ run.position \in Rational /\ bar \in Bars
    BY DEF Settled, Crosses, Runs
<1>4. /\ bar.open \in Rational /\ bar.open # Zero /\ bar.close \in Rational /\ bar.close # Zero
      /\ b.open \in Rational /\ b.close \in Rational
    BY <1>3, Settings
<1>5. f.to \in Rational /\ f.turn \in Rational
    BY FillLaws
<1> HIDE DEF f
<1>6. gross \in Rational
    BY <1>3, <1>4, GrowthType
<1>7. atClose \in Rational
    <2>1. cross.closeFill ** (One ++ (f.to ** Move(bar.close, b.close))) \in Rational
        BY <1>3, <1>4, <1>5, GrowthType
    <2>2. Keep(Turnover(cross.closePos, f.to)) \in Rational
        BY <1>3, <1>5, TurnoverLaws, KeepLaws
    <2> QED BY <2>1, <2>2, ProductType
<1>8. base \in Rational \cup {None} /\ turned \in Rational
    BY <1>3, <1>4, <1>5, SumType
<1> HIDE DEF c, gross, atClose, base, turned
<1>9. c \in Crosses
    BY <1>2, <1>5, <1>6, <1>7, <1>8 DEF Crosses
<1>10. /\ c.gross = gross /\ c.closeFill = atClose /\ c.closePos = f.to /\ c.base = base
       /\ c.turned = turned
    BY <1>2
<1> QED BY <1>9, <1>10, Zenon DEF c, f, gross, atClose, base, turned

\* The close-fill run is the run as long as nothing happens between a close and
\* the next open.
LEMMA FollowedKeeps ==
    ASSUME Settled, Following, Booked, Followed, run.alive, n > 0,
           NEW b \in Bars, NEW want, Decided(b, want, Decide(b, want)),
           run' = Execute(b, Fill(b)), cross' = Checks(b, Fill(b)), bar' = b
    PROVE  Followed'
<1> DEFINE f == Fill(b)
           e == Execute(b, f)
           c == Checks(b, f)
           grown == One ++ (f.to ** Move(b.open, b.close))
           keep == Keep(f.turn)
<1>1. c.closePos = f.to /\ e.position = f.to /\ e.equity = f.after
    BY ChecksLaws, ExecuteLaws, Zenon
<1>2. ASSUME ~past'.gaps, ~past'.exits
      PROVE  c.closeFill = e.equity ** (One ++ (e.position ** Move(b.open, b.close)))
    <2>1. ~past.gaps /\ ~past.exits /\ b.open = bar.close /\ ~(run.position # Zero /\ exit # None)
        BY <1>2, MemoryLaws
    <2>2. cross.closeFill = Marked /\ cross.closePos = run.position
        BY <2>1 DEF Followed
    <2>3. f.before = cross.closeFill
        <3>1. Mark(b) = b.open
            BY <2>1 DEF Mark
        <3>2. f.before = run.equity ** (One ++ (run.position ** Move(bar.open, Mark(b))))
            BY FillLaws DEF BeforeCosts
        <3> QED BY <2>1, <2>2, <3>1, <3>2 DEF Marked
    <2>4. /\ f.turn = Turnover(run.position, f.to) /\ f.after = f.before ** keep
          /\ f.before \in Rational /\ f.to \in Rational /\ keep \in Rational
        BY FillLaws, KeepLaws
    <2>5. c.closeFill = (cross.closeFill ** (One ++ (f.to ** Move(bar.close, b.close))))
                            ** Keep(Turnover(cross.closePos, f.to))
        BY ChecksLaws, Zenon
    <2>6. grown \in Rational
        BY <2>4, Settings, GrowthType
    <2>7. c.closeFill = (f.before ** grown) ** keep
        BY <2>1, <2>2, <2>3, <2>4, <2>5
    <2> HIDE DEF grown, keep
    <2>8. (f.before ** grown) ** keep = (f.before ** keep) ** grown
        BY <2>4, <2>6, SwapFactors
    <2> QED BY <1>1, <2>4, <2>7, <2>8 DEF grown
<1>3. run' = e /\ cross' = c /\ bar' = b
    OBVIOUS
<1> HIDE DEF e, c, f
<1> QED BY <1>1, <1>2, <1>3 DEF Followed, Marked

\* A run that always wants everything compounds the opens, less its one entry.
LEMMA AlwaysLongKeeps ==
    ASSUME Settled, Following, Booked, Untraded, AlwaysLong, n > 0,
           NEW b \in Bars, NEW want \in Wants, Decided(b, want, Decide(b, want)),
           n' = n + 1, bar' = b, rule' = rule,
           run.alive => run' = Execute(b, Fill(b)) /\ cross' = Checks(b, Fill(b))
    PROVE  AlwaysLong'
<1> DEFINE f == Fill(b)
           k == Keep(One)
<1> SUFFICES ASSUME past'.long, rule.scale = None
             PROVE  /\ target' = One /\ exit' = None
                    /\ run'.alive /\ run'.position = One
                    /\ cross'.base \in Rational /\ cross'.base # Zero
                    /\ run'.equity = k ** (b.open // cross'.base)
    BY DEF AlwaysLong
<1>1. past.long /\ target' = One
    BY RoundLaws
<1>2. exit' = None
    BY <1>1, RoundLaws, Constants DEF Following
<1>3. target = One /\ exit = None
    BY <1>1 DEF AlwaysLong
<1>4. f.to = One
    BY <1>3, FillLaws, EffectiveLaws
<1>5. k \in Rational /\ Positive(k)
    BY KeepConstants
<1>6. /\ b.open \in Rational /\ b.open # Zero /\ Positive(b.open)
      /\ bar.open \in Rational /\ bar.open # Zero /\ Positive(bar.open)
      /\ n \in Nat
    BY Settings DEF Settled
<1>7. run.alive
    <2>1. CASE n = 1
        BY <2>1 DEF Untraded
    <2>2. CASE n # 1
        BY <1>1, <1>6, <2>2 DEF AlwaysLong
    <2> QED BY <2>1, <2>2
<1>8. run' = Execute(b, f) /\ cross' = Checks(b, f)
    BY <1>7
<1>9. /\ run'.position = One /\ run'.equity = f.after /\ (run'.alive <=> Positive(f.after))
      /\ cross'.base = IF n = 1 THEN b.open ELSE cross.base
    BY <1>4, <1>7, <1>8, ExecuteLaws, ChecksLaws
<1>10. /\ f.turn = Turnover(run.position, f.to) /\ f.after = f.before ** Keep(f.turn)
       /\ f.before = BeforeCosts(b)
       /\ run.position = Zero => f.before = run.equity
       /\ run.position = f.to => f.after = f.before
       /\ Positive(f.after) <=> Positive(f.before)
    BY FillLaws
<1> HIDE DEF f
<1>11. CASE n = 1
    <2>1. run.position = Zero /\ run.equity = One
        BY <1>11 DEF Untraded
    <2>2. f.before = One /\ f.turn = One /\ f.after = k /\ Positive(One)
        BY <1>4, <1>5, <1>10, <2>1, TurnoverLaws, Neutral, Constants DEF Positive
    <2>3. k ** (b.open // b.open) = k
        BY <1>5, <1>6, SelfQuotient, Neutral
    <2> QED BY <1>1, <1>2, <1>6, <1>9, <1>10, <1>11, <2>2, <2>3
<1>12. CASE n # 1
    <2> DEFINE base == cross.base
    <2>1. /\ run.position = One /\ base \in Rational /\ base # Zero
          /\ run.equity = k ** (bar.open // base) /\ run.equity \in Rational
          /\ Positive(run.equity)
        BY <1>1, <1>6, <1>7, <1>12 DEF AlwaysLong, Booked, Settled, Runs
    <2> DEFINE x == b.open // bar.open
               y == bar.open // base
    <2>2. x \in Rational /\ Positive(x) /\ y \in Rational
        BY <1>6, <2>1, PositiveProduct, Quotient
    <2>3. f.before = run.equity ** x
        <3>1. Mark(b) = b.open
            BY <1>3 DEF Mark
        <3>2. Move(bar.open, b.open) = x -- One
            BY DEF Move
        <3>3. f.before = run.equity ** (One ++ (One ** (x -- One)))
            BY <1>10, <2>1, <3>1, <3>2 DEF BeforeCosts
        <3> HIDE DEF x
        <3> QED BY <2>1, <2>2, <3>3, EarnsOnlyHeld
    <2>4. y ** x = b.open // base
        BY <1>6, <2>1, QuotientChain
    <2> HIDE DEF x, y
    <2>5. (k ** y) ** x = k ** (y ** x)
        BY <1>5, <2>2, ProductAssociates
    <2>6. Positive(f.before) /\ f.after = f.before
        BY <1>4, <1>10, <2>1, <2>2, <2>3, PositiveProduct
    <2>7. run.equity = k ** y
        BY <2>1 DEF y
    <2> QED BY <1>1, <1>2, <1>9, <1>10, <1>12, <2>1, <2>3, <2>4, <2>5, <2>6, <2>7
<1> QED BY <1>11, <1>12

-----------------------------------------------------------------------------
(* The invariant *)

LEMMA Initially == Init => Accounted
<1> SUFFICES ASSUME Init PROVE Accounted
    OBVIOUS
<1>1. One \in Rational /\ Zero \in Rational /\ Positive(One) /\ One # Zero
    BY Constants DEF Positive
<1>2. Abs(Zero) \preceq One /\ Sign(Zero) = 0
    <2>1. Zero[1] <= Zero[2] /\ -Zero[1] <= Zero[2]
        BY Constants
    <2> QED BY <1>1, <2>1, WithinOne, SignLaws
<1>3. rule \in Rules /\ rule.cooldown \in Nat /\ MaxBars \in Nat
    BY Settings, BacktestAssumption DEF Init
<1>4. run = [equity |-> One, position |-> Zero, trade |-> None, book |-> One,
             fees |-> Zero, peak |-> One, alive |-> TRUE]
    BY DEF Init
<1>5. Settled
    BY <1>1, <1>2, <1>3 DEF Settled, Init, Runs, Crosses
<1>6. Following
    BY <1>1, <1>2 DEF Following, Init, Stops
<1>7. Waiting
    BY <1>3 DEF Waiting, Init
<1>8. Untraded
    BY DEF Untraded, Init
<1>9. Booked
    BY <1>1, <1>4 DEF Booked
<1>10. Rebased /\ Followed /\ AlwaysLong
    BY DEF Rebased, Followed, AlwaysLong, Init
<1> QED BY <1>5, <1>6, <1>7, <1>8, <1>9, <1>10 DEF Accounted

\* What a step is, by the bar it reads: the first, one that is traded, or one
\* after the account is gone.
LEMMA Reading ==
    ASSUME Accounted, NEW b \in Bars, Read(b, Fill(b))
    PROVE  LET f == Fill(b) IN
           /\ n' = n + 1 /\ n < MaxBars /\ bar' = b /\ rule' = rule
           /\ \E want \in Wants : Decided(b, want, Decide(b, want))
           /\ \/ n = 0 /\ run' = run /\ cross' = cross /\ window' = None
              \/ /\ n > 0 /\ run.alive /\ run' = Execute(b, f) /\ cross' = Checks(b, f)
                 /\ \/ window # None /\ run'.alive /\ window' = InWindow(f, run')
                    \/ window # None /\ ~run'.alive /\ window' = window
                    \/ window = None /\ run'.alive /\ window' = Window(run')
                    \/ window = None /\ window' = None
              \/ /\ n > 0 /\ ~run.alive /\ run' = [run EXCEPT !.equity = Zero, !.position = Zero]
                 /\ cross' = cross /\ window' = window
<1> DEFINE f == Fill(b)
           e == Engine(b, f)
<1>1. /\ n' = n + 1 /\ n < MaxBars /\ bar' = b /\ rule' = rule
      /\ \E want \in Wants : Decided(b, want, Decide(b, want))
      /\ run' = e /\ cross' = IF run.alive THEN Checks(b, f) ELSE cross
    BY Zenon DEF Read, Executed
<1>2. PICK opens \in BOOLEAN : /\ opens => n > 0 /\ window = None /\ e.alive
                               /\ window' = RestrictTo(f, e, opens)
    BY Zenon DEF Read, Executed
<1>3. window' = IF window # None THEN (IF e.alive THEN InWindow(f, e) ELSE window)
                ELSE IF opens THEN Window(e) ELSE None
    BY <1>2 DEF RestrictTo
<1>4. e = IF n = 0 THEN run ELSE IF run.alive THEN Execute(b, f)
          ELSE [run EXCEPT !.equity = Zero, !.position = Zero]
    BY DEF Engine
<1>5. n \in Nat /\ run \in Runs /\ (n = 0 => run.alive /\ window = None)
    BY DEF Accounted, Settled, Untraded
<1>6. CASE n = 0
    <2>1. cross' = cross
        BY <1>1, <1>5, <1>6 DEF Checks
    <2>2. run' = run
        BY <1>1, <1>4, <1>6
    <2>3. window' = None
        BY <1>2, <1>3, <1>5, <1>6
    <2> QED BY <1>1, <1>6, <2>1, <2>2, <2>3
<1>7. CASE n # 0 /\ run.alive
    <2>1. e = Execute(b, f) /\ cross' = Checks(b, f) /\ n > 0 /\ run' = e
        BY <1>1, <1>4, <1>5, <1>7
    <2> HIDE DEF e, f
    <2>2. \/ window # None /\ e.alive /\ window' = InWindow(f, e)
          \/ window # None /\ ~e.alive /\ window' = window
          \/ window = None /\ e.alive /\ window' = Window(e)
          \/ window = None /\ window' = None
        BY <1>2, <1>3
    <2> QED BY <1>1, <1>7, <2>1, <2>2, Zenon DEF f
<1>8. CASE n # 0 /\ ~run.alive
    <2>1. e = [run EXCEPT !.equity = Zero, !.position = Zero] /\ n > 0 /\ cross' = cross
        BY <1>1, <1>4, <1>5, <1>8
    <2>2. ~e.alive
        BY <1>5, <1>8, <2>1 DEF Runs
    <2> HIDE DEF e, f
    <2>3. window' = window
        BY <1>2, <1>3, <2>2
    <2> QED BY <1>1, <1>8, <2>1, <2>3
<1> QED BY <1>6, <1>7, <1>8

LEMMA ReadKeeps ==
    ASSUME Accounted, NEW b \in Bars, Read(b, Fill(b))
    PROVE  Accounted'
<1> DEFINE f == Fill(b)
<1>1. /\ n' = n + 1 /\ n < MaxBars /\ bar' = b /\ rule' = rule
      /\ \E want \in Wants : Decided(b, want, Decide(b, want))
    BY Reading
<1>2. PICK want \in Wants : Decided(b, want, Decide(b, want))
    BY <1>1
<1>3. Settled /\ Following /\ Waiting /\ Untraded /\ Booked /\ Rebased /\ Followed /\ AlwaysLong
    BY DEF Accounted
<1>4. Following' /\ Waiting'
    BY <1>1, <1>2, <1>3, RoundLaws, QuietLaws
<1>5. /\ rule' \in Rules /\ n' \in 0 .. MaxBars /\ bar' \in Bars
      /\ past'.exits \in BOOLEAN /\ past'.gaps \in BOOLEAN /\ past'.long \in BOOLEAN
    BY <1>1, <1>2, <1>3, BacktestAssumption, MemoryLaws DEF Settled
<1>6. n \in Nat
    BY <1>3 DEF Settled
<1>7. CASE n = 0 /\ run' = run /\ cross' = cross /\ window' = None
    <2>1. /\ run = [equity |-> One, position |-> Zero, trade |-> None, book |-> One,
                    fees |-> Zero, peak |-> One, alive |-> TRUE]
          /\ cross = [gross |-> One, closeFill |-> One, closePos |-> Zero,
                      base |-> None, turned |-> Zero]
          /\ ~past.exits
        BY <1>3, <1>7 DEF Untraded
    <2>2. ~past'.exits
        BY <1>2, <1>3, <2>1, MemoryLaws
    <2>3. Settled'
        BY <1>3, <1>5, <1>7 DEF Settled
    <2>4. Untraded'
        BY <1>1, <1>7, <2>1, <2>2 DEF Untraded
    <2>5. Booked' /\ Rebased'
        BY <1>7, <2>1, Constants DEF Booked, Rebased, Positive
    <2>6. Followed'
        <3>1. Move(b.open, b.close) = (b.close // b.open) -- One /\ b.close // b.open \in Rational
            BY Settings, MoveLaws, Quotient
        <3>2. One ** (One ++ (Zero ** Move(b.open, b.close))) = One
            BY <3>1, EarnsOnlyHeld, Constants
        <3> QED BY <1>1, <1>7, <2>1, <3>2 DEF Followed, Marked
    <2>7. AlwaysLong'
        <3>1. past'.long => target' = One /\ exit' = None
            BY <1>2, <1>3, <1>4, RoundLaws, Constants DEF Following
        <3> QED BY <1>1, <1>7, <3>1 DEF AlwaysLong
    <2> QED BY <1>4, <2>3, <2>4, <2>5, <2>6, <2>7 DEF Accounted
<1>8. CASE /\ n > 0 /\ run.alive /\ run' = Execute(b, f) /\ cross' = Checks(b, f)
           /\ \/ window # None /\ run'.alive /\ window' = InWindow(f, run')
              \/ window # None /\ ~run'.alive /\ window' = window
              \/ window = None /\ run'.alive /\ window' = Window(run')
              \/ window = None /\ window' = None
    <2>1. Booked' /\ Followed' /\ AlwaysLong'
        BY <1>1, <1>2, <1>3, <1>8, BookedKeeps, FollowedKeeps, AlwaysLongKeeps
    <2>2. (window' # None => window' \in Inside /\ window'.base # Zero) /\ Rebased'
        <3>1. CASE window # None /\ run'.alive /\ window' = InWindow(f, run')
            BY <1>3, <1>8, <3>1, WindowFollows
        <3>2. CASE window # None /\ ~run'.alive /\ window' = window
            BY <1>3, <3>2 DEF Settled, Rebased
        <3>3. CASE window = None /\ run'.alive /\ window' = Window(run')
            BY <1>1, <1>3, <1>8, <3>3, WindowOpens
        <3>4. CASE window = None /\ window' = None
            BY <3>4 DEF Rebased
        <3> QED BY <1>8, <3>1, <3>2, <3>3, <3>4
    <2>3. run' \in Runs /\ Abs(run'.position) \preceq One /\ Positive(run'.peak) /\ cross' \in Crosses
        <3>1. run' \in Runs /\ run'.position = f.to /\ run'.peak = Peak /\ cross' \in Crosses
            BY <1>3, <1>8, ExecuteLaws, ChecksLaws
        <3> QED BY <1>3, <1>8, <3>1, FillLaws, EffectiveLaws
    <2>4. Settled'
        BY <1>5, <2>2, <2>3 DEF Settled
    <2>5. Untraded'
        BY <1>1, <1>6, <1>8 DEF Untraded
    <2> QED BY <1>4, <2>1, <2>2, <2>4, <2>5 DEF Accounted
<1>9. CASE /\ n > 0 /\ ~run.alive /\ run' = [run EXCEPT !.equity = Zero, !.position = Zero]
           /\ cross' = cross /\ window' = window
    <2>1. run \in Runs
        BY <1>3 DEF Settled
    <2>2. /\ run' \in Runs /\ run'.position = Zero /\ run'.peak = run.peak /\ ~run'.alive
        BY <1>9, <2>1, Constants DEF Runs
    <2>3. Abs(Zero) \preceq One
        <3>1. Zero[1] <= Zero[2] /\ -Zero[1] <= Zero[2]
            BY Constants
        <3> QED BY <3>1, WithinOne, Constants
    <2>4. Settled'
        BY <1>3, <1>5, <1>9, <2>2, <2>3 DEF Settled
    <2>5. Untraded'
        BY <1>1, <1>6, <1>9 DEF Untraded
    <2>6. Booked' /\ Rebased' /\ Followed'
        BY <2>2 DEF Booked, Rebased, Followed
    <2>7. AlwaysLong'
        BY <1>1, <1>2, <1>3, <1>9, AlwaysLongKeeps
    <2> QED BY <1>4, <2>4, <2>5, <2>6, <2>7 DEF Accounted
<1> QED BY <1>7, <1>8, <1>9, Reading

LEMMA AccountedKeeps == Accounted /\ [Next]_vars => Accounted'
<1> SUFFICES ASSUME Accounted, [Next]_vars PROVE Accounted'
    OBVIOUS
<1>1. CASE UNCHANGED vars
    BY <1>1 DEF vars, Accounted, Settled, Following, Waiting, Untraded, Booked, Rebased,
                Followed, AlwaysLong, Marked
<1>2. CASE Next
    BY <1>2, ReadKeeps DEF Next
<1> QED BY <1>1, <1>2

\* The accounts of the run, of its window and of the runs beside it agree in
\* every reachable state.
THEOREM RunIsAccounted == Spec => []Accounted
BY Initially, AccountedKeeps, PTL DEF Spec

-----------------------------------------------------------------------------
(* The promises that follow *)

\* Compounding the trades reproduces the equity curve, wherever the series ends:
\* with any strategy, resizing, flipping, levels and overlay (the identity
\* bookkeeping_warning reports a breach of).
THEOREM BookAlwaysReproduces == Spec => []BookReproducesCurve
<1>1. Accounted => BookReproducesCurve
    <2> SUFFICES ASSUME Accounted, n > 0, run.alive
                 PROVE  Closed(run.book, run.trade.basis) = Marked
        BY DEF BookReproducesCurve, Read1
    <2>1. /\ run.equity \in Rational /\ run.position \in Rational /\ run.book \in Rational
          /\ bar \in Bars
        BY DEF Accounted, Settled, Runs
    <2>2. bar.open \in Rational /\ bar.open # Zero /\ bar.close \in Rational
        BY <2>1, Settings
    <2>3. Marked \in Rational
        BY <2>1, <2>2, GrowthType DEF Marked
    <2>4. CASE run.trade = None
        <3>1. run.position = Zero /\ run.book = run.equity
            BY <2>4 DEF Accounted, Booked
        <3>2. Move(bar.open, bar.close) = (bar.close // bar.open) -- One
              /\ bar.close // bar.open \in Rational
            BY <2>2, MoveLaws, Quotient
        <3>3. Marked = run.equity
            BY <2>1, <3>1, <3>2, EarnsOnlyHeld DEF Marked
        <3> QED BY <2>1, <2>4, <3>1, <3>3, Neutral DEF Closed
    <2>5. CASE run.trade # None
        <3> DEFINE basis == run.trade.basis
                   y == Marked // basis
        <3>1. run.book = basis /\ basis # Zero /\ basis \in Rational
            BY <2>5 DEF Accounted, Booked, Settled, Runs, Leg
        <3>2. y \in Rational /\ y ** basis = Marked
            BY <2>3, <3>1, Quotient
        <3>3. Closed(run.book, basis) = basis ** y
            BY <2>5, <3>1 DEF Closed
        <3> HIDE DEF y
        <3> QED BY <3>1, <3>2, <3>3, ProductCommutes
    <2> QED BY <2>4, <2>5
<1> QED BY <1>1, RunIsAccounted, PTL

\* What is shown of a window agrees with the whole run: its trades compound to
\* the rebased curve unless one was entered from flat on its first bar, and the
\* commissions recovered for it are those that were paid in it.
THEOREM WindowsAlwaysAgree == Spec => []WindowAgrees
<1>1. Accounted => WindowFeesArePaid
    BY DEF Accounted, Rebased, WindowFeesArePaid
<1>2. Accounted => WindowBookReproduces
    <2> SUFFICES ASSUME Accounted, window # None, run.alive, ~window.entered
                 PROVE  Closed(window.book, Basis(window)) = Marked // window.base
        BY DEF WindowBookReproduces
    <2> DEFINE base == window.base
    <2>1. /\ run.equity \in Rational /\ run.position \in Rational /\ base \in Rational
          /\ base # Zero /\ window.book \in Rational /\ window.carried \in BOOLEAN
        BY DEF Accounted, Settled, Runs, Inside
    <2>2. n > 0
        BY DEF Accounted, Settled, Untraded
    <2>3. bar.open \in Rational /\ bar.open # Zero /\ bar.close \in Rational
        BY <2>2, Settings DEF Accounted, Settled
    <2>4. Marked \in Rational
        BY <2>1, <2>3, GrowthType DEF Marked
    <2>5. IF run.trade = None THEN ~window.carried /\ window.book = run.equity // base
          ELSE window.book = IF window.carried THEN One ELSE run.trade.basis // base
        BY DEF Accounted, Rebased
    <2>6. CASE run.trade = None
        <3>1. run.position = Zero
            BY <2>6 DEF Accounted, Booked
        <3>2. Move(bar.open, bar.close) = (bar.close // bar.open) -- One
              /\ bar.close // bar.open \in Rational
            BY <2>3, MoveLaws, Quotient
        <3>3. Marked = run.equity
            BY <2>1, <3>1, <3>2, EarnsOnlyHeld DEF Marked
        <3> QED BY <2>1, <2>5, <2>6, <3>3, Neutral DEF Closed
    <2>7. CASE run.trade # None
        <3> DEFINE basis == Basis(window)
        <3>1. Closed(window.book, basis) = window.book ** (Marked // basis)
            BY <2>7 DEF Closed
        <3>2. CASE window.carried
            <4>1. basis = base /\ window.book = One
                BY <2>5, <2>7, <3>2 DEF Basis
            <4> QED BY <2>1, <2>4, <3>1, <4>1, Quotient, Neutral
        <3>3. CASE ~window.carried
            <4>1. /\ basis = run.trade.basis /\ window.book = basis // base
                  /\ basis \in Rational /\ basis # Zero
                BY <2>5, <2>7, <3>3 DEF Basis, Accounted, Booked, Settled, Runs, Leg
            <4> HIDE DEF basis
            <4> QED BY <2>1, <2>4, <3>1, <4>1, QuotientChain DEF basis
        <3> QED BY <2>1, <3>2, <3>3
    <2> QED BY <2>6, <2>7
<1> QED BY <1>1, <1>2, RunIsAccounted, PTL DEF WindowAgrees

\* The overlays a recovering account can come back from: DrawdownScale calls a
\* floor of zero a trap, and accepts it.
FloorsArePositive == \A r \in Rules : r.scale # None => Positive(r.scale.floor)

Held == exit # None /\ run.alive => target = Zero /\ Sign(run.position) = past.held.side

LEMMA HeldKeeps ==
    ASSUME FloorsArePositive, Accounted, NEW b \in Bars, Read(b, Fill(b))
    PROVE  Held'
<1> SUFFICES ASSUME exit' # None, run'.alive
             PROVE  target' = Zero /\ Sign(run'.position) = past'.held.side
    BY DEF Held
<1>1. PICK want \in Wants : Decided(b, want, Decide(b, want))
    BY Reading
<1>2. Settled /\ Following /\ Booked /\ Untraded
    BY DEF Accounted
<1>3. /\ target' = Zero /\ stop.side # 0 /\ past'.held = stop
    BY <1>1, <1>2, RoundLaws DEF Following
<1>4. n > 0
    BY <1>2, <1>3 DEF Untraded, Settled
<1>5. run.alive /\ run' = Execute(b, Fill(b))
    <2>1. run' = [run EXCEPT !.equity = Zero, !.position = Zero] => run'.alive = run.alive
        BY <1>2 DEF Settled, Runs
    <2>2. \/ n = 0
          \/ run.alive /\ run' = Execute(b, Fill(b))
          \/ ~run.alive /\ run' = [run EXCEPT !.equity = Zero, !.position = Zero]
        BY Reading, Zenon
    <2>3. n # 0
        BY <1>4, <1>2 DEF Settled
    <2> QED BY <2>1, <2>2, <2>3, Zenon
<1>6. run'.position = Effective
    BY <1>2, <1>4, <1>5, ExecuteLaws, FillLaws
<1>7. Sign(Effective) = Sign(target)
    <2>1. rule \in Rules
        BY <1>2 DEF Settled
    <2> QED BY <1>2, <2>1, EffectiveLaws DEF FloorsArePositive
<1> QED BY <1>2, <1>3, <1>6, <1>7 DEF Following

\* Ranges that hold their open: a bar that opens outside its own range fills there.
OpensInRange == \A b \in Bars : b.low \preceq b.open /\ b.open \preceq b.high

LEMMA PessimisticKeeps ==
    ASSUME OpensInRange, Accounted, NEW b \in Bars, Read(b, Fill(b))
    PROVE  FillIsPessimistic'
<1> SUFFICES ASSUME exit' # None
             PROVE  FillIsPessimistic'
    BY DEF FillIsPessimistic
<1>1. PICK want \in Wants : Decided(b, want, Decide(b, want))
    BY Reading
<1>2. Settled /\ Following /\ rule' = rule /\ bar' = b
    BY Reading DEF Accounted
<1>3. /\ past'.held = stop
      /\ exit' = LevelHit(b, stop.side > 0, stop.reference, stop.best)
    BY <1>1, <1>2, RoundLaws
<1>4. /\ rule \in Rules /\ stop.reference \in Rational /\ stop.best \in Rational
      /\ stop.side \in Int /\ b.low \preceq b.open /\ b.open \preceq b.high
    BY <1>2 DEF Settled, Following, Stops, OpensInRange
<1>5. CASE stop.side > 0
    <2> DEFINE lost == stop.reference ** (One -- rule.loss)
    <2>1. exit' = LevelHit(b, TRUE, stop.reference, stop.best)
        BY <1>3, <1>5
    <2>2. /\ exit' \preceq b.high
          /\ rule.loss # Zero /\ b.low \preceq lost => exit' \preceq lost
        BY <1>4, <2>1, LongLevel
    <2> QED BY <1>2, <1>3, <1>5, <2>2 DEF FillIsPessimistic
<1>6. CASE ~(stop.side > 0)
    <2> DEFINE lost == stop.reference ** (One ++ rule.loss)
    <2>1. (stop.side > 0) = FALSE
        BY <1>6
    <2>2. exit' = LevelHit(b, FALSE, stop.reference, stop.best)
        BY <1>3, <2>1
    <2>3. /\ b.low \preceq exit'
          /\ rule.loss # Zero /\ lost \preceq b.high => lost \preceq exit'
        BY <1>4, <2>2, ShortLevel
    <2> QED BY <1>2, <1>3, <1>6, <2>3 DEF FillIsPessimistic
<1> QED BY <1>5, <1>6

\* A fill inside a bar is never better than that bar, nor than a stop in reach.
THEOREM FillsArePessimistic == OpensInRange => (Spec => []FillIsPessimistic)
<1> SUFFICES ASSUME OpensInRange PROVE Spec => []FillIsPessimistic
    OBVIOUS
<1>1. Init => FillIsPessimistic
    BY DEF Init, FillIsPessimistic
<1>2. Accounted /\ FillIsPessimistic /\ [Next]_vars => FillIsPessimistic'
    <2> SUFFICES ASSUME Accounted, FillIsPessimistic, [Next]_vars PROVE FillIsPessimistic'
        OBVIOUS
    <2>1. CASE UNCHANGED vars
        BY <2>1 DEF vars, FillIsPessimistic
    <2>2. CASE Next
        BY <2>2, PessimisticKeeps DEF Next
    <2> QED BY <2>1, <2>2
<1> QED BY <1>1, <1>2, RunIsAccounted, PTL DEF Spec

\* A level is touched only while the engine holds what the stops think it holds,
\* and the strategy is flat from there.
THEOREM LevelsAreAlwaysHeld == FloorsArePositive => (Spec => []LevelsAreHeld)
<1> SUFFICES ASSUME FloorsArePositive PROVE Spec => []LevelsAreHeld
    OBVIOUS
<1>1. Init => Held
    BY DEF Init, Held
<1>2. Accounted /\ Held /\ [Next]_vars => Held'
    <2> SUFFICES ASSUME Accounted, Held, [Next]_vars PROVE Held'
        OBVIOUS
    <2>1. CASE UNCHANGED vars
        BY <2>1 DEF vars, Held
    <2>2. CASE Next
        BY <2>2, HeldKeeps DEF Next
    <2> QED BY <2>1, <2>2
<1>3. Held => LevelsAreHeld
    BY DEF Held, LevelsAreHeld
<1> QED BY <1>1, <1>2, <1>3, RunIsAccounted, PTL DEF Spec

\* For cooldown bars after a level or a close exit the strategy stays flat.
THEOREM CooldownIsAlwaysKept == Spec => CooldownKept
<1>1. Accounted /\ [Next]_vars => [past.quiet > 0 => target' = Zero]_vars
    <2> SUFFICES ASSUME Accounted, NEW b \in Bars, Read(b, Fill(b))
                 PROVE  past.quiet > 0 => target' = Zero
        BY DEF Next
    <2>1. PICK want \in Wants : Decided(b, want, Decide(b, want))
        BY Reading
    <2>2. n' = n + 1 /\ rule' = rule /\ Settled /\ Following /\ Waiting
        BY Reading DEF Accounted
    <2> QED BY <2>1, <2>2, QuietLaws
<1> QED BY <1>1, RunIsAccounted, PTL DEF Spec, CooldownKept

\* Together: the levels hold, fill pessimistically, and keep the strategy out.
THEOREM StopsAlwaysKeepOut ==
    FloorsArePositive /\ OpensInRange => (Spec => StopsKeepOut)
BY FillsArePessimistic, LevelsAreAlwaysHeld, CooldownIsAlwaysKept DEF StopsKeepOut

-----------------------------------------------------------------------------
(* The cross-checks *)

\* An exposure on the grid is a whole number of units, which Keep counts.
LEMMA GridUnits ==
    ASSUME NEW x \in Rational
    PROVE  OnGrid(x) => \E m \in Int : x[1] * Unit = m * x[2] /\ (x[1] * Unit) \div x[2] = m
<1> DEFINE p == x[1] * Unit
           q == x[2]
<1>1. p \in Int /\ q \in Int /\ q > 0
    BY Terms, Settings
<1> HIDE DEF p, q
<1>2. p % q = 0 => p = (p \div q) * q /\ p \div q \in Int
    BY <1>1
<1> QED BY <1>2 DEF OnGrid, p, q

LEMMA UnitsOf ==
    ASSUME NEW p \in Int, NEW q \in Whole, NEW m \in Int, p * Unit = m * q
    PROVE  LET x == Lowest(p, q) IN OnGrid(x) /\ (x[1] * Unit) \div x[2] = m
<1> DEFINE x == Lowest(p, q)
           u1 == x[1]
           u2 == x[2]
<1>1. u1 \in Int /\ u2 \in Int /\ u2 > 0 /\ q \in Int /\ q > 0 /\ u1 * q = p * u2 /\ Unit \in Int
    BY LowestReduces, Settings DEF Whole
<1> HIDE DEF x, u1, u2
<1> DEFINE l == u1 * Unit
           r == m * u2
<1>2. q * l = q * r /\ l \in Int /\ r \in Int
    <2>1. q * l = (u1 * q) * Unit /\ (p * u2) * Unit = (p * Unit) * u2
          /\ (m * q) * u2 = q * r
        BY <1>1
    <2> QED BY <1>1, <2>1
<1> HIDE DEF l, r
<1>3. l = r
    BY <1>1, <1>2, Cancels
<1>4. (m * u2) % u2 = 0 /\ (m * u2) \div u2 = m
    BY <1>1
<1> QED BY <1>3, <1>4 DEF OnGrid, l, r, u1, u2, x

\* What two turnovers leave, one after the other, is what their sum leaves.
LEMMA KeepOfSum ==
    ASSUME NEW a \in Rational, NEW b \in Rational, OnGrid(a), OnGrid(b), a[1] >= 0, b[1] >= 0
    PROVE  /\ OnGrid(a ++ b) /\ (a ++ b)[1] >= 0
           /\ Keep(a ++ b) = Keep(a) ** Keep(b)
<1> DEFINE a1 == a[1]  a2 == a[2]  b1 == b[1]  b2 == b[2]
           p == a1 * b2 + b1 * a2
           q == a2 * b2
<1>1. /\ a1 \in Int /\ a2 \in Whole /\ a2 \in Int /\ a2 > 0 /\ a1 >= 0
      /\ b1 \in Int /\ b2 \in Whole /\ b2 \in Int /\ b2 > 0 /\ b1 >= 0 /\ Unit \in Int
      /\ Unit > 0
    BY Terms, Settings
<1>2. PICK m \in Int : a1 * Unit = m * a2 /\ (a1 * Unit) \div a2 = m
    BY GridUnits
<1>3. PICK k \in Int : b1 * Unit = k * b2 /\ (b1 * Unit) \div b2 = k
    BY GridUnits
<1>4. a ++ b = Lowest(p, q)
    BY SumType
<1>5. Keep(a) = Power(KeepOfUnit, m) /\ Keep(b) = Power(KeepOfUnit, k)
    BY <1>2, <1>3 DEF Keep
<1> HIDE DEF a1, a2, b1, b2
<1>6. p \in Int /\ q \in Whole /\ p >= 0
    <2>1. a1 * b2 >= 0 /\ b1 * a2 >= 0 /\ a1 * b2 \in Int /\ b1 * a2 \in Int
        BY <1>1
    <2>2. q \in Whole
        BY <1>1, WholeProduct
    <2>3. \A x, y \in Int : x >= 0 /\ y >= 0 => x + y \in Int /\ x + y >= 0
        OBVIOUS
    <2>4. p \in Int /\ p >= 0
        BY <2>1, <2>3
    <2> QED BY <2>2, <2>4
<1>7. p * Unit = (m + k) * q
    <2>1. p * Unit = (a1 * Unit) * b2 + (b1 * Unit) * a2
        BY <1>1
    <2>2. (m + k) * q = (m * a2) * b2 + (k * b2) * a2
        BY <1>1
    <2> QED BY <1>2, <1>3, <2>1, <2>2
<1>8. m >= 0 /\ k >= 0
    <2>1. a1 * Unit >= 0 /\ b1 * Unit >= 0
        BY <1>1
    <2>2. \A x, y \in Int : y > 0 /\ x * y >= 0 => x >= 0
        OBVIOUS
    <2> QED BY <1>1, <1>2, <1>3, <2>1, <2>2
<1> HIDE DEF p, q
<1>9. OnGrid(a ++ b) /\ ((a ++ b)[1] * Unit) \div (a ++ b)[2] = m + k
    BY <1>4, <1>6, <1>7, UnitsOf
<1>10. (a ++ b)[1] >= 0
    <2>1. ~(Lowest(p, q)[1] < 0) /\ Lowest(p, q)[1] \in Int
        BY <1>6, LowestSign, LowestReduces
    <2> QED BY <1>4, <2>1
<1>11. Keep(a ++ b) = Power(KeepOfUnit, m + k)
    BY <1>9 DEF Keep
<1>12. Power(KeepOfUnit, m + k) = Power(KeepOfUnit, m) ** Power(KeepOfUnit, k)
    BY <1>8, Settings, PowerOfSum
<1> QED BY <1>5, <1>9, <1>10, <1>11, <1>12

\* The turnover between exposures on the grid is on it.
LEMMA GridTurnover ==
    ASSUME NEW a \in Rational, NEW b \in Rational, OnGrid(a), OnGrid(b)
    PROVE  OnGrid(Turnover(a, b))
<1> DEFINE a1 == a[1]  a2 == a[2]  b1 == b[1]  b2 == b[2]
           p == b1 * a2 + (-a1) * b2
           q == b2 * a2
           d == b -- a
<1>1. /\ a1 \in Int /\ a2 \in Whole /\ a2 \in Int /\ a2 > 0 /\ -a1 \in Int
      /\ b1 \in Int /\ b2 \in Whole /\ b2 \in Int /\ b2 > 0 /\ Unit \in Int
      /\ b = <<b1, b2>>
    BY Terms, Settings
<1>2. PICK m \in Int : a1 * Unit = m * a2
    BY GridUnits
<1>3. PICK k \in Int : b1 * Unit = k * b2
    BY GridUnits
<1>4. d = <<b1, b2>> ++ <<-a1, a2>>
    BY <1>1 DEF --
<1> HIDE DEF a1, a2, b1, b2
<1>5. d = Lowest(p, q)
    BY <1>1, <1>4, SumOfTerms
<1>6. p \in Int /\ q \in Whole
    BY <1>1, WholeProduct
<1>7. p * Unit = (k - m) * q
    <2>1. p * Unit = (b1 * Unit) * a2 - (a1 * Unit) * b2
        BY <1>1
    <2>2. (k - m) * q = (k * b2) * a2 - (m * a2) * b2
        BY <1>1
    <2> QED BY <1>2, <1>3, <2>1, <2>2
<1> HIDE DEF p, q
<1>8. OnGrid(d) /\ d \in Rational
    BY <1>5, <1>6, <1>7, UnitsOf, LowestIsRational
<1> HIDE DEF d
<1>9. OnGrid(Abs(d))
    <2>1. PICK j \in Int : d[1] * Unit = j * d[2]
        BY <1>8, GridUnits
    <2>2. d[1] \in Int /\ d[2] \in Int /\ d[2] > 0
        BY <1>8, Terms
    <2>3. (-d[1]) * Unit = (-j) * d[2]
        BY <1>1, <2>1, <2>2
    <2>4. \A i \in Int, x \in Int : x > 0 => (i * x) % x = 0
        OBVIOUS
    <2>5. ((-d[1]) * Unit) % d[2] = 0
        BY <2>2, <2>3, <2>4
    <2> QED BY <1>8, <2>5 DEF Abs, OnGrid
<1> QED BY <1>9 DEF Turnover, d

LEMMA OnTheGrid ==
    /\ OnGrid(Zero)
    /\ \A want \in Wants : \A t \in {want, Zero} : OnGrid(t)
<1>1. (0 * Unit) % 1 = 0
    BY Settings
<1>2. OnGrid(Zero)
    BY <1>1, Constants DEF OnGrid
<1> QED BY <1>2, Settings

\* A bar that is traded adds its turnover to what the zero-cost run forgoes.
LEMMA CostsAdded ==
    ASSUME Settled, Following, Charged, run.alive, n > 0, ~past.exits,
           ~(run.position # Zero /\ exit # None), NEW b \in Bars,
           OnGrid(run.position), OnGrid(Effective)
    PROVE  LET f == Fill(b)
               c == Checks(b, f)
           IN  f.after = c.gross ** Keep(c.turned)
<1> DEFINE f == Fill(b)
           c == Checks(b, f)
           g == One ++ (run.position ** Move(bar.open, b.open))
           gross == cross.gross
           turned == cross.turned
           paid == Keep(turned)
           due == Keep(f.turn)
<1>1. /\ run.position \in Rational /\ gross \in Rational /\ turned \in Rational
      /\ bar \in Bars
    BY DEF Settled, Runs, Crosses
<1>2. turned[1] >= 0 /\ OnGrid(turned) /\ run.equity = gross ** paid
    BY DEF Charged
<1>3. g \in Rational
    BY <1>1, Settings, GrowthType
<1>4. /\ f.to = Effective /\ f.to \in Rational /\ f.turn = Turnover(run.position, f.to)
      /\ f.turn \in Rational /\ f.turn[1] >= 0
      /\ f.before = run.equity ** (One ++ (run.position ** Move(bar.open, Mark(b))))
      /\ f.after = f.before ** due
    BY FillLaws DEF BeforeCosts
<1>5. Mark(b) = b.open
    BY DEF Mark
<1>6. OnGrid(f.turn)
    BY <1>1, <1>4, GridTurnover
<1>7. c.gross = gross ** g /\ c.turned = turned ++ f.turn
    BY ChecksLaws, Zenon
<1>8. f.after = ((gross ** paid) ** g) ** due
    BY <1>2, <1>4, <1>5
<1>9. Keep(c.turned) = paid ** due
    BY <1>1, <1>2, <1>4, <1>6, <1>7, KeepOfSum
<1>10. paid \in Rational /\ due \in Rational
    BY <1>1, <1>2, <1>4, KeepLaws
<1> HIDE DEF g, gross, turned, paid, due, f, c
<1>11. /\ (gross ** paid) ** g = (gross ** g) ** paid
       /\ ((gross ** g) ** paid) ** due = (gross ** g) ** (paid ** due)
    <2>1. gross ** g \in Rational
        BY <1>1, <1>3, ProductType
    <2> QED BY <1>1, <1>3, <1>10, <2>1, SwapFactors, ProductAssociates
<1>12. f.after = c.gross ** Keep(c.turned)
    BY <1>7, <1>8, <1>9, <1>11
<1> QED BY <1>12, Zenon DEF f, c

LEMMA ChargedKeeps ==
    ASSUME Accounted, Charged, ScaledOnGrid, ScaledOnGrid', [Next]_vars
    PROVE  Charged'
<1>1. CASE UNCHANGED vars
    BY <1>1 DEF vars, Charged
<1>2. ASSUME NEW b \in Bars, Read(b, Fill(b)) PROVE Charged'
    <2> DEFINE f == Fill(b)
               c == Checks(b, f)
    <2>1. Settled /\ Following /\ Untraded /\ Booked
        BY DEF Accounted
    <2>2. PICK want \in Wants : Decided(b, want, Decide(b, want))
        BY <1>2, Reading
    <2>3. OnGrid(target') /\ rule' = rule
        BY <1>2, <2>1, <2>2, Reading, RoundLaws, OnTheGrid
    <2>4. past'.exits <=> past.exits \/ (run.position # Zero /\ exit # None)
        BY <2>1, <2>2, MemoryLaws
    <2>5. CASE n = 0 /\ run' = run /\ cross' = cross
        BY <2>3, <2>4, <2>5 DEF Charged
    <2>6. CASE n > 0 /\ run.alive /\ run' = Execute(b, f) /\ cross' = c
        <3>1. run'.equity = f.after /\ run'.position = f.to /\ f.to = Effective
            BY <2>1, <2>6, ExecuteLaws, FillLaws
        <3>2. /\ run.position \in Rational /\ cross.turned \in Rational
              /\ f.turn = Turnover(run.position, f.to) /\ f.turn \in Rational
              /\ f.turn[1] >= 0 /\ f.to \in Rational
            BY <2>1, <2>6, FillLaws DEF Settled, Runs, Crosses
        <3>3. OnGrid(run.position) /\ OnGrid(f.to)
            <4>1. CASE rule.scale = None
                BY <2>1, <2>6, <3>1, <4>1, EffectiveLaws DEF Charged
            <4>2. CASE rule.scale # None
                BY <2>3, <3>1, <4>2 DEF ScaledOnGrid
            <4> QED BY <4>1, <4>2
        <3>4. c.turned = cross.turned ++ f.turn
            BY <2>1, <2>6, ChecksLaws
        <3>5. c.turned[1] >= 0 /\ OnGrid(c.turned)
            <4>1. cross.turned[1] >= 0 /\ OnGrid(cross.turned) /\ OnGrid(f.turn)
                BY <2>6, <3>2, <3>3, GridTurnover DEF Charged
            <4> QED BY <3>2, <3>4, <4>1, KeepOfSum
        <3>6. ~past'.exits => f.after = c.gross ** Keep(c.turned)
            BY <2>1, <2>4, <2>6, <3>1, <3>3, CostsAdded
        <3>7. cross' = c
            BY <2>6
        <3> HIDE DEF f, c
        <3> QED BY <2>3, <3>1, <3>3, <3>5, <3>6, <3>7 DEF Charged
    <2>7. CASE n > 0 /\ ~run.alive /\ run' = [run EXCEPT !.equity = Zero, !.position = Zero]
        <3>1. ~run'.alive
            BY <2>1, <2>7 DEF Settled, Runs
        <3> QED BY <3>1 DEF Charged
    <2> QED BY <1>2, <2>5, <2>6, <2>7, Reading
<1> QED BY <1>1, <1>2 DEF Next

LEMMA InitiallyCharged == Init => Charged
<1> SUFFICES ASSUME Init PROVE Charged
    OBVIOUS
<1>1. One ** Keep(Zero) = One /\ Zero[1] = 0
    BY KeepConstants, Neutral, Constants
<1> QED BY <1>1, OnTheGrid DEF Init, Charged

\* The run on the closes is the run as long as no bar opens away from the close
\* before it and no level is touched.
THEOREM CloseFillAlwaysFollows == Spec => []CloseFillDiffersByGaps
<1>1. Accounted => CloseFillDiffersByGaps
    BY DEF Accounted, Followed, CloseFillDiffersByGaps, Read1
<1> QED BY <1>1, RunIsAccounted, PTL

\* Buy and hold is the strategy that always wants everything, sold at the end.
THEOREM BenchmarkAlwaysAgrees == Spec => []BenchmarkIsAlwaysLong
<1>1. Accounted => BenchmarkIsAlwaysLong
    <2> SUFFICES ASSUME Accounted, n > 1, past.long, rule.scale = None
                 PROVE  Marked ** Keep(One)
                        = ((bar.close // cross.base) ** Keep(One)) ** Keep(One)
        BY DEF BenchmarkIsAlwaysLong
    <2> DEFINE k == Keep(One)
               base == cross.base
               open == bar.open
               close == bar.close
               entered == open // base
               held == close // open
    <2>1. /\ run.position = One /\ base \in Rational /\ base # Zero
          /\ run.equity = k ** entered /\ run.equity \in Rational
        BY DEF Accounted, AlwaysLong, Settled, Runs
    <2>2. open \in Rational /\ open # Zero /\ close \in Rational /\ k \in Rational
        <3>1. bar \in Bars
            BY DEF Accounted, Settled
        <3> QED BY <3>1, Settings, KeepConstants
    <2>3. entered \in Rational /\ held \in Rational
        BY <2>1, <2>2, Quotient
    <2>4. Marked = run.equity ** held
        <3>1. Move(open, close) = held -- One
            BY <2>2, MoveLaws
        <3> QED BY <2>1, <2>3, <3>1, EarnsOnlyHeld DEF Marked
    <2>5. entered ** held = close // base
        BY <2>1, <2>2, QuotientChain
    <2> HIDE DEF k, base, open, close, entered, held
    <2>6. (k ** entered) ** held = k ** (entered ** held)
        BY <2>2, <2>3, ProductAssociates
    <2>7. k ** (entered ** held) = (entered ** held) ** k
        <3>1. entered ** held \in Rational
            BY <2>3, ProductType
        <3> QED BY <2>2, <3>1, ProductCommutes
    <2>8. Marked ** k = ((close // base) ** k) ** k
        BY <2>1, <2>4, <2>5, <2>6, <2>7
    <2> QED BY <2>8 DEF k, close, base
<1> QED BY <1>1, RunIsAccounted, PTL

LEMMA Typed == Accounted => TypeOK
<1> SUFFICES ASSUME Accounted PROVE TypeOK
    OBVIOUS
<1>1. Settled /\ Following /\ Waiting
    BY DEF Accounted
<1>2. run.peak \in Rational /\ run.alive \in BOOLEAN /\ stop.side \in {-1, 0, 1}
    BY <1>1 DEF Settled, Following, Runs, Stops
<1>3. Zero \preceq run.peak
    <2> DEFINE peak == run.peak
    <2>1. peak \in Rational /\ peak[1] > 0
        BY <1>1, <1>2 DEF Settled, Positive
    <2> HIDE DEF peak
    <2>2. peak[1] \in Int /\ (Zero \preceq peak <=> peak[1] >= 0)
        BY <2>1, Signs
    <2> QED BY <2>1, <2>2 DEF peak
<1> QED BY <1>1, <1>2, <1>3 DEF TypeOK, Settled, Following, Waiting

\* The three runs printed beside the result differ from it by what their names
\* say, as long as what is executed is a whole number of units.
THEOREM CrossChecksAlwaysAgree == Spec /\ []ScaledOnGrid => []CrossChecksAgree
<1>1. Charged => GrossDiffersByCosts
    BY DEF Charged, GrossDiffersByCosts
<1> QED BY <1>1, InitiallyCharged, ChargedKeeps, Typed, RunIsAccounted,
           CloseFillAlwaysFollows, BenchmarkAlwaysAgrees, PTL DEF Spec, CrossChecksAgree

\* Without an overlay they do: a strategy's exposures are units, and nothing else
\* is executed.
THEOREM CrossChecksAgreeUnscaled ==
    (\A r \in Rules : r.scale = None) => (Spec => []CrossChecksAgree)
<1> SUFFICES ASSUME \A r \in Rules : r.scale = None
             PROVE  Spec => []CrossChecksAgree
    OBVIOUS
<1>1. Accounted => ScaledOnGrid
    BY DEF Accounted, Settled, ScaledOnGrid
<1> QED BY <1>1, RunIsAccounted, CrossChecksAlwaysAgree, PTL

=============================================================================
