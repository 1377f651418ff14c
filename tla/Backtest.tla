------------------------------- MODULE Backtest -------------------------------
(***************************************************************************)
(* engine.run_backtest and strategies.stops, bar by bar.  A step reads one *)
(* more bar: the engine executes at its open what was decided on the bar   *)
(* before, and the stops then decide on the bar itself.  Beside the run go *)
(* the things computed from it: the zero-cost and the close-fill           *)
(* cross-checks, buy and hold, and engine.restrict of a window that opened *)
(* on some bar.  Amounts are exact.                                        *)
(***************************************************************************)
EXTENDS Ratio

CONSTANTS
    Bars,       \* the bars a series is made of: [open, low, high, close]
    Wants,      \* exposures the inner strategy asks for
    Rules,      \* settings of the run, see Rule
    Unit,       \* exposures are multiples of 1 / Unit
    KeepOfUnit, \* what one unit of turnover leaves: 1 - rate to the 1 / Unit
    MaxBars,    \* bound on the length of the series
    None

\* A bar of positive prices.  Its range may fail to hold them: KuCoin serves such
\* bars, and the archive keeps them.
IsCandle(b) ==
    /\ b \in [open : Rational, low : Rational, high : Rational, close : Rational]
    /\ Positive(b.open) /\ Positive(b.close)

\* A DrawdownScale its constructor accepts.
IsScale(s) ==
    /\ s.start \in Rational /\ s.full \in Rational /\ s.floor \in Rational
    /\ Zero \preceq s.start /\ s.start \prec s.full /\ s.full \preceq One
    /\ Zero \preceq s.floor /\ s.floor \preceq One

\* A rule: the levels (Zero is off) and the cooldown of StopsStrategy, the
\* DrawdownScale of the run if it has one, and allow_short.
IsRule(r) ==
    /\ \A level \in {r.loss, r.profit, r.trail} : level \in Rational /\ Zero \preceq level
    /\ r.cooldown \in Nat
    /\ r.scale # None => IsScale(r.scale)

\* An open leg, and what engine.restrict keeps of a window.
Leg == [at : Nat, basis : Rational, price : Rational, side : {-1, 0, 1}, flat : BOOLEAN]
Inside == [base : Rational, book : Rational, fees : Rational, carried : BOOLEAN,
           entered : BOOLEAN, before : Rational]

\* An exposure the turnover of which Keep can charge exactly.
OnGrid(x) == (x[1] * Unit) % x[2] = 0

ASSUME BacktestAssumption ==
    /\ Unit \in Nat \ {0} /\ MaxBars \in Nat
    /\ KeepOfUnit \in Rational /\ Positive(KeepOfUnit) /\ KeepOfUnit \preceq One
    /\ \A b \in Bars : IsCandle(b)
    /\ \A r \in Rules : IsRule(r)
    /\ \A want \in Wants : want \in Rational /\ Abs(want) \preceq One /\ OnGrid(want)
    /\ None \notin Rational \cup Leg \cup Inside

VARIABLES
    rule,   \* the settings of this run
    n,      \* bars read
    bar,    \* the newest of them
    stop,   \* StopsStrategy._walk: side, reference, best, blocked
    target, \* what it decided on the newest bar
    exit,   \* the price a level was touched at inside the newest bar
    run,    \* the engine: equity, position, trade, book, fees, peak, alive
    cross,  \* gross equity, close-fill equity, turnover, first fill price
    window, \* engine.restrict: the window, or None before it opens
    past    \* history for the properties

vars == <<rule, n, bar, stop, target, exit, run, cross, window, past>>

Move(from, to) == (to // from) -- One
Turnover(before, after) == Abs(after -- before)

\* (1 - rate) ** turn, and rate.
Keep(turn) == Power(KeepOfUnit, (turn[1] * Unit) \div turn[2])
Rate == One -- Power(KeepOfUnit, Unit)

Init ==
    /\ rule \in Rules
    /\ n = 0
    /\ bar = None
    /\ stop = [side |-> 0, reference |-> Zero, best |-> Zero, blocked |-> -1]
    /\ target = Zero
    /\ exit = None
    /\ run = [equity |-> One, position |-> Zero, trade |-> None, book |-> One,
              fees |-> Zero, peak |-> One, alive |-> TRUE]
    /\ cross = [gross |-> One, closeFill |-> One, closePos |-> Zero,
                base |-> None, turned |-> Zero]
    /\ window = None
    /\ past = [exits |-> FALSE, gaps |-> FALSE, long |-> TRUE, quiet |-> 0,
               held |-> None]

-----------------------------------------------------------------------------
(* StopsStrategy *)

Opposite(x) == Zero -- x
Sign(x) == IF x[1] > 0 THEN 1 ELSE IF x[1] < 0 THEN -1 ELSE 0

\* (mutated form: a gap through the stop fills at the level too)
WorseIsLevel(level, b, long) == level
Worse(level, b, long) == IF long THEN Least(level, b.open) ELSE Greatest(level, b.open)

\* _level_hit: the stop, then the profit, then the trailing level.  A gap
\* through a stop fills at the open, a gap through the profit at the level.
LevelHit(b, long, reference, best) ==
    LET away(from, part) == from ** (IF long THEN One -- part ELSE One ++ part)
        gain == reference ** (IF long THEN One ++ rule.profit ELSE One -- rule.profit)
        reached(level) == IF long THEN b.low \preceq level ELSE level \preceq b.high
        lost == away(reference, rule.loss)
        trailed == away(best, rule.trail)
    IN  IF rule.loss # Zero /\ reached(lost) THEN Worse(lost, b, long)
        ELSE IF rule.profit # Zero
                /\ (IF long THEN gain \preceq b.high ELSE b.low \preceq gain) THEN gain
        ELSE IF rule.trail # Zero /\ reached(trailed) THEN Worse(trailed, b, long)
        ELSE None

\* The close itself is beyond a level the range did not touch.
CloseHit(b, long, reference, best) ==
    LET moved == IF long THEN Move(reference, b.close)
                 ELSE Opposite(Move(reference, b.close))
        pullback == IF long THEN Move(best, b.close) ELSE One -- (b.close // best)
    IN  \/ rule.loss # Zero /\ moved \preceq Opposite(rule.loss)
        \/ rule.profit # Zero /\ rule.profit \preceq moved
        \/ rule.trail # Zero /\ pullback \preceq Opposite(rule.trail)

Flat(blocked) == [side |-> 0, reference |-> Zero, best |-> Zero, blocked |-> blocked]
\* (mutated form: every entry is taken for a long one)
EnteredLong(b, want) ==
    [side |-> 1, reference |-> b.close, best |-> b.close, blocked |-> stop.blocked]
Entered(b, want) ==
    [side |-> Sign(want), reference |-> b.close, best |-> b.close,
     blocked |-> stop.blocked]

\* (mutated form: the bar of the exit counts as cooldown)
CooledEarly == n + rule.cooldown
Cooled == n + 1 + rule.cooldown

\* One round of _walk: the wrapper's new state, its target and its exit.
Decide(b, want) ==
    LET long == stop.side > 0
        level == LevelHit(b, long, stop.reference, stop.best)
        best == IF long THEN Greatest(stop.best, b.close) ELSE Least(stop.best, b.close)
    IN  CASE stop.side = 0 /\ (want = Zero \/ n < stop.blocked) ->
               [state |-> stop, target |-> Zero, exit |-> None]
          [] stop.side = 0 /\ want # Zero /\ n >= stop.blocked ->
               [state |-> Entered(b, want), target |-> want, exit |-> None]
          [] stop.side # 0 /\ level # None ->
               [state |-> Flat(Cooled), target |-> Zero, exit |-> level]
          [] stop.side # 0 /\ level = None /\ want = Zero ->
               [state |-> Flat(stop.blocked), target |-> Zero, exit |-> None]
          [] stop.side # 0 /\ level = None /\ want # Zero /\ Sign(want) # stop.side ->
               [state |-> Entered(b, want), target |-> want, exit |-> None]
          [] OTHER ->
               IF CloseHit(b, long, stop.reference, best)
               THEN [state |-> Flat(Cooled), target |-> Zero, exit |-> None]
               ELSE [state |-> [stop EXCEPT !.best = best], target |-> want,
                     exit |-> None]

-----------------------------------------------------------------------------
(* The engine *)

\* (mutated form: the cut is turned round)
FactorRaised(equity, peak) ==
    IF peak \preceq equity THEN One ELSE One // rule.scale.floor

\* DrawdownScale.factor.
Factor(equity, peak) ==
    LET drawdown == One -- (equity // peak)
        scale == rule.scale
    IN  IF peak \preceq equity \/ drawdown \preceq scale.start THEN One
        ELSE IF scale.full \preceq drawdown THEN scale.floor
        ELSE One -- (((One -- scale.floor) ** (drawdown -- scale.start))
                     // (scale.full -- scale.start))

Peak == Greatest(run.peak, run.equity)
Effective == IF rule.scale = None THEN target ELSE target ** Factor(run.equity, Peak)

\* (mutated form: at the close, which nobody could trade at any more)
MarkAtClose(b) == bar.close

\* The price the exposure held since the bar before is marked at.
Mark(b) == IF run.position # Zero /\ exit # None THEN exit ELSE b.open
BeforeCosts(b) == run.equity ** (One ++ (run.position ** Move(bar.open, Mark(b))))

\* What is executed at the open of b, and the equity around it.
Fill(b) ==
    LET to == Effective
        before == BeforeCosts(b)
        turn == Turnover(run.position, to)
    IN  [to |-> to, turn |-> turn, before |-> before, after |-> before ** Keep(turn),
         cost |-> (Rate ** turn) ** before]

\* A leg ends when the exposure reaches zero or turns around.
Closes(f) == run.trade # None /\ (f.to = Zero \/ Sign(f.to) # Sign(run.position))
Opens(f) == f.to # Zero /\ (run.trade = None \/ Closes(f))

\* (mutated form: the leg starts after its commission)
EntryBasisAfter(f) == f.after

\* Just before its own commission from flat; on a flip where the last ended.
EntryBasis(f) == IF run.position = Zero THEN f.before ELSE f.after
Opened(b, f) == [at |-> n, basis |-> EntryBasis(f), price |-> b.open,
                 side |-> Sign(f.to), flat |-> run.position = Zero]

Execute(b, f) ==
    LET wiped == f.after \preceq Zero
        trade == IF Opens(f) THEN Opened(b, f) ELSE IF Closes(f) THEN None ELSE run.trade
    IN  [run EXCEPT
           !.equity = f.after, !.position = f.to, !.peak = Peak, !.alive = ~wiped,
           !.fees = @ ++ f.cost,
           !.trade = IF wiped THEN None ELSE trade,
           !.book = IF wiped THEN (IF run.trade = None THEN @ ELSE Zero)
                    ELSE IF Closes(f) THEN @ ** (f.after // run.trade.basis) ELSE @]

\* The bars after a wipe-out are not traded.
Engine(b, f) ==
    IF n = 0 THEN run
    ELSE IF run.alive THEN Execute(b, f)
    ELSE [run EXCEPT !.equity = Zero, !.position = Zero]

\* gross_equity, close_fill_final_equity and the price buy and hold enters at.
\* (mutated form: the close-fill run acts one bar late)
CloseFillLate(b, f) ==
    (cross.closeFill ** (One ++ (cross.closePos ** Move(bar.close, b.close))))
        ** Keep(Turnover(cross.closePos, f.to))
CloseFill(b, f) ==
    (cross.closeFill ** (One ++ (f.to ** Move(bar.close, b.close))))
        ** Keep(Turnover(cross.closePos, f.to))
\* (mutated form: at the first open of the series)
BaseFirst(b) == IF n = 1 THEN bar.open ELSE cross.base
Base(b) == IF n = 1 THEN b.open ELSE cross.base
Checks(b, f) ==
    IF n = 0 THEN cross
    ELSE [gross |-> cross.gross ** (One ++ (run.position ** Move(bar.open, b.open))),
          closeFill |-> CloseFill(b, f),
          closePos |-> f.to,
          base |-> Base(b),
          turned |-> cross.turned ++ f.turn]

\* fees_in_window: the commission of a bar, recovered from equity and turnover.
Recovered(e) ==
    LET turn == Turnover(run.position, e.position)
    IN  (Rate ** turn) ** (e.equity // Keep(turn))

\* (mutated form: the window's first bar is left out)
FirstFeesNone(e) == Zero
FirstFees(e) == Recovered(e)

\* restrict: a window whose first bar is this one, rebased there.  A trade
\* that is already open is carried in with a basis of 1.
Window(e) ==
    [base |-> e.equity, book |-> One, fees |-> FirstFees(e) // e.equity,
     carried |-> e.trade # None /\ e.trade.at < n,
     entered |-> e.trade # None /\ e.trade.at = n /\ e.trade.flat,
     before |-> run.fees]

\* What a trade's return is counted from: its own basis, or the window's
\* first bar when it was carried in.
\* (mutated form: never the window's)
BasisOwn(w) == run.trade.basis
Basis(w) == IF w.carried THEN w.base ELSE run.trade.basis
InWindow(f, e) ==
    LET w == window IN
    [w EXCEPT
      !.fees = @ ++ (Recovered(e) // w.base),
      !.book = IF Closes(f) THEN @ ** (f.after // Basis(w)) ELSE @,
      !.carried = @ /\ ~Closes(f)]

RestrictTo(f, e, opens) ==
    IF window # None THEN (IF e.alive THEN InWindow(f, e) ELSE window)
    ELSE IF opens THEN Window(e) ELSE None

\* Whether anything the cross-checks ignore has happened (history).
Remember(b, want, d) ==
    [exits |-> past.exits \/ (run.position # Zero /\ exit # None),
     gaps |-> past.gaps \/ (n > 0 /\ b.open # bar.close),
     long |-> past.long /\ d.target = One,
     quiet |-> IF stop.side # 0 /\ d.state.side = 0 /\ (d.exit # None \/ want # Zero)
               THEN rule.cooldown
               ELSE IF past.quiet > 0 THEN past.quiet - 1 ELSE 0,
     held |-> IF d.exit = None THEN None ELSE stop]

\* run_backtest refuses a short of a spot account before the first bar.
Accepts(want) == rule.short \/ Zero \preceq want

Decided(b, want, d) ==
    /\ Accepts(want)
    /\ stop' = d.state
    /\ target' = d.target
    /\ exit' = d.exit
    /\ past' = Remember(b, want, d)

Executed(b, f, e) ==
    /\ run' = e
    /\ cross' = IF run.alive THEN Checks(b, f) ELSE cross
    /\ \E opens \in BOOLEAN :
         /\ opens => n > 0 /\ window = None /\ e.alive
         /\ window' = RestrictTo(f, e, opens)

Read(b, f) ==
    /\ n < MaxBars
    /\ n' = n + 1
    /\ bar' = b
    /\ UNCHANGED rule
    /\ Executed(b, f, Engine(b, f))
    /\ \E want \in Wants : Decided(b, want, Decide(b, want))

Next == \E b \in Bars : Read(b, Fill(b))

Spec == Init /\ [][Next]_vars

-----------------------------------------------------------------------------
(* Properties *)

TypeOK ==
    /\ rule \in Rules /\ n \in 0 .. MaxBars
    /\ stop.side \in {-1, 0, 1}
    /\ Abs(target) \preceq One /\ Abs(run.position) \preceq One
    /\ Zero \preceq run.peak /\ run.alive \in BOOLEAN
    /\ past.quiet \in 0 .. rule.cooldown

Read1 == n > 0
Marked == run.equity ** (One ++ (run.position ** Move(bar.open, bar.close)))
Closed(book, basis) == book ** (IF run.trade = None THEN One ELSE Marked // basis)

\* Compounding the trades reproduces the equity curve, wherever the series
\* ends (bookkeeping_warning): resizing, flips, levels and the overlay too.
BookReproducesCurve ==
    Read1 /\ run.alive => Closed(run.book, run.trade.basis) = Marked

\* A level is touched only inside a bar on which the engine really holds the
\* side the stops think it holds, and the strategy is flat from there
\* (run_backtest: "The strategy's own targets must already be zero").
LevelsAreHeld ==
    exit # None /\ run.alive =>
        target = Zero /\ Sign(run.position) = past.held.side

\* The stops are read pessimistically: a fill is no better than the bar ever
\* traded, and when the stop was in reach it is no better than the stop.
FillIsPessimistic ==
    exit # None =>
        LET h == past.held IN
        IF h.side > 0
        THEN LET lost == h.reference ** (One -- rule.loss)
             IN  exit \preceq bar.high
                 /\ (rule.loss # Zero /\ bar.low \preceq lost => exit \preceq lost)
        ELSE LET lost == h.reference ** (One ++ rule.loss)
             IN  bar.low \preceq exit
                 /\ (rule.loss # Zero /\ lost \preceq bar.high => lost \preceq exit)

\* For cooldown bars after a level or close exit the strategy stays flat.
CooldownKept == [][past.quiet > 0 => target' = Zero]_vars

\* The zero-cost check differs from the run by its commissions alone, as long
\* as no level was touched.
GrossDiffersByCosts ==
    run.alive /\ ~past.exits => run.equity = cross.gross ** Keep(cross.turned)

\* Filling at the close is the same run when every bar opens where the last
\* one closed.
CloseFillDiffersByGaps ==
    Read1 /\ run.alive /\ ~past.gaps /\ ~past.exits => cross.closeFill = Marked

\* Buy and hold is the strategy that always wants 1, sold at the end: it
\* enters at the first price a strategy can trade at, and no earlier.
BenchmarkIsAlwaysLong ==
    n > 1 /\ past.long /\ rule.scale = None =>
        Marked ** Keep(One) = ((bar.close // cross.base) ** Keep(One)) ** Keep(One)

\* In a window the trade book still reproduces the rebased curve, unless a
\* trade was entered from flat on the window's first bar.
WindowBookReproduces ==
    window # None /\ run.alive /\ ~window.entered =>
        Closed(window.book, Basis(window)) = Marked // window.base

\* The window's commissions are those the run paid in it.
WindowFeesArePaid ==
    window # None /\ run.alive =>
        (window.fees ** window.base) ++ window.before = run.fees

\* The three runs printed beside the result differ from it by what their names
\* say and by nothing else.
CrossChecksAgree ==
    TypeOK /\ GrossDiffersByCosts /\ CloseFillDiffersByGaps /\ BenchmarkIsAlwaysLong

\* A level fills a position that is really held, pessimistically, and keeps the
\* strategy out afterwards.
StopsKeepOut == []LevelsAreHeld /\ []FillIsPessimistic /\ CooldownKept

\* What is shown of a window agrees with the whole run.
WindowAgrees == WindowBookReproduces /\ WindowFeesArePaid

\* The zero-cost cross-check is the same run (run_backtest's own words).
CrossCheckIsSameRun ==
    run.alive => run.equity = cross.gross ** Keep(cross.turned)
=============================================================================
