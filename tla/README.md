# A verification development for kcs-klines

`kcs-klines` collects the candles ("klines") of KuCoin's spot market into a local
archive of Parquet files, one file per partition of a series, and a Python package
beside it backtests strategies over the archive, keeps a journal of the results and
serves a dashboard. This directory holds TLA+ modules that model the collector and
the package, TLC configurations that check them on small instances, and
proofs for every value of the constants, checked by TLAPS.

    tlc -workers 2 -config walk.cfg MCSeriesWalk.tla    # check a model
    tlapm SeriesWalkProofs.tla                           # check proofs

`PROJECT.json` lists components, runs, mutants, hazards and theorems, and maps each
definition to the source lines it stands for. Paths below are relative to the
repository.

## The system

| Part | State it keeps | Operations | Talks to |
|---|---|---|---|
| collector (`src/collector.rs`) | per run: cursor, buffers, coverage, floor, probe; one shared exchange clock | `collect_series` with free jumps, resume windows, the daily probe, the deeper probe, flushes, the floor stamp | client, store |
| store (`src/storage/`) | the partition files; in each footer the depth of history | `scan`, `merge`, `stamp_floor`, `write_atomic` | file system |
| client (`src/kucoin/client.rs`) | counters | `get_envelope`: attempts, backoff, headers | limiter, exchange |
| limiter (`src/kucoin/rate_limit.rs`) | tokens, last refill, next allowed moment | `acquire`, `penalize`, `note_headers` | all workers |
| run (`src/main.rs`, `notify.rs`) | a semaphore, a `JoinSet`, the report | spawn, join, interrupt, report, exit code, pings | collector, watchdog |
| timeframes, layout (`types.rs`, `layout.rs`) | none | bar and partition arithmetic | everybody |
| verify, status (`verify.rs`, `status.rs`) | none | passes over stored rows | store |
| reader, indicators (`data.py`, `metrics.py`) | none | bars of a series; averages, volatility, drawdown | archive (read only) |
| strategies (`strategies/`) | none; the stops keep a side and levels | the exposure wanted after every bar | engine, walk-forward, basket |
| engine (`engine.py`) | per run: position, equity, trade book, overlay | `run_backtest`, `restrict` | strategies |
| books (`portfolio.py`, `riskparity.py`, `basket.py`) | per run: weights, value, pending decisions, logs | bar or date loops, windows, references | archive |
| walk-forward (`walkforward.py`) | the outcome of each split | train, choose, test, stitch | engine |
| journal (`journal.py`) | `runs.jsonl`, `verifications.jsonl`, trade files | record, select, verify | engine, basket |
| dashboard (`dashboard.py`) | four caches under a lock, one cached page | handler threads | archive |

A backfill takes a permit per series and spawns a task that scans the series' files,
reads the exchange clock (one request for all tasks), and walks from the newest
finished bar to the past in half-open windows of at most 1500 bars. Where a file
already covers what the walk wants, it jumps. Below the last data it probes at
growing distances. A partition is merged into its file when the cursor has left it.
All tasks share the limiter. Ctrl-C aborts the tasks.

What is hard in it:

* **Coverage is two numbers.** A run believes that a file holds everything between
  its oldest and its newest bar. That is true, or not, because of what all earlier
  runs did, including those that crashed.
* **Floors.** Each footer claims how deep history goes. The claim may come from a
  probe, from a walk or from a `--start`, and is believed later.
* **Crashes** between the steps of a file replacement, and between the files of a run.
* **Sharing.** Workers interleave over the limiter, the clock, the permits, and, if
  misused, over one file.
* **Retries**, whose pauses are partly the worker's own and partly everybody's.
* **Ending**: Ctrl-C, panics, errors and results race for the exit code.
* **Accounts kept twice.** The engine compounds an equity curve and a trade book side by
  side, the books compound weights where an account would hold units: they agree only if
  every resize, flip, level, fee and window cut is booked in both.
* **The future in the past.** Bars arrive late and archives are backfilled: what is read
  from the whole series may move a decision that was already taken.
* **Caches.** Handler threads stat, look up, load and keep without one lock over all of
  it, while files are rewritten.
* **Append-only files without a lock**, and commands killed while they append.

`PROJECT.json` lists each hazard at its line with the property that watches it, or
the reason why none does.

## The modules

    Archive <--refines-- SeriesWalk    <- MCSeriesWalk     SeriesWalkProofs
                         PartitionFile <- MCPartitionFile  CollectorProofs
    RateLimiter <--refines, extends-- Requests <- MCRequests CollectorProofs
                         RunJobs                           CollectorProofs
                         Dashboard     <- MCDashboard      JournalAndDashboardProofs
                         Journal       <- MCJournal        JournalAndDashboardProofs
    Ratio <- RatioProofs
          <- Backtest   <- MCBacktest                        BacktestProofs
          <- Portfolio  <- MCPortfolio                       PortfolioProofs
          <- RiskParity <- MCRiskParity                      RiskParityProofs
          <- Indicators <- Strategies <- WalkForward <- Basket <- Signals <- MCSignals SignalsProofs

**SeriesWalk** is `collect_series` over one series. Time is counted in bars; slot 0 is
`MIN_TIMESTAMP`. A partition is named by its first slot (`StartOf`), and `HeadOf` is
its calendar start floored to the bar grid, which may lie in the partition before (a
weekly bar in a yearly file). `bars` and `floors` are the disk; the other variables
are the locals of the run under the names the code gives them. `pc` follows the
control flow: `discover` (the daily probe), `walk` (the loop), `flush` (`flush_ready`),
`probe` (`probe_deeper_data`), `drain` (`flush_all` and the floor stamp). One pass of
the loop is one of `JumpCovered`, `JumpToHead`, `FetchBars`, `FetchNothing`,
`RefuseWindow`, `EndWalk`. `Abort` is an error of any request, a crash, or Ctrl-C.
What the exchange holds is chosen in `Init`. Three history variables serve the
properties: `asked`, `upToDate` and `leapt`. `leapt` becomes true when a writing run
passes over bars it never asked for: that is known of the code (see *Disagreements*),
and the invariants about holes are stated for everything else.

**Archive** is what a collection promises, without a cursor, windows, buffers or files:
the archive only grows, by finished bars of the exchange; and a run that succeeds
leaves nothing missing between the bottom it settled on and its end.
`PromiseKept` in SeriesWalk is the refinement.

**PartitionFile** is `merge_into_file` and `stamp_floor` over `write_atomic`, one action
per system call, on a file system with inodes: `path` and `tmp` are directory entries,
`synced` the inodes that survive a power loss, `onDisk` the flushed directory entry.
It says under which conditions SeriesWalk may treat a merge as one step.

**RateLimiter** has one action per critical section of the mutex, with time in ticks
and weight in tokens; `asks` and `wake` are the locals of `acquire`'s loop.
**Requests** extends it with `get_envelope`'s retry loop for every worker. A response is
handled in two steps, `Hears` (the headers go to the limiter) and what follows, since
other workers may come in between. **RunJobs** is `run`, `collect_command` and
`run_series` with the tasks, the semaphore, the `OnceCell` clock, the signal handler and
the pings; what a job does in between is SeriesWalk.

**Dashboard** has a handler thread per request. `Program` lists the calls of each route in
their order, and `todo` is what a thread still has to do; a section under the lock is one
step, since no other thread sees its middle, with two exceptions: the cached stats answer is
sent to the client with the lock held, and the walk over the directory takes a step for each
series and is only then stamped, since the lock keeps neither the collector nor the clock out.
A file's content is the number of its last write, which is also its timestamp, so that "older"
is a comparison. The page file is re-read without a lock in four steps (`StatPage` to `TakePage`).

**Journal** has a process per command. Recording is compute, write the trades, read the
ids, append; verifying loads the entries once and judges one after another. A killed command may
leave a torn line, which no longer parses, or all of a line but its newline (`cut`), which
does; what is appended next is glued onto either (`Written`). The numbers of a run stand for all they
depend on: bars (but for what no number reads), code, options. `Repeated` is which options
`verify` gives again, and `Window` cuts the series by the recorded first and last time, as bars
may be inserted between them or lost. A time stands for a stretch of bars, so that a window is never too short to run.

**Ratio** holds exact fractions. The accounts are exact where the code has floats, so that
"reproduces exactly, up to float noise" can be an equation. **Backtest** reads one more
bar per step: the engine fills at its open what was decided before, the stops of
`stops.py` judge it, and the cross-checks (no costs, fill at the close, buy and hold) and a
window opened by `restrict` go along. **Portfolio** has a step per print of the archive and two per rebalance
date (`Earn`, `Rebalance`); a history ledger of units and cash is what the loop of weights is
compared with. **RiskParity** has a step per bar: mark, sell what lost its trend, fill,
decide. Turnover ranks and volatilities are chosen freely there.

**Indicators** and **Strategies** are functions: an indicator is the loop the code runs and is
compared with the definition it stands for; a strategy maps a series to its exposures
(given as signed squares, so that a size divided by a volatility stays a fraction).
**WalkForward** and **Basket** compute a result from whole series. **Signals** gives them
state: a series that the collector extends, backfills and leaves holes in, and a command
that reads all of it again after each change.

## The runs

A property of a run may be a conjunction of named parts; each part has a mutant of the
code's model that breaks it, and is described at its definition.

| Run | Properties | Instance |
|---|---|---|
| `walk` | `WalkInv`, `UpToDateIsFree`; `OkIsTrue` (`NeverTruncates`, `OkMeansComplete`, `OkRecordsFloor`), `PromiseKept` (refinement of Archive), `RunTerminates` | slots 0 to 6, partitions of 4, windows of 2 with an overlap of 1, any set of bars with three kinds of daily series, runs with and without a start, dry runs, any number of runs and failures |
| `file_one` | `WholeFile`, `AckedIsStored`; `RewritesWhatIsThere` | one writer, 2 bars of 2 values, 2 floors, 3 inodes |
| `requests` | `CallsArePaid` (`PaidFor`, `GivesUpLate`), `WithinBudget`; `UsesLimiter` (refinement), `KeepsTime` (`Spaced`, `SleepIsExact`) | 2 workers, a call each of at most 2 attempts, pool of 10, requests of 5, 2 tokens a tick, 4 ticks |
| `requests_live` | `CallsEnd` | 2 workers, a request heavier than the pool, 60 ticks |
| `jobs` | `ReportTells` (report, exit code, pings, quiet), `SharedFairly` (permits, clock); `RunEnds` | 3 series, 2 permits |
| `dashboard` | `BarsAreCurrent`, `CachesFit` (page and stamp, row and bars), `ListedIsServed` (a series that had a file for a cache window and the length of a walk); `EveryRequestAnswered` | 2 threads, a daily and an hourly series, routes bars, stats and export, 2 requests, one write, entries that live 1 tick, walks during which a write and a tick may fall |
| `journal` | `IdsUnique`, `LossIsNoticed`, `StatusTells` (each of the five statuses, given if and only if what it says is so) | one command at a time over a series of up to 4 bars with a hole, 4 kinds of runs with their trade tables, killed at any step, 2 lines, one check, one change |
| `backtest` | `BookReproducesCurve`, `CrossChecksAgree`, `WindowAgrees`; `StopsKeepOut` | 4 bars out of 5 shapes over the prices 1, 2, 4, any exposure of -1, 0, 1; stops with a cooldown, a trail under the overlay, long only |
| `portfolio` | `AccountsAgree` (curve, fees, benchmark), `HoldingsAreSound`, `LogReplaysToBook` | 2 symbols that print 1, 4 or nothing on 4 or 5 bars; a ranked book every other bar, one by sign under a volatility target, one gated |
| `riskparity` | `DecisionsAreSound`; `MoneyAddsUp` (value, window fees, reference), `TradesAreDecided` | 2 symbols that print 1, 2 or nothing on 4 or 5 bars; an equal book under the trend rule, one by volatility under a budget, half in one name |
| `signals` | `RulesKeepTheirWord`, `MeasuresHold`, `BasketAddsUp`; `SplitsAreApart` (`NoMoveTwice`, `BenchmarkTiles`, `ChoicesAreBlind`), `NoPeek`, `BackfillKeepsDecisions`, `SealedWindow` | series of up to 5 bars (6 for a walk-forward, two of up to 4 for a basket) over the prices 1, 2, 4, with one hole and one backfilled bar; 9 rules and wrappers, a plan with a choice of two windows, 3 baskets |
| `signals_ahead` | `NoLookAhead`, which fails | the same |

Why the bounds are enough to be interesting. In `walk` the walk meets every kind of
step: windows that end in a partition, at its head and at the floor; two files and a
partial one; probes that hit, miss and run out; a resume window that fits and one that
does not; and there is room for three runs with an archive that grows between them.
Three inodes are the visible one, the tmp file and one that a power loss may bring
back. Two workers are enough for a race on a mutex-protected bucket; budgets are
checked from any moment on (`Mark`, which may set it again at any time). Three series over two permits make the spawn loop
wait while tasks panic. Two threads and one write are what it takes to put old bars
under a new stamp, if that could be; `MaxWrites`, `MaxRequests` and `MaxTime` bound the
run, and the proofs below do away with them. Two lines and one change are what a verdict can
differ by, and a line cut before its newline with the one glued onto it needs no third; an id repeats within the second. The
hole is where a bar may be inserted. Four bars hold an entry, a
resize or flip, a touched level and a cooldown; five a hole longer than the oldest price that
counts, and the return from it. In `portfolio` one bar stands for up to 30 days of silence, and the volatility
window is two periods, which keeps the deviation a fraction. In `signals` a spacing of 1 or 3 moves the
median with one more bar; `SlotCap` (4) stands for 100000, `Year` is one spacing. Symbols are
interchangeable in `riskparity`, workers in `requests`, inodes and values in `file_one`, and
the properties name none of them; elsewhere no symmetry is used. The runs
say `CHECK_DEADLOCK FALSE` because a clock, a series or a calendar stops at its bound and a run that has
exited does nothing more; `file_one` has no such state and checks deadlock.

### Fairness

`walk` assumes weak fairness of the run's own steps: a task that can go on is
polled, and each request is answered or fails (the client's timeout). Neither a clock tick
nor a next run is assumed. `requests_live` assumes that each worker's step and the
passing of time, while somebody sleeps, go on; its clock bound is far above what any
behaviour uses, so that the cut does not decide liveness. `jobs` assumes it of the main task and of
every task, and that a series ends, which is `RunTerminates`. `dashboard` assumes it of every handler
thread: it runs when it can, and a client reads its answer or hangs up, after which the write fails and
the lock is released. Nothing is assumed
of signals, panics, answers, crashes, writes or new requests.

## What is proved

The theorems hold for every value of the constants that satisfies the ASSUMEs of the
modules: positive windows, partitions that are intervals of slots, sets of naturals.

**SeriesWalkProofs.** `TypeCorrect`; then `WalkInvariant`, the inductive invariant. None of
the promises is inductive alone: a jump over a file preserves `NothingSkipped` only if
files have no holes (`NoHoleInsideFile`), a flush keeps files without holes only if the
buffer is all there is above the cursor (`NothingSkipped`), and joining a partial file
needs to know where a walk that is bounded by a start (`JoinsAtStart`) or is over
(`JoinsBelow`) leaves bars below it. `RunState` ties the locals together. From it follow
`FilesHaveNoHoles`, `WalkSkipsNothing`, `FloorHidesNoData`, `OnlyFinishedStored`, `ArchiveOnlyGrows`,
`SuccessIsComplete`, and the refinement `WalkKeepsPromise`, step by step: a flush and the stamp
map to `AStore` or a stutter, `Finish` to `ASucceed`, every failure to `AFail`.
`FloorIsOldestBar` needs two facts more (`FloorInv`): a partition without bars claims no floor, and
what a run without a start merges carries the floor it found, so that a stamp left out
because nothing changed was really not needed. `UpToDateRunsAreFree` rests on
`JumpsAll`: a run that began on a complete archive holds the bar below its cursor, so
each partition is jumped over, also one whose head lies in the partition before it.
With these, every safety property of `walk` is proved (`OkTellsTheTruth` is the conjunction).

**CollectorProofs, the partition file.** What a reader can find. `NoHalfFile` assumes that each writer has a
process, hence a tmp name, of its own (`OwnTmp`) and that fsync does what it says
(`SafeDisk`); number and timing of processes, kills and power losses are arbitrary. Its
inductive invariant `FileInv` adds to `WholeFile` that the inode under the name, and the one a
power loss brings back, are synced, that a tmp file is neither of them nor anybody
else's, and what each stage of `write_atomic` has reached. `AckedStays` and
`NothingOverwritten` hold for a single writer (`OnlyWriter`): `MergeInv` carries the
operation, applied to what was visible, from the read to the rename. TLC refutes each of
the three without its assumption about writers (below), which is why the assumptions are there.

**CollectorProofs, the requests.** Of the limiter, `BudgetHolds` for any capacity, rate and order of calls: what is in the
bucket counts as if it were spent, and a mark set after the last refill has seen no
grant since (`BudgetInv`). `RequestsSpaced` assumes that no penalty is shorter than the
spacing. `SleepsExactly` is arithmetic: a sleep of `ceil(missing / rate)` ticks is enough,
and one tick less is not. Of the client, that its retry loops use the limiter
through its operations only (`ClientUsesLimiter`, a refinement), so the budget is one of the
requests that go out (`ClientWithinBudget`, `EveryRequestPaid`), and that no call gives up
before its last attempt; `LoopInv` ties the counters of a call to where it stands.

**CollectorProofs, the jobs.** All safety properties of RunJobs, for any number of series and permits,
by `JobsInv`: permits balance because the job that is spawned did not run before
(`SpawnOrder`), the exit code tells the truth because a run that was not interrupted gets
to its report with every job joined (`AllIn`), and each timestamp request is accounted for
by the cell, a reader, or a dead task (`ReadersCounted`). The premise of the model stays: a
panic of a task does not stop the others, or ends the process.

**JournalAndDashboardProofs, the dashboard.** All safety properties of Dashboard for any number of threads, series,
requests and writes and any lifetime of an entry. What a cache holds is easy (`CachesInv`); the
work is `RequestInv`, which ties what a request has in hand to the step it is at:
`Shaped` says which tails of which route can be left to do, `Follow` that the stamp it
read is not newer than the bars it will keep, that bars found or loaded are as new
as the files were when it came in, and that the walk behind a listing it was refused by began no
more than a cache window and its own length ago; a series the listing misses got its file after
that (`Misses`). Bars loaded without the lock may be newer than their stamp, never older,
because the stamp is read first: that is why the unlocked section is safe. `PageIsCurrent` fails
exactly because the page has no such order between one thread's store and another's return.

**JournalAndDashboardProofs, the journal.** `StatusesTell` holds for any number of commands, symbols, bars and lines:
`JournalInv` says that an entry's numbers are those of the bars its fingerprint was taken of
(`Recorded`), that each line of the verifications is `Sound`, and that what a command has in hand is;
in particular that the ids it read are those of some file within the bound, which leaves it a
suffix. `JudgedSoundly` is the heart: the bars in the recorded window are the recorded ones if and only if
they agree at each of its times (`WindowIs`, `SameByTime`), and the numbers come out again if and only if all they
depend on is the same (`RerunReproduces`). `IdsStayUnique` and `LostRunIsNoticed` assume one command at a time.
Their invariant `SingleInv` needs two facts more: when a line is written the ids that were read
are still all there are (`ReadLast`), and nobody was told of an entry without its newline
(`CutIsUntold`), so that gluing a line onto it loses only the run that is being acknowledged. A suffix is always left
(`SuffixIsNew`, by counting lines against suffixes, then taking the least).

**RatioProofs.** The laws of the fractions all accounts are computed with. A fraction is kept in
lowest terms, so that equal amounts are equal values; that Euclid's function finds the
greatest common divisor, and hence that a value has one pair of lowest terms (`SameLowest`), is shown by
least counterexample: if the function were wrong somewhere, there would be a least number where
it is, and one step of it leads below. From it follow the laws of a field and of
its order, `PowerOfSum`, and what accounts use of them: returns compound (`QuotientChain`), factors
swap (`SwapFactors`), a holding earns its move (`EarnsOnlyHeld`). For books of several symbols come the laws of
sums over a finite set (`SumOver`, a fold): they do not depend on the order, add, scale and keep
order and sign term by term. Each is shown by a least counterexample among the sizes of sets.

**BacktestProofs.** For any bars of positive prices, any exposures in [-1, 1] and any settings the
constructors accept (`BacktestAssumption`: `IsCandle`, `IsScale`, `IsRule`; a price of zero ends the program in a
division). `RunIsAccounted` is the inductive invariant. `BookReproducesCurve` alone is not inductive: a fill knows
only the equity after costs, so `Booked` says what the book holds between fills, the worth of the account
when the open leg began, or its worth now when there is none, and that a wiped-out account
never trades again. `Rebased` is the same of a window, with the three ways a leg can stand to it (carried
in, entered on its first bar, entered later). `Following` says that the side the stops believe is the sign
of what they asked for, `Waiting` that the quiet bars to come lie inside the block, `Followed` and
`AlwaysLong` tie the close-fill run and the benchmark to the run. With them:

* `BookAlwaysReproduces` and `WindowsAlwaysAgree`, without further assumptions.
* `CooldownIsAlwaysKept`; `LevelsAreAlwaysHeld` for overlays whose floor is positive; `FillsArePessimistic` for bars
  whose range holds their open; `StopsAlwaysKeepOut` for both. The assumptions are needed: a floor of
  zero flattens the engine while the stops still believe in their position (`DrawdownScale` calls such a floor a
  trap, and accepts it), and on a bar that opens outside its own range `min(level, open)` is a price
  the bar never printed (`data_quality` counts such bars and keeps them).
* `CrossChecksAlwaysAgree`, while exposures are whole units (`ScaledOnGrid`): the model charges
  `(1 - rate) ** turn` exactly only for multiples of 1 / Unit. Without an overlay they always are
  (`CrossChecksAgreeUnscaled`). What does not speak of costs needs neither (`CloseFillAlwaysFollows`,
  `BenchmarkAlwaysAgrees`).

The instance of `backtest` satisfies all three assumptions, with an overlay among its rules.

**PortfolioProofs.** For any finite set of symbols, any positive closes, and the rules and rates that
`run_portfolio`, `VolTarget` and `Costs` accept (`PortfolioAssumption`; a lookback is not negative, which the
command line does not check, and a negative one would rank by prices to come). The inductive
invariant is `PortfolioInv`, by parts:

* `Calendar`: which bar each date falls on, and which periods have been earned.
* `Balanced`, for the curve and the fees. The equation between curve and ledger holds only at a date, and is not
  inductive: what is, is that each symbol's units are worth its weight of the curve at the price it was last
  sampled at, and the cash the rest. A period keeps that because a weight that drifts by its own
  ratio over the growth of all of them is again a share of the new value (`DriftType`, `GrowthIs`). A symbol without a
  close keeps its mark, and its weight does not move.
* `BuyAndHold`, for the benchmark: what the account's marks and shares are as functions of the dates
  seen. `BenchmarkIs` then turns the recomputed sum into that of the account.
* `WellChosen`, for what is held: the last pick is what `Select` says of that date, sized by the multiplier
  kept. That a slice outranks what is below it is counting: who is behind a symbol is behind
  all that are ahead of it (`SliceIsStrongest`). `UnscaledIs` bounds what two sides add up to, `ScaleIs` the multiplier.
* `Dropping`: what is held and not dropped has a price one date later. With it every exit is in the log, and
  entries and exits of a set of dates take turns (`EntriesAndExits`), so `LogAlwaysReplays`.
* `Ruined`: a book is given up at zero only.

`AccountsAlwaysAgree`, `ChosenIsAlwaysSound` and `LogAlwaysReplays` follow without further assumptions.
`HoldingsAreAlwaysSound` adds that only a book with shorts is ever given up, and assumes `CheapTrades`, a rate
below one half. `Costs` accepts any rate below one; from one half on, replacing the whole book, which pays for two
sides, takes all that is left, and a book without shorts ends at zero. `Unborrowed` is its invariant: weights that add
up to at most one stay so while they drift, and their turnover is at most two (`TurnoverBound`).

**RiskParityProofs.** For any finite set of symbols, any positive closes, any readable volatilities and
multipliers, and the rules `run_riskparity` accepts (`RiskParityAssumption`). The inductive invariant is
`RiskParityInv`, by parts:

* `Unlevered`: what is held and what is pending, of the book and of the benchmark, is not negative and adds up
  to at most the account, which is never below zero. Drift keeps that because the cash beside the weights is
  part of the growth they are divided by; `PaidIs` and `SettledIs` say what exits and fills leave of the account.
* `HeldIsListed`: nothing is held that never printed, so that a weight is a number of units. A price that is
  filled forward and then dropped leaves the last one printed behind (`Known`), which is what units are valued at.
* `Between`: on a bar off the grid nothing is pending but the exits of that close. The losers are sold because those
  exits are a function of the book they are applied to; `OnlyGridBuys` follows from the same.
* `Bought`: what is pending is fresh enough to trade, and its trend holds at the newest close.
* `Opening`: a window starts at an account worth something, and its commissions times that worth are
  what was paid since, unless a bar was billed twice.

`TradesAreAlwaysDecided` and `WindowsAddUp` follow without further assumptions. The other two need one each:

* `DecisionsAreAlwaysSound` assumes `TenRounds`. `cap_weights` stops after ten rounds, and each round
  that still finds a name above the cap leaves at least one more name at it (`AtCap`). So the cap holds if a
  book has at most ten names, or if eleven names at the cap would be more than the account. The
  cap `auto_max_weight` chooses is never below a quarter and satisfies it; a smaller `max_weight`
  over more names is accepted, and nothing shows that ten rounds are enough for it.
* `MoneyAlwaysAddsUp` assumes `CheapTrades`, a rate of at most one half. Replacing the whole book pays for two sides; at more than
  a half each that is more than the account, which is then stopped at zero with part of its commission unpaid.
  The value of units after a bar is shown symbol by symbol (`UnitsGrow`) and summed (`TotalsScale`); the hypothesis
  of the property that no held symbol comes back from a gap is needed there: its return is a move
  of 1 in `Moved`, so the units it stands for change.

The instance of `riskparity` satisfies both.

**SignalsProofs.** `MeasuresAlwaysHold`: `MeasuresHold` for a stored series of any length, any prices and holes of any
size. What is stored is all it assumes (`SeriesAssumption`: prices are positive, a bar has a time of its own, and
"no value yet" is not a number). Its inductive invariant is `SeriesInvariant`: the series is in order and holds
stored bars, whether they were collected or backfilled. The work is in the loops of `metrics.py` and `data.py`,
which are scans of recursive functions. `LoopIs` gives a scan an invariant that may speak of the index:
if each state follows from the one before by it, then all do, shown by the least index where one does not;
`LoopExists` makes the scan's states from its step. With them, and for any window:

* `SmaIs`: a running sum that adds the newest price and drops the oldest is the sum of the window (`StretchSum`).
* `EmaIs`: a smoothed value is a weighted mean of two values in the range, hence in the range (`WeightedBetween`).
* `RsiIs`: smoothed gains and losses are never negative, so that their ratio is a share of 100 (`ShareOfHundred`).
* `DrawdownIs`: the fall from the highest peak so far is the deepest fall to a bar (`FallsDeeper`),
  and the span that is kept is the one whose fall it is.
* `QualityIs`: the slots counted up to a bar are its distance from the first, if no hole reaches the cap.

`RulesAlwaysKeepTheirWord`: `RulesKeepTheirWord` for any set of rules and any such series. It assumes of the rules that
they are values a constructor accepts (`RulesAreAccepted`: a member of `Rule`, which names the type of every
parameter, that passes the checks of `__init__`), and of the constants that a year is not empty. The
inductive invariant is small, `RulesInvariant`: `SeriesInvariant`, and the exposures `T` are those the
rule computes from the whole series (`Targets`). They are read again after every bar collected or backfilled, so each
promise is one about a single pass over a series, and the work is again in the loops:

* The decision grid. `BarStepIs` bounds the median spacing below by one, so a period is never empty (`NthIsMember`: the median is
  one of the spacings). `GridRuns` makes the scan of `on_decision_grid`, and `GridIsAhead` is its invariant: the next grid
  point is a multiple of the period, past the newest bar and by no more than a period, if no hole is longer. `GridMoves`
  concludes that two decisions are never taken in one period of the grid.
* Holds. `HeldSince` is the invariant of the two state machines, breakout and oscillator: they remember the bar
  a position was taken on and the side did not change since. `LegIs` turns that into the length of a leg as a reader of the
  exposures counts it, so that `min_hold` and `max_hold` bound it (`BreakoutWants`, `OscillatorWants`).
* The blend. `SumCounts`: a sum of zeros and ones is the number of ones. `MajorityIs`: where the blend changes its mind, its
  exposure is one if and only if more horizons rose than fell.
* Sizing. `ClampIs` keeps a scale between floor and cap, `ScaleIs` and `ScaledIs` show that it only shrinks an exposure, and that
  with a floor of zero the exposure times the measured volatility is inside the target. Scales are kept
  squared, as the model keeps them; `TurnedRound` orders two of them by their inverses.
* The warm-up: each indicator has no value before its window is full (`SmaWaits`, `EmaLater`), and a rule without a score is flat
  (`GridWants`). A wrapper's warm-up is that of the rule inside it (`WrappedWants`).

Only model-checked: liveness and fairness (out of the prover's reach); and the rest of Signals
(`BasketAddsUp`, `SplitsAreApart`, `NoPeek`, `BackfillKeepsDecisions`, `SealedWindow`). Walk-forwards and baskets compose
runs of the engine over slices of several series, and the last three compare two runs of a rule, on a series and
on a longer one: each needs an invariant that relates two scans, where the ones above speak of one.

## Disagreements between the code and what is said of it

Each is a property taken from a comment, a docstring or the README, stated at the end of its
module, and TLC finds it violated when it is put in the place of the properties of the named cfg.
One is kept as a run:

* `signals_ahead`, `NoLookAhead`: the decision grid and the annualisation come from the median
  spacing of the whole series, so one later bar can move exposures decided before
  (`strategies/tsmom.py:194`). `NoPeek` is what holds.

The collector:

* `WindowFits` (walk.cfg with Limit 1 or a longer partition): a partition with its head on disk and its tail more than
  1500 bars behind makes the walk ask for one oversized window; the run fails, and so
  does every later one (`collector.rs:459`).
* `ProbeSkipsNothing` (walk.cfg): after a probe hit the scan goes on from the top of the
  probed window and never reads the stretch above it (`collector.rs:513`).
* `DefaultRunReachesBottom` (walk.cfg): a first run with `--start` records the start as the
  floor, and later default runs stop there (`collector.rs:402`).
* `GapCannotTruncate` (walk.cfg, no starts): probes sample, and older bars between the
  samples are cut off (`collector.rs:811`).
* `FreeJumpMissesNothing` (walk.cfg): a start past the newest bar of its partition
  leaves a hole that later runs jump over (`collector.rs:447`).
* `DailyProbeHidesNothing` (walk.cfg): on an empty directory the daily series bounds the
  walk although older bars exist (`collector.rs:383`).
* `InterruptionKeepsFetched` (walk.cfg): the bars of the partition being walked are only in
  memory (`collector.rs:487`).
* `AckedIsStored` and `RewritesWhatIsThere` with two processes and two bars, `WholeFile` with
  two writers of one process (a timeframe listed twice), `WholeFile` with `SyncMayFail = TRUE`
  (file_one.cfg).
* `PauseHonoured` (requests.cfg with headers that ask for a longer pause): `penalize` overwrites
  it (`rate_limit.rs:112`); `BrokenBodyIsRetried` (requests.cfg, `client.rs:353`); and `Spaced` when
  a `Retry-After` is shorter than the spacing of requests, since `penalize` then shortens it too.
* `SuccessMeansAll` (jobs.cfg): an interrupted run exits with 0 and pings success
  (`main.rs:240`). `OnlyFinishedPeriods` (jobs.cfg): a skewed local clock (`collector.rs:255`).

The analysis:

* `PageIsCurrent` (dashboard.cfg with the route page): a slow thread stores the page it read before an
  edit over the one another thread has just read, and that thread returns the older text
  (`dashboard.py:81`).
* `ListedWithinWindow` (dashboard.cfg): a listing is stamped when its walk is over, so a series that gets its
  file behind the walk may be refused for longer than the cache window (`dashboard.py:169`).
* `IdsUnique` with two processes (journal.cfg): both read the ids before either appends.
* `AckedIsJournaled` (journal.cfg): a line cut just before its newline still parses, the next append continues it, and the
  run it reports as journalized is in a line nobody can read (`journal.py:527`); from then on the journal
  does not load. `LossIsNoticed` is what holds.
* `MismatchMeansChange` (journal.cfg): a run made with the overlay, in-bar exits, a mask or
  short permission is verified without them and comes back as a mismatch (`journal.py:666`).
  `MismatchMeansSameBars` (journal.cfg): `verify` says that mismatch is for the same inputs and
  data-changed for other bars (`journal.py:608`), but other bars from which other numbers come are a
  mismatch; data-changed is only what no number notices.
* `CrossCheckIsSameRun` (backtest.cfg): the run without costs keeps its in-bar exits out
  of the comparison, and under the overlay it resizes differently.
* `DroppedAtLastPrint` (portfolio.cfg): a holding that printed between two dates and not near the
  second one is carried at an older price than its last (`portfolio.py:695`).
* `BillIsOnce` (riskparity.cfg): two names sold on one bar are billed to `cost_by_bar` twice
  (`riskparity.py:826`). `GatedIsCash` (riskparity.cfg): when no name passes the trend rule the
  book is kept, not sold (`riskparity.py:794`). `HoldPaysOneSide` (riskparity.cfg): the
  reference of a window pays the entry twice when its symbol is first listed inside the window
  (`riskparity.py:358`).
* `ChosenBeforeWindow` (signals.cfg): legs are ranked on bars before the pool's last, the window
  is cut to the end all legs share, so the ranking can see into it (`basket.py:959`).
* `EveryMoveIsMarked` (signals.cfg): `rebalance_markers` and its test promise a marker on every bar
  where any leg moved; a bar on which one leg leaves and another of the same weight enters has
  none, as the capital in the market did not change (`basket.py:591`).
* `SeamsBelongToAWindow` (signals.cfg): `slice_equity` says the move into a test window belongs to the
  window before (`walkforward.py:168`), which ends one bar earlier: the stitched curve is without these
  moves. `NoMoveTwice` is what holds.

Read off the code while modelling and kept as it is in the models, without a property of
their own: the equity of a short that triples goes below zero before the engine stops; a
take-profit is tried after the trail; wrappers (`scaled.py`, `volfilter.py`) do not pass in-bar
exits on; a grid lags after a hole of several periods; the commissions of a windowed benchmark are divided by
the book's capital, not by its own (`riskparity.py:376`); `tsmom-blend` says "more than half" and
takes the sign of a sum.

## Not modelled

The values of a candle (except that a bar may be revised), Parquet encoding, formatting
and logging, argument and configuration parsing. The exchange of SeriesWalk serves
a fixed set of bars: bars published late or withdrawn, and rows that do not parse, are
left out. Two processes over one directory are in PartitionFile but not in SeriesWalk.
Calendar arithmetic (`align`, `shift`, partitions as dates) is an assumption of SeriesWalk, not
a model. `verify.rs` and `status.rs` are read-only passes whose report is their only state.
`borrow-rates`, experiments, unit files and pages keep no state worth a model. Of the analysis:
Sharpe and the other ratios that need square roots or logarithms (walk-forward is scored by total
return), `spreads.py`, `impact.py` and `report.py`, the pair statistics and the resampling of
`portfolio.py`, and the fees, trade counts and warnings of a basket.

## What is left

1. Calendar arithmetic against a reference calendar, which would discharge
   `PartitionAssumption`; then `verify.rs` over it.
2. Runs for the disagreements that have none.
