------------------------------ MODULE SeriesWalk ------------------------------
(***************************************************************************)
(* Collecting one (symbol, timeframe) series: the backwards walk of        *)
(* Collector::collect_series, the partition files it writes through Store, *)
(* and the runs, crashes and restarts that follow one another over the     *)
(* same directory.                                                         *)
(*                                                                         *)
(* Time is counted in bars.  Slot 0 is MIN_TIMESTAMP and a bound X means   *)
(* "every bar strictly older than X", as in the code.  A partition is      *)
(* named by its first slot, so StartOf covers months, years and the single *)
(* file alike; a partition file is the set of stored bars of its partition *)
(* together with the history floor in its footer.  The values of a bar are *)
(* abstracted away, except that the exchange may have revised them.        *)
(***************************************************************************)
EXTENDS Integers, FiniteSetsExt

CONSTANTS
    MaxTime,         \* bound on the clock, in bars
    StartOf,         \* slot -> first slot of the partition that holds it
    HeadOf,          \* partition -> its calendar start floored to the bar grid
    MaxDay,          \* bound on the days the daily probe can meet
    DayStart,        \* day -> slot of the series' bar that holds its midnight
    Limit,           \* bars per request (Timeframe::max_candles)
    Overlap,         \* collection.overlap_candles
    MaxEmpty,        \* collection.max_empty_windows
    ProbeFactor,     \* growth of the probe distance (8 in the code)
    MaxProbes,       \* probes before giving up (10 in the code)
    MaxDailyWindows, \* windows of the daily probe (12 in the code)
    Starts,          \* the values of collection.start a run may be given
    Worlds,          \* what the exchange may hold: [upstream, daily]
    None             \* Option::None

Slot == 0 .. MaxTime
Bar == 1 .. MaxTime - 1
Day == 0 .. MaxDay
Period == {StartOf[t] : t \in Slot}

ASSUME BoundsAssumption ==
    /\ MaxTime \in Nat \ {0}
    /\ MaxDay \in Nat
    /\ Limit \in Nat \ {0}
    /\ Overlap \in Nat
    /\ MaxEmpty \in Nat \ {0}
    /\ ProbeFactor \in Nat \ {0}
    /\ MaxProbes \in Nat
    /\ MaxDailyWindows \in Nat

ASSUME NoneAssumption == None \notin Slot /\ None \notin Day

\* Period::containing: a partition is an interval of slots, named by the first.
\* Its calendar start need not be a bar label (a weekly bar is labelled with a
\* Thursday), and then tf.align floors it into the partition before.
ASSUME PartitionAssumption ==
    /\ StartOf \in [Slot -> Slot]
    /\ \A t \in Slot : StartOf[t] <= t /\ StartOf[StartOf[t]] = StartOf[t]
    /\ \A s, t \in Slot : s <= t => StartOf[s] <= StartOf[t]
    /\ HeadOf \in [Period -> Slot]
    /\ \A p \in Period : HeadOf[p] <= p

ASSUME InputAssumption ==
    /\ DayStart \in [Day -> Slot]
    /\ Starts \subseteq Slot \cup {None}
    /\ Worlds \subseteq [upstream : SUBSET Bar, daily : SUBSET Day]

VARIABLES
    upstream,     \* bars the exchange serves for the series' timeframe
    daily,        \* days the exchange serves a 1d bar for
    now,          \* exchange clock
    bars,         \* bars in the partition files
    floors,       \* kcs.history_start in the footer of each partition file
    pc,           \* where the run stands; "idle" between runs
    startAt,      \* collection.start of the run, None for `listing`
    dryRun,       \* --dry-run
    endExclusive, \* end_exclusive: align(now) when the run began
    held,         \* bars the run believes stored; `covered` is its min and max
    scanLo,       \* scan_lo: lower bound of the walk
    discovery,    \* discovery: the lower bound is not known
    floorWritten, \* floor_written: what the run puts into footers
    cursor,       \* exclusive upper bound of the next window
    empties,      \* consecutive empty windows
    buffer,       \* fetched bars not written yet
    probe,        \* state of the daily or of the deeper probe
    outcome,      \* "none", or how the last run ended: "ok", "dry" or "failed"
    asked,        \* history: the run sent a candle request
    upToDate,     \* history: the run began on a complete, floor-stamped archive
    leapt         \* history: some writing run passed over bars it never asked for

world == <<upstream, daily>>
disk == <<bars, floors>>
run == <<startAt, dryRun, endExclusive, held, scanLo, discovery, floorWritten,
         cursor, empties, buffer, probe, asked, upToDate>>
vars == <<world, now, disk, pc, run, outcome, leapt>>

-----------------------------------------------------------------------------
(* The store *)

MaxOf(a, b) == IF a >= b THEN a ELSE b
MinOf(a, b) == IF a <= b THEN a ELSE b

InPeriod(S, p) == {t \in S : StartOf[t] = p}

\* Option::min over recorded floors: the deeper of two claims, None being none.
Deepest(a, b) == CASE a = None -> b
                   [] b = None -> a
                   [] OTHER    -> MinOf(a, b)

\* Store::scan: the floor of a series is the claim of the file that holds its
\* oldest bars.
RecordedFloor(B, F) == IF B = {} THEN None ELSE F[StartOf[Min(B)]]

NoProbe == [at |-> 0, found |-> None, left |-> 0]

Init ==
    /\ \E w \in Worlds : upstream = w.upstream /\ daily = w.daily
    /\ now = 0
    /\ bars = {}
    /\ floors = [p \in Period |-> None]
    /\ pc = "idle"
    /\ startAt = None
    /\ dryRun = FALSE
    /\ endExclusive = 0
    /\ held = {}
    /\ scanLo = None
    /\ discovery = FALSE
    /\ floorWritten = None
    /\ cursor = 0
    /\ empties = 0
    /\ buffer = {}
    /\ probe = NoProbe
    /\ outcome = "none"
    /\ asked = FALSE
    /\ upToDate = FALSE
    /\ leapt = FALSE

\* One more bar finishes on the exchange.
Tick ==
    /\ now < MaxTime
    /\ now' = now + 1
    /\ UNCHANGED <<world, disk, pc, run, outcome, leapt>>

-----------------------------------------------------------------------------
(* Starting a run *)

\* The newest day that has begun: the daily probe looks strictly below it.
Today == Max({d \in Day : DayStart[d] <= now} \cup {0})

\* The lower bound of the walk: collection.start, or else the floor recorded
\* in the data, unless the data itself disproves it.
\* (Mutants, here and below: forms a plausible slip in the code would give.)
LowerBoundUnchecked(s) == IF s # None THEN s ELSE RecordedFloor(bars, floors)

LowerBound(s) ==
    LET recorded == RecordedFloor(bars, floors)
        claimed == IF s # None THEN s ELSE recorded
        stale == claimed # None /\ bars # {} /\ Min(bars) < claimed
    IN IF stale THEN s ELSE claimed

\* A start above bars that are stored in its partition and below others that
\* are not: the run writes around a stretch it never asks for.
StartsPastStored(s) ==
    /\ s # None
    /\ \E a \in bars, t \in upstream \ bars :
          StartOf[a] = StartOf[s] /\ a < t /\ t < s

BeginRun(s, dry) ==
    /\ pc = "idle"
    /\ now > 0
    /\ startAt' = s
    /\ dryRun' = dry
    /\ endExclusive' = now
    /\ cursor' = now
    /\ held' = bars
    /\ scanLo' = LowerBound(s)
    /\ discovery' = (LowerBound(s) = None)
    /\ floorWritten' = Deepest(RecordedFloor(bars, floors), s)
    /\ IF LowerBound(s) = None /\ bars = {}
         THEN /\ pc' = "discover"
              /\ probe' = [at |-> Today, found |-> None,
                           left |-> MaxDailyWindows]
         ELSE pc' = "walk" /\ probe' = NoProbe
    /\ upToDate' = /\ s = None
                   /\ bars # {}
                   /\ RecordedFloor(bars, floors) = Min(bars)
                   /\ Min(bars) .. now - 1 \subseteq bars
    /\ leapt' = (leapt \/ (~dry /\ StartsPastStored(s)))
    /\ outcome' = "none"
    /\ UNCHANGED <<world, now, disk, empties, buffer, asked>>

-----------------------------------------------------------------------------
(* The exchange: the bars of a half-open window [from, to).  The client      *)
(* refuses a window of more than Limit bars, so nothing is ever truncated.   *)

Window(S, from, to) == {t \in S : from <= t /\ t < to}

-----------------------------------------------------------------------------
(* discover_history_start: walk the daily candles down *)

DailyFrom == MaxOf(probe.at - Limit, 0)
DailyBars == Window(daily, DailyFrom, probe.at)
DailyGoesOn == probe.left > 0 /\ probe.at > 0

walkState == <<startAt, dryRun, endExclusive, held, floorWritten, cursor, empties,
               buffer, upToDate>>

DiscoverWindow ==
    /\ pc = "discover"
    /\ DailyGoesOn
    /\ DailyBars # {}
    /\ probe' = [at |-> Min(DailyBars), found |-> Min(DailyBars),
                 left |-> probe.left - 1]
    /\ asked' = TRUE
    /\ UNCHANGED <<world, now, disk, pc, walkState, scanLo, discovery, outcome,
                   leapt>>

\* The probe ends on an empty window, at the bottom, or out of windows.  Its
\* answer becomes the lower bound; without one the walk has to discover it.
DiscoverEnds ==
    /\ pc = "discover"
    /\ DailyGoesOn => DailyBars = {}
    /\ pc' = "walk"
    /\ IF probe.found = None
         THEN UNCHANGED <<scanLo, discovery>>
         ELSE scanLo' = DayStart[probe.found] /\ discovery' = FALSE
    /\ asked' = (asked \/ DailyGoesOn)
    /\ probe' = NoProbe
    /\ UNCHANGED <<world, now, disk, walkState, outcome, leapt>>

\* A failing daily request is not fatal, and throws the partial answer away.
DiscoverFails ==
    /\ pc = "discover"
    /\ DailyGoesOn
    /\ pc' = "walk"
    /\ asked' = TRUE
    /\ probe' = NoProbe
    /\ UNCHANGED <<world, now, disk, walkState, scanLo, discovery, outcome, leapt>>

-----------------------------------------------------------------------------
(* collect_series: one turn of the backwards walk *)

MoreToScan == cursor > 0 /\ (scanLo # None => cursor > scanLo)

NewestWanted == cursor - 1
Wanted == StartOf[NewestWanted]
NeededLo == IF scanLo = None THEN HeadOf[Wanted] ELSE MaxOf(scanLo, HeadOf[Wanted])

HeldIn == InPeriod(held, Wanted)
HeadHeldAnywhere == HeldIn # {}
TailHeldAnywhere == HeldIn # {}
TailHeldLate == \E b \in HeldIn : b >= cursor

HeadHeld == \E a \in HeldIn : a <= NeededLo
TailHeld == \E b \in HeldIn : b >= NewestWanted

\* Partitions the cursor has left behind: flush_ready may write them.
Ready(b, c) == {p \in {StartOf[t] : t \in b} : c <= HeadOf[p]}
AfterFetch(b, c) == IF Ready(b, c) = {} THEN "walk" ELSE "flush"

Walking == pc = "walk" /\ MoreToScan

unwalked == <<world, now, disk, startAt, dryRun, endExclusive, held, scanLo,
              discovery, floorWritten, outcome, upToDate>>

\* The file already reaches over everything this partition still needs.
JumpCovered ==
    /\ Walking
    /\ HeadHeld /\ TailHeld
    /\ cursor' = NeededLo
    /\ empties' = 0
    /\ pc' = AfterFetch(buffer, NeededLo)
    /\ UNCHANGED <<unwalked, buffer, probe, asked, leapt>>

JumpToHeadStuck ==
    /\ Walking
    /\ ~HeadHeld /\ TailHeld
    /\ cursor > Min(HeldIn)
    /\ cursor' = MinOf(cursor, Max(HeldIn) + 1)
    /\ empties' = 0
    /\ UNCHANGED <<unwalked, pc, buffer, probe, asked, leapt>>

\* The tail is on disk and the head is not: go on below the oldest held bar.
JumpToHead ==
    /\ Walking
    /\ ~HeadHeld /\ TailHeld
    /\ cursor > Min(HeldIn)
    /\ cursor' = Min(HeldIn)
    /\ empties' = 0
    /\ UNCHANGED <<unwalked, pc, buffer, probe, asked, leapt>>

Jumps == TailHeld /\ (HeadHeld \/ cursor > Min(HeldIn))

WindowStartLate ==
    IF HeadHeld THEN MaxOf(Max(HeldIn) + 2, NeededLo) ELSE cursor - Limit
FromUnclamped == cursor - Limit
FetchedOpen == Window(upstream, cursor - Limit + 1, cursor)
FetchedClosed == Window(upstream, MaxOf(cursor - Limit, 0), cursor + 1)

\* With the head on disk the window reaches down to the last held bar (and the
\* overlap below it); otherwise it is one full window.
WindowStart ==
    IF HeadHeld
      THEN MaxOf(Max(HeldIn) - MaxOf(Overlap - 1, 0), NeededLo)
      ELSE cursor - Limit
From == MaxOf(WindowStart, NeededLo)
Fetched == Window(upstream, From, cursor)

Asks == Walking /\ ~Jumps /\ From < cursor

\* KucoinClient::candles_window refuses more than Limit bars without asking.
Fits == cursor - From <= Limit

FetchBars ==
    /\ Asks /\ Fits
    /\ Fetched # {}
    /\ buffer' = buffer \cup Fetched
    /\ cursor' = From
    /\ empties' = 0
    /\ pc' = AfterFetch(buffer \cup Fetched, From)
    /\ asked' = TRUE
    /\ UNCHANGED <<unwalked, probe, leapt>>

\* Only discovery counts empty windows; MaxEmpty of them in a row start the
\* probe, which leaves the cursor above the last of them.
FetchNothing ==
    /\ Asks /\ Fits
    /\ Fetched = {}
    /\ asked' = TRUE
    /\ empties' = IF discovery THEN empties + 1 ELSE empties
    /\ IF discovery /\ empties + 1 >= MaxEmpty
         THEN /\ pc' = "probe"
              /\ probe' = [at |-> Limit * ProbeFactor, found |-> None,
                           left |-> MaxProbes]
              /\ UNCHANGED cursor
         ELSE /\ cursor' = From
              /\ UNCHANGED <<pc, probe>>
    /\ UNCHANGED <<unwalked, buffer, leapt>>

\* The two ways out of the loop that are not a probe.
EndWalk ==
    /\ pc = "walk"
    /\ MoreToScan => (~Jumps /\ From >= cursor)
    /\ pc' = "drain"
    /\ UNCHANGED <<unwalked, cursor, empties, buffer, probe, asked, leapt>>

-----------------------------------------------------------------------------
(* probe_deeper_data: one window, ever further below the cursor *)

ProbeTop == cursor - probe.at
ProbeFound == Window(upstream, MaxOf(ProbeTop - Limit, 0), ProbeTop)
Probing == pc = "probe" /\ probe.left > 0 /\ ProbeTop > 0

\* The scan goes on from the top of the window that answered.
ProbeHit ==
    /\ Probing
    /\ ProbeFound # {}
    /\ cursor' = MinOf(cursor, ProbeTop)
    /\ empties' = 0
    /\ pc' = "walk"
    /\ probe' = NoProbe
    /\ LET missed == Window(upstream, ProbeTop, cursor) \ bars
       IN leapt' = (leapt \/ (~dryRun /\ missed # {}))
    /\ UNCHANGED <<unwalked, buffer, asked>>

ProbeMiss ==
    /\ Probing
    /\ ProbeFound = {}
    /\ probe' = [probe EXCEPT !.at = @ * ProbeFactor, !.left = @ - 1]
    /\ UNCHANGED <<unwalked, pc, cursor, empties, buffer, asked, leapt>>

\* Nothing found: this is taken for the start of history.
ProbeEnds ==
    /\ pc = "probe"
    /\ ~Probing
    /\ pc' = "drain"
    /\ probe' = NoProbe
    /\ LET missed == \E t \in upstream \ bars, a \in bars : a < t /\ t < cursor
       IN leapt' = (leapt \/ (~dryRun /\ missed))
    /\ UNCHANGED <<unwalked, cursor, empties, buffer, asked>>

-----------------------------------------------------------------------------
(* flush_ready, flush_all, flush_one: partitions are written oldest first,   *)
(* each file atomically, and a crash may fall between two of them.           *)

ToWrite == IF pc = "drain" THEN {StartOf[t] : t \in buffer} ELSE Ready(buffer, cursor)

MergeOver(p, chunk) ==
    /\ bars' = (bars \ InPeriod(bars, p)) \cup chunk
    /\ floors' = [floors EXCEPT ![p] = Deepest(@, floorWritten)]
    /\ held' = (held \ InPeriod(held, p)) \cup InPeriod(bars', p)

\* merge_into_file: an unchanged file is not rewritten and keeps its floor.
MergeInto(p, chunk) ==
    /\ bars' = bars \cup chunk
    /\ \E revised \in IF chunk \cap bars = {} THEN {FALSE} ELSE BOOLEAN :
         floors' = IF chunk \subseteq bars /\ ~revised THEN floors
                   ELSE [floors EXCEPT ![p] = Deepest(@, floorWritten)]
    /\ held' = (held \ InPeriod(held, p)) \cup InPeriod(bars', p)

WriteFile(p) ==
    /\ pc \in {"flush", "drain"}
    /\ p \in ToWrite
    /\ \A q \in ToWrite : p <= q
    /\ LET chunk == InPeriod(buffer, p)
       IN /\ buffer' = buffer \ chunk
          /\ IF dryRun
               THEN held' = held \cup chunk /\ UNCHANGED disk
               ELSE MergeInto(p, chunk)
    /\ pc' = IF pc = "flush" /\ ToWrite = {p} THEN "walk" ELSE pc
    /\ UNCHANGED <<world, now, startAt, dryRun, endExclusive, scanLo, discovery,
                   floorWritten, cursor, empties, probe, outcome, asked,
                   upToDate, leapt>>

-----------------------------------------------------------------------------
(* The end of a run *)

\* The values of a run are gone with it.
Forget ==
    /\ pc' = "idle"
    /\ startAt' = None /\ dryRun' = FALSE /\ endExclusive' = 0
    /\ held' = {} /\ scanLo' = None /\ discovery' = FALSE /\ floorWritten' = None
    /\ cursor' = 0 /\ empties' = 0 /\ buffer' = {} /\ probe' = NoProbe
    /\ asked' = FALSE /\ upToDate' = FALSE

LearntFloorProbed == scanLo

\* The floor a run that looked down to the listing records: the oldest bar.
LearntFloor == IF held = {} THEN scanLo ELSE Min(held)

Stamps == /\ ~dryRun /\ startAt = None /\ bars # {}
          /\ LearntFloor # None /\ LearntFloor # floorWritten

\* Store::stamp_floor rewrites the oldest file; if that fails the run still
\* succeeds.
Finish(stampFails) ==
    /\ pc = "drain"
    /\ buffer = {}
    /\ stampFails => Stamps
    /\ floors' = IF Stamps /\ ~stampFails
                   THEN [floors EXCEPT ![StartOf[Min(bars)]] = LearntFloor]
                   ELSE floors
    /\ outcome' = IF dryRun THEN "dry" ELSE "ok"
    /\ Forget
    /\ UNCHANGED <<world, now, bars, leapt>>

\* The client's refusal of an oversized window ends the run.
RefuseWindow ==
    /\ Asks /\ ~Fits
    /\ outcome' = "failed"
    /\ Forget
    /\ UNCHANGED <<world, now, disk, leapt>>

\* A request that fails for good, a strict validation error, an I/O error,
\* Ctrl-C or a crash: what was buffered is lost.
Abort ==
    /\ pc # "idle"
    /\ outcome' = "failed"
    /\ Forget
    /\ UNCHANGED <<world, now, disk, leapt>>

RunStep ==
    \/ DiscoverWindow \/ DiscoverEnds \/ DiscoverFails
    \/ JumpCovered \/ JumpToHead \/ FetchBars \/ FetchNothing \/ RefuseWindow
    \/ EndWalk
    \/ ProbeHit \/ ProbeMiss \/ ProbeEnds
    \/ \E p \in Period : WriteFile(p)
    \/ \E stampFails \in BOOLEAN : Finish(stampFails)

Next ==
    \/ Tick
    \/ \E s \in Starts, dry \in BOOLEAN : BeginRun(s, dry)
    \/ RunStep
    \/ Abort

Spec == Init /\ [][Next]_vars

\* The task of a series is polled until it ends.
FairSpec == Spec /\ WF_vars(RunStep)

-----------------------------------------------------------------------------
(* Properties *)

ProbeState == [at : Nat, found : Day \cup {None}, left : Nat]

\* The type invariant: the fields of collect_series and the partition files.
TypeOK ==
    /\ upstream \subseteq Bar
    /\ daily \subseteq Day
    /\ now \in Slot
    /\ bars \subseteq Bar
    /\ floors \in [Period -> Slot \cup {None}]
    /\ pc \in {"idle", "discover", "walk", "flush", "probe", "drain"}
    /\ startAt \in Slot \cup {None}
    /\ dryRun \in BOOLEAN
    /\ endExclusive \in Slot
    /\ held \subseteq Bar
    /\ scanLo \in Slot \cup {None}
    /\ discovery \in BOOLEAN
    /\ floorWritten \in Slot \cup {None}
    /\ cursor \in Slot
    /\ empties \in Nat
    /\ buffer \subseteq Bar
    /\ probe \in ProbeState
    /\ outcome \in {"none", "ok", "dry", "failed"}
    /\ asked \in BOOLEAN
    /\ upToDate \in BOOLEAN
    /\ leapt \in BOOLEAN

\* Whatever a run did and wherever it stopped, the walk has left nothing behind:
\* every bar of the exchange from the cursor up to the end of the run is in a
\* file or in a buffer.  This is what lets the cursor step by whole windows.
NothingSkipped ==
    (pc \in {"walk", "flush", "probe", "drain"} /\ ~dryRun /\ ~leapt) =>
        Window(upstream, cursor, endExclusive) \subseteq bars \cup buffer

\* Only the oldest and the newest bar of a file are consulted before its middle
\* is jumped over, so a file must hold every bar the exchange has between them:
\* after any sequence of runs, crashes and starts that left no stretch unread.
NoHoleInsideFile ==
    ~leapt =>
        \A a, b \in bars, t \in upstream :
            (a <= t /\ t <= b /\ StartOf[a] = StartOf[b]) => t \in bars

\* Where a walk with a start joins the file it began in, nothing is missing.
JoinsAtStart ==
    (pc # "idle" /\ ~dryRun /\ startAt # None /\ ~leapt) =>
        \A a \in bars, t \in upstream :
            (StartOf[a] = StartOf[startAt] /\ a < t /\ t < startAt) => t \in bars

\* Where a walk that is over joins what lies below it, nothing is missing.
JoinsBelow ==
    (pc = "drain" /\ ~dryRun /\ ~leapt) =>
        \A a \in bars, t \in upstream :
            /\ (a < t /\ t < cursor /\ startAt = None) => t \in bars
            /\ (a < t /\ t < cursor /\ \E b \in buffer : StartOf[a] = StartOf[b])
                   => t \in bars

\* A bar is stored only once its own period has finished, and only as the
\* exchange has it.
OnlyFinishedBars == bars \subseteq Window(upstream, 0, now)

\* A recorded floor may be wrong (a run with a start writes its start as one),
\* but a default run never stops above data that is already on disk.
BottomBelowData ==
    (pc # "idle" /\ startAt = None /\ scanLo # None) =>
        \A b \in bars : scanLo <= b

\* How the local state of a run hangs together.
RunState ==
    /\ endExclusive <= now /\ cursor <= endExclusive
    /\ held \subseteq upstream
    /\ buffer \subseteq Window(upstream, cursor, endExclusive)
    /\ scanLo # None => \A t \in buffer : scanLo <= t
    /\ discovery => scanLo = None
    /\ pc = "probe" => discovery
    /\ (pc = "drain" /\ scanLo # None) => cursor <= scanLo
    /\ pc \in {"idle", "discover"} => buffer = {}
    /\ pc = "discover" => bars = {} /\ cursor = endExclusive /\ scanLo = None
    /\ pc # "idle" => outcome = "none"
    /\ (pc # "idle" /\ startAt # None) => scanLo = startAt
    /\ (pc # "idle" /\ ~dryRun) =>
           held = bars /\ bars \subseteq Window(upstream, 0, endExclusive)

\* The inductive invariant: together these parts survive every step, which none
\* of the promises about the walk and the files does by itself.
WalkInv ==
    /\ RunState
    /\ OnlyFinishedBars
    /\ BottomBelowData
    /\ NothingSkipped
    /\ NoHoleInsideFile
    /\ JoinsAtStart
    /\ JoinsBelow

\* A default run over an archive that is complete and carries its floor costs
\* no request at all.
UpToDateIsFree == upToDate => ~asked

\* No run, crash or restart takes a stored bar away: files are merged into.
NeverTruncates == [][bars \subseteq bars']_vars

Ends == pc # "idle" /\ outcome' = "ok"
Bottom == IF scanLo = None THEN cursor ELSE scanLo

\* A run that reports success has on disk everything the exchange holds between
\* the bottom it settled on and the end of the run, however the runs before it
\* ended.
OkMeansComplete ==
    [][(Ends /\ ~leapt) =>
           Window(upstream, Bottom, endExclusive) \subseteq bars']_vars

\* After a default run succeeds and its stamp is written, the archive's floor is
\* its oldest bar, so that the next run neither probes nor walks below it.
OkRecordsFloor ==
    [][(Ends /\ startAt = None /\ bars # {}) =>
           \/ RecordedFloor(bars', floors') = Min(bars')
           \/ Stamps /\ UNCHANGED floors]_vars

\* A run that says ok tells the truth of what is on disk and of the floor it
\* recorded, and neither it nor any other run took a stored bar away.
OkIsTrue == NeverTruncates /\ OkMeansComplete /\ OkRecordsFloor

\* What the walk does is what Archive promises; a dry run does nothing there.
Promise == INSTANCE Archive WITH
    phase <- IF pc = "idle" \/ dryRun THEN "idle"
             ELSE IF startAt = None THEN "default" ELSE "bounded",
    upto <- IF pc = "idle" \/ dryRun THEN 0 ELSE endExclusive,
    verdict <- IF outcome = "ok" THEN "ok" ELSE "none"

PromiseKept == Promise!ASpec

\* A run ends, whatever the exchange holds and wherever the files stop.
RunTerminates == (pc # "idle") ~> (pc = "idle")

-----------------------------------------------------------------------------
(* What the comments and the README say, and the code does not keep.         *)

\* collector.rs: "a window is at most 1500 bars".
WindowFits == Asks => Fits

\* collector.rs: "Resume from the top of the probe window, so nothing between
\* the cursor and the probe can be skipped."
ProbeSkipsNothing ==
    [][ProbeHit => Window(upstream, cursor', cursor) \subseteq bars \cup buffer]_vars

\* README: "probing deeper in exponentially growing steps so a long delisting gap
\* cannot silently truncate history."
GapCannotTruncate ==
    [][ProbeEnds => Window(upstream, 0, cursor) \subseteq bars \cup buffer]_vars

\* collector.rs: "Free jump: the file already holds everything this period still
\* needs."
FreeJumpMissesNothing ==
    [][JumpCovered => Window(upstream, NeededLo, cursor) \subseteq bars \cup buffer]_vars

\* README: "A `--start` bounds where a run looks, so it proves nothing about what
\* lies deeper and never loosens a recorded floor": once a default run succeeds,
\* everything is there.
DefaultRunReachesBottom ==
    [][(Ends /\ startAt = None) =>
           Window(upstream, 0, endExclusive) \subseteq bars']_vars

\* README: "trusting the probe over the data would have hidden them."
DailyProbeHidesNothing ==
    [][(DiscoverEnds /\ scanLo' # None) => Window(upstream, 0, scanLo') = {}]_vars

\* README: "An interrupted run keeps everything it already fetched."
InterruptionKeepsFetched ==
    [][(pc # "idle" /\ outcome' = "failed" /\ ~dryRun) => buffer \subseteq bars']_vars
=============================================================================
