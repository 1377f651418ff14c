--------------------------- MODULE SeriesWalkProofs ---------------------------
(***************************************************************************)
(* Proofs about SeriesWalk for every clock bound, partitioning, window     *)
(* size and exchange.                                                      *)
(***************************************************************************)
EXTENDS SeriesWalk, WellFoundedInduction, TLAPS

(* ---- The oldest and the newest of a set of slots ---- *)

\* Every nonempty set of bounded naturals has a least element; Min chooses it.
LEMMA MinIsLeast ==
    ASSUME NEW N \in Nat, NEW S \in SUBSET (0 .. N), S # {}
    PROVE  Min(S) \in S /\ \A x \in S : Min(S) <= x
<1>1. S \subseteq Nat
    OBVIOUS
<1>2. PICK m \in S : \A y \in S : ~(<<y, m>> \in OpToRel(<, Nat))
    BY <1>1, NatLessThanWellFounded, WFMin
<1>3. ASSUME NEW y \in S PROVE ~(y < m)
    <2>1. <<y, m>> \in Nat \X Nat
        BY <1>1
    <2>2. y < m => <<y, m>> \in OpToRel(<, Nat)
        BY <2>1 DEF OpToRel
    <2> QED BY <1>2, <2>2
<1>4. \A y \in S : m <= y
    BY <1>1, <1>3
<1> QED BY <1>4 DEF Min

\* Every nonempty set of bounded naturals has a greatest element; Max chooses it.
LEMMA MaxIsGreatest ==
    ASSUME NEW N \in Nat, NEW S \in SUBSET (0 .. N), S # {}
    PROVE  Max(S) \in S /\ \A x \in S : x <= Max(S)
<1> DEFINE Mirror == {N - x : x \in S}
<1>1. \A x \in S : x \in 0 .. N /\ N - x \in 0 .. N
    OBVIOUS
<1>2. Mirror \in SUBSET (0 .. N) /\ Mirror # {}
    BY <1>1
<1>3. Min(Mirror) \in Mirror /\ \A y \in Mirror : Min(Mirror) <= y
    BY <1>2, MinIsLeast
<1>4. PICK m \in S : Min(Mirror) = N - m
    BY <1>3
<1>5. ASSUME NEW x \in S PROVE m >= x
    <2>1. Min(Mirror) <= N - x
        BY <1>3
    <2> QED BY <1>4, <2>1, <1>1
<1>6. Max(S) \in S /\ \A x \in S : Max(S) >= x
    BY <1>5 DEF Max
<1> QED BY <1>6, <1>1

\* The two facts at the sets they are used for.
LEMMA MinOfSlots ==
    ASSUME NEW S \in SUBSET Slot, S # {}
    PROVE  Min(S) \in S /\ \A x \in S : Min(S) <= x
BY MinIsLeast, BoundsAssumption DEF Slot

LEMMA MaxOfSlots ==
    ASSUME NEW S \in SUBSET Slot, S # {}
    PROVE  Max(S) \in S /\ \A x \in S : x <= Max(S)
BY MaxIsGreatest, BoundsAssumption DEF Slot

(* ---- Types ---- *)

\* A partition start is a slot, and the slots of a partition lie above it.
LEMMA Partitions ==
    /\ Period \subseteq Slot
    /\ \A t \in Slot : StartOf[t] \in Period
    /\ \A p \in Period : HeadOf[p] \in Slot /\ HeadOf[p] <= p
    /\ \A p \in Period : StartOf[p] = p
BY PartitionAssumption DEF Period

LEMMA BarIsSlot == Bar \subseteq Slot
BY BoundsAssumption DEF Bar, Slot

LEMMA RecordedFloorType ==
    ASSUME TypeOK
    PROVE  RecordedFloor(bars, floors) \in Slot \cup {None}
<1>1. CASE bars = {}
    BY <1>1 DEF RecordedFloor
<1>2. CASE bars # {}
    <2>1. Min(bars) \in Slot
        BY <1>2, BarIsSlot, MinOfSlots DEF TypeOK
    <2> QED BY <1>2, <2>1, Partitions DEF RecordedFloor, TypeOK
<1> QED BY <1>1, <1>2

LEMMA DeepestType ==
    ASSUME NEW a \in Slot \cup {None}, NEW b \in Slot \cup {None}
    PROVE  Deepest(a, b) \in Slot \cup {None}
BY NoneAssumption, BoundsAssumption DEF Deepest, MinOf, Slot

LEMMA LowerBoundType ==
    ASSUME TypeOK, NEW s \in Starts
    PROVE  LowerBound(s) \in Slot \cup {None}
BY RecordedFloorType, InputAssumption DEF LowerBound

LEMMA TodayType == Today \in Day
<1> DEFINE Begun == {d \in Day : DayStart[d] <= now} \cup {0}
<1>1. Begun \in SUBSET (0 .. MaxDay) /\ Begun # {}
    BY BoundsAssumption DEF Day
<1>2. Max(Begun) \in Begun
    BY <1>1, MaxIsGreatest, BoundsAssumption
<1> QED BY <1>1, <1>2 DEF Today, Day

\* The bar the next window is to deliver, and the bound it must reach down to.
LEMMA WantedType ==
    ASSUME TypeOK, MoreToScan
    PROVE  /\ NewestWanted \in Slot /\ NewestWanted = cursor - 1
           /\ Wanted \in Period /\ Wanted <= NewestWanted
           /\ NeededLo \in Slot /\ NeededLo < cursor
           /\ scanLo # None => scanLo <= NeededLo
<1>1. NewestWanted \in Slot /\ NewestWanted = cursor - 1
    BY BoundsAssumption DEF TypeOK, MoreToScan, NewestWanted, Slot
<1>2. Wanted \in Period /\ Wanted <= NewestWanted
    BY <1>1, Partitions, PartitionAssumption DEF Wanted
<1>3. HeadOf[Wanted] \in Slot /\ HeadOf[Wanted] < cursor
    BY <1>1, <1>2, Partitions, BoundsAssumption DEF Slot, TypeOK
<1>4. NeededLo \in Slot /\ NeededLo < cursor /\ (scanLo # None => scanLo <= NeededLo)
    BY <1>3 DEF NeededLo, MaxOf, TypeOK, MoreToScan, Slot
<1> QED BY <1>1, <1>2, <1>4

\* A window the walk asks for.
LEMMA FromType ==
    ASSUME TypeOK, Asks
    PROVE  From \in Slot /\ From < cursor /\ NeededLo <= From
<1>1. MoreToScan /\ From < cursor
    BY DEF Asks, Walking
<1>2. NeededLo \in Slot /\ NeededLo < cursor
    BY <1>1, WantedType
<1>3. WindowStart \in Int
    <2>1. CASE HeadHeld
        <3>1. HeldIn \in SUBSET Slot /\ HeldIn # {}
            BY <2>1, BarIsSlot DEF HeadHeld, HeldIn, InPeriod, TypeOK
        <3>2. Max(HeldIn) \in Slot
            BY <3>1, MaxOfSlots
        <3> QED BY <2>1, <3>2, <1>2, BoundsAssumption DEF WindowStart, MaxOf, Slot
    <2>2. CASE ~HeadHeld
        BY <2>2, BoundsAssumption DEF WindowStart, TypeOK, Slot
    <2> QED BY <2>1, <2>2
<1>4. From \in Int /\ NeededLo <= From
    BY <1>2, <1>3 DEF From, MaxOf, Slot
<1>5. cursor \in Slot
    BY DEF TypeOK
<1> QED BY <1>1, <1>2, <1>4, <1>5, BoundsAssumption DEF Slot

LEMMA TypeInit == Init => TypeOK
<1> SUFFICES ASSUME Init PROVE TypeOK
    OBVIOUS
<1>1. upstream \subseteq Bar /\ daily \subseteq Day
    BY InputAssumption DEF Init
<1>2. floors \in [Period -> Slot \cup {None}]
    BY DEF Init
<1>3. 0 \in Slot /\ NoProbe \in ProbeState
    BY BoundsAssumption DEF Slot, NoProbe, ProbeState
<1> QED BY <1>1, <1>2, <1>3 DEF Init, TypeOK

LEMMA TypeTick == TypeOK /\ Tick => TypeOK'
BY BoundsAssumption DEF TypeOK, Tick, Slot, world, disk, run

LEMMA TypeBeginRun ==
    ASSUME TypeOK, NEW s \in Starts, NEW dry \in BOOLEAN, BeginRun(s, dry)
    PROVE  TypeOK'
<1>1. LowerBound(s) \in Slot \cup {None} /\ s \in Slot \cup {None}
    BY LowerBoundType, InputAssumption
<1>2. Deepest(RecordedFloor(bars, floors), s) \in Slot \cup {None}
    BY <1>1, RecordedFloorType, DeepestType
<1>3. probe' \in ProbeState
    BY TodayType, BoundsAssumption DEF BeginRun, ProbeState, NoProbe, Day
<1>4. upToDate' \in BOOLEAN /\ leapt' \in BOOLEAN /\ discovery' \in BOOLEAN
    BY ZenonT(30) DEF BeginRun, TypeOK
<1>5. pc' \in {"idle", "discover", "walk", "flush", "probe", "drain"}
    BY DEF BeginRun
<1>6. /\ scanLo' = LowerBound(s) /\ startAt' = s /\ dryRun' = dry
      /\ endExclusive' = now /\ cursor' = now /\ held' = bars
      /\ floorWritten' = Deepest(RecordedFloor(bars, floors), s)
      /\ outcome' = "none"
      /\ UNCHANGED <<world, now, disk, empties, buffer, asked>>
    BY DEF BeginRun
<1> QED BY <1>1, <1>2, <1>3, <1>4, <1>5, <1>6 DEF TypeOK, world, disk

LEMMA TypeForget ==
    ASSUME TypeOK, Forget, UNCHANGED <<world, now, bars, leapt>>,
           floors' \in [Period -> Slot \cup {None}],
           outcome' \in {"none", "ok", "dry", "failed"}
    PROVE  TypeOK'
<1>1. 0 \in Slot /\ NoProbe \in ProbeState
    BY BoundsAssumption DEF Slot, NoProbe, ProbeState
<1> QED BY <1>1 DEF TypeOK, Forget, world

LEMMA TypeDiscover ==
    TypeOK /\ (DiscoverWindow \/ DiscoverEnds \/ DiscoverFails) => TypeOK'
<1> SUFFICES ASSUME TypeOK, DiscoverWindow \/ DiscoverEnds \/ DiscoverFails
             PROVE  TypeOK'
    OBVIOUS
<1> USE DEF walkState, world, disk
<1>1. CASE DiscoverWindow
    <2>1. DailyBars \in SUBSET (0 .. MaxDay) /\ DailyBars # {}
        BY <1>1 DEF DiscoverWindow, DailyBars, Window, TypeOK, Day
    <2>2. Min(DailyBars) \in Day
        BY <2>1, MinIsLeast, BoundsAssumption DEF Day
    <2>3. probe.left - 1 \in Nat
        BY <1>1 DEF DiscoverWindow, DailyGoesOn, TypeOK, ProbeState
    <2>4. probe' \in ProbeState
        BY <1>1, <2>2, <2>3 DEF DiscoverWindow, ProbeState, Day
    <2> QED BY <1>1, <2>4 DEF DiscoverWindow, TypeOK
<1>2. CASE DiscoverEnds
    <2>1. NoProbe \in ProbeState
        BY DEF NoProbe, ProbeState
    <2>2. probe.found # None => DayStart[probe.found] \in Slot
        BY InputAssumption DEF TypeOK, ProbeState
    <2>3. asked' \in BOOLEAN
        BY <1>2 DEF DiscoverEnds, TypeOK
    <2> QED BY <1>2, <2>1, <2>2, <2>3 DEF DiscoverEnds, TypeOK
<1>3. CASE DiscoverFails
    <2>1. NoProbe \in ProbeState
        BY DEF NoProbe, ProbeState
    <2> QED BY <1>3, <2>1 DEF DiscoverFails, TypeOK
<1> QED BY <1>1, <1>2, <1>3

LEMMA TypeWalk ==
    ASSUME TypeOK, \/ JumpCovered \/ JumpToHead \/ FetchBars \/ FetchNothing
                   \/ EndWalk
    PROVE  TypeOK'
<1> USE DEF unwalked, world, disk
<1>1. CASE JumpCovered
    <2>1. NeededLo \in Slot
        BY <1>1, WantedType DEF JumpCovered, Walking
    <2> QED BY <1>1, <2>1 DEF JumpCovered, AfterFetch, TypeOK
<1>2. CASE JumpToHead
    <2>1. HeldIn \in SUBSET Slot /\ HeldIn # {}
        BY <1>2, BarIsSlot DEF JumpToHead, TailHeld, HeldIn, InPeriod, TypeOK
    <2>2. Min(HeldIn) \in Slot
        BY <2>1, MinOfSlots
    <2> QED BY <1>2, <2>2 DEF JumpToHead, TypeOK
<1>3. CASE FetchBars
    <2>1. From \in Slot
        BY <1>3, FromType DEF FetchBars
    <2>2. Fetched \subseteq Bar
        BY DEF Fetched, Window, TypeOK
    <2> QED BY <1>3, <2>1, <2>2 DEF FetchBars, AfterFetch, TypeOK
<1>4. CASE FetchNothing
    <2>1. From \in Slot
        BY <1>4, FromType DEF FetchNothing
    <2>2. empties' \in Nat
        BY <1>4 DEF FetchNothing, TypeOK
    <2>3. Limit * ProbeFactor \in Nat
        BY BoundsAssumption
    <2>4. probe' \in ProbeState
        BY <1>4, <2>3, BoundsAssumption DEF FetchNothing, TypeOK, ProbeState
    <2> QED BY <1>4, <2>1, <2>2, <2>4 DEF FetchNothing, TypeOK
<1>5. CASE EndWalk
    BY <1>5 DEF EndWalk, TypeOK
<1> QED BY <1>1, <1>2, <1>3, <1>4, <1>5

LEMMA TypeProbe ==
    ASSUME TypeOK, ProbeHit \/ ProbeMiss \/ ProbeEnds
    PROVE  TypeOK'
<1> USE DEF unwalked, world, disk
<1>1. NoProbe \in ProbeState
    BY DEF NoProbe, ProbeState
<1>2. CASE ProbeHit
    <2>1. ProbeTop \in Int /\ ProbeTop > 0 /\ cursor \in Slot
        BY <1>2, BoundsAssumption
           DEF ProbeHit, Probing, ProbeTop, TypeOK, ProbeState, Slot
    <2>2. MinOf(cursor, ProbeTop) \in Slot
        BY <2>1, BoundsAssumption DEF MinOf, Slot
    <2>3. leapt' \in BOOLEAN
        BY <1>2, ZenonT(30) DEF ProbeHit, TypeOK
    <2> QED BY <1>1, <1>2, <2>2, <2>3 DEF ProbeHit, TypeOK
<1>3. CASE ProbeMiss
    <2>1. probe.at * ProbeFactor \in Nat
        BY BoundsAssumption DEF TypeOK, ProbeState
    <2>2. probe.left - 1 \in Nat
        BY <1>3 DEF ProbeMiss, Probing, TypeOK, ProbeState
    <2>3. probe' \in ProbeState
        BY <1>3, <2>1, <2>2 DEF ProbeMiss, TypeOK, ProbeState
    <2> QED BY <1>3, <2>3 DEF ProbeMiss, TypeOK
<1>4. CASE ProbeEnds
    <2>1. leapt' \in BOOLEAN
        BY <1>4, ZenonT(30) DEF ProbeEnds, TypeOK
    <2> QED BY <1>1, <1>4, <2>1 DEF ProbeEnds, TypeOK
<1> QED BY <1>2, <1>3, <1>4

LEMMA TypeWriteFile ==
    ASSUME TypeOK, NEW p \in Period, WriteFile(p)
    PROVE  TypeOK'
<1> USE DEF world
<1>1. buffer' \subseteq Bar /\ InPeriod(buffer, p) \subseteq Bar
    BY DEF WriteFile, TypeOK, InPeriod
<1>2. bars' \subseteq Bar /\ held' \subseteq Bar
    BY <1>1 DEF WriteFile, MergeInto, InPeriod, TypeOK, disk
<1>3. floors' \in [Period -> Slot \cup {None}]
    <2>1. floors[p] \in Slot \cup {None} /\ floorWritten \in Slot \cup {None}
        BY DEF TypeOK
    <2>2. Deepest(floors[p], floorWritten) \in Slot \cup {None}
        BY <2>1, DeepestType
    <2>3. \/ floors' = floors
          \/ floors' = [floors EXCEPT ![p] = Deepest(@, floorWritten)]
        BY DEF WriteFile, MergeInto, disk
    <2> QED BY <2>2, <2>3 DEF TypeOK
<1>4. pc' \in {"idle", "discover", "walk", "flush", "probe", "drain"}
    BY DEF WriteFile, TypeOK
<1> QED BY <1>1, <1>2, <1>3, <1>4 DEF WriteFile, TypeOK

LEMMA TypeFinish ==
    ASSUME TypeOK, NEW stampFails \in BOOLEAN, Finish(stampFails)
    PROVE  TypeOK'
<1>1. LearntFloor \in Slot \cup {None}
    BY MinOfSlots, BarIsSlot DEF LearntFloor, TypeOK
<1>2. Stamps => StartOf[Min(bars)] \in Period
    BY MinOfSlots, BarIsSlot, Partitions DEF Stamps, TypeOK
<1>3. floors' \in [Period -> Slot \cup {None}]
    BY <1>1, <1>2 DEF Finish, TypeOK
<1> QED BY <1>3, TypeForget DEF Finish

LEMMA TypeAborts == TypeOK /\ (RefuseWindow \/ Abort) => TypeOK'
BY TypeForget DEF RefuseWindow, Abort, TypeOK, disk

LEMMA TypeStep == TypeOK /\ [Next]_vars => TypeOK'
<1> SUFFICES ASSUME TypeOK, [Next]_vars PROVE TypeOK'
    OBVIOUS
<1>1. CASE UNCHANGED vars
    BY <1>1 DEF vars, world, disk, run, TypeOK
<1>2. CASE Tick
    BY <1>2, TypeTick
<1>3. ASSUME NEW s \in Starts, NEW dry \in BOOLEAN, BeginRun(s, dry)
      PROVE  TypeOK'
    BY <1>3, TypeBeginRun
<1>4. ASSUME NEW p \in Period, WriteFile(p)
      PROVE  TypeOK'
    BY <1>4, TypeWriteFile
<1>5. ASSUME NEW stampFails \in BOOLEAN, Finish(stampFails)
      PROVE  TypeOK'
    BY <1>5, TypeFinish
<1> QED BY <1>1, <1>2, <1>3, <1>4, <1>5, TypeDiscover, TypeWalk, TypeProbe,
           TypeAborts DEF Next, RunStep

\* The fields of a run and the partition files keep their types: in particular
\* the cursor and every window bound stay on the timeline, however far a probe
\* or a resumed window reaches.
THEOREM TypeCorrect == Spec => []TypeOK
BY TypeInit, TypeStep, PTL DEF Spec

(* ---- The inductive invariant ---- *)

LEMMA EmptyWindow ==
    ASSUME TypeOK, NEW c \in Slot
    PROVE  Window(upstream, c, c) = {}
<1>1. \A t \in upstream : t \in Int /\ c \in Int
    BY BarIsSlot, BoundsAssumption DEF TypeOK, Slot
<1>2. \A t \in upstream : ~(c <= t /\ t < c)
    BY <1>1
<1> QED BY <1>2 DEF Window

LEMMA InvInit == Init => WalkInv
BY NoneAssumption
   DEF Init, WalkInv, RunState, OnlyFinishedBars, BottomBelowData, NothingSkipped,
       NoHoleInsideFile, JoinsAtStart, JoinsBelow, Window

LEMMA InvTick == TypeOK /\ WalkInv /\ Tick => WalkInv'
<1> SUFFICES ASSUME TypeOK, WalkInv, Tick PROVE WalkInv'
    OBVIOUS
<1> USE DEF Tick, world, disk, run
<1>1. RunState'
    BY DEF WalkInv, RunState, TypeOK, Slot, Window
<1>2. OnlyFinishedBars'
    BY BoundsAssumption DEF WalkInv, OnlyFinishedBars, TypeOK, Slot, Bar, Window
<1>3. /\ BottomBelowData' /\ NothingSkipped' /\ NoHoleInsideFile'
      /\ JoinsAtStart' /\ JoinsBelow'
    BY DEF WalkInv, BottomBelowData, NothingSkipped, NoHoleInsideFile,
           JoinsAtStart, JoinsBelow, Window
<1> QED BY <1>1, <1>2, <1>3 DEF WalkInv

\* Between runs only what is said of the files alone has to hold.
LEMMA InvForget ==
    ASSUME TypeOK, WalkInv, Forget, UNCHANGED <<world, now, bars, leapt>>
    PROVE  WalkInv'
<1> USE DEF Forget, world
<1>1. RunState'
    BY BoundsAssumption DEF RunState, TypeOK, Slot, Window
<1>2. OnlyFinishedBars' /\ NoHoleInsideFile'
    BY DEF WalkInv, OnlyFinishedBars, NoHoleInsideFile, Window
<1>3. BottomBelowData' /\ NothingSkipped' /\ JoinsAtStart' /\ JoinsBelow'
    BY DEF BottomBelowData, NothingSkipped, JoinsAtStart, JoinsBelow
<1> QED BY <1>1, <1>2, <1>3 DEF WalkInv

\* The lower bound of a run with a start is that start; without one it is never
\* above the oldest bar on disk.
LEMMA LowerBoundIs ==
    ASSUME TypeOK, NEW s \in Starts
    PROVE  /\ s # None => LowerBound(s) = s
           /\ (s = None /\ LowerBound(s) # None) =>
                  \A b \in bars : LowerBound(s) <= b
<1>1. s # None => LowerBound(s) = s
    BY DEF LowerBound
<1>2. ASSUME s = None, LowerBound(s) # None, NEW b \in bars
      PROVE  LowerBound(s) <= b
    <2>1. bars \in SUBSET Slot
        BY BarIsSlot DEF TypeOK
    <2>2. Min(bars) \in Slot /\ Min(bars) <= b
        BY <2>1, MinOfSlots
    <2>3. LowerBound(s) = RecordedFloor(bars, floors) /\ ~(Min(bars) < LowerBound(s))
        BY <1>2 DEF LowerBound
    <2>4. LowerBound(s) \in Slot
        BY <1>2, LowerBoundType
    <2> QED BY <2>1, <2>2, <2>3, <2>4, BoundsAssumption DEF Slot
<1> QED BY <1>1, <1>2

LEMMA InvBeginRun ==
    ASSUME TypeOK, WalkInv, NEW s \in Starts, NEW dry \in BOOLEAN, BeginRun(s, dry)
    PROVE  WalkInv'
<1>1. /\ pc = "idle" /\ pc' \in {"discover", "walk"}
      /\ scanLo' = LowerBound(s) /\ startAt' = s /\ dryRun' = dry
      /\ endExclusive' = now /\ cursor' = now /\ held' = bars
      /\ discovery' = (LowerBound(s) = None)
      /\ leapt' = (leapt \/ (~dry /\ StartsPastStored(s)))
      /\ outcome' = "none"
      /\ UNCHANGED <<upstream, now, bars, buffer>>
    BY DEF BeginRun, world, disk
<1>2. pc' = "discover" => LowerBound(s) = None /\ bars = {}
    BY DEF BeginRun
<1>3. buffer = {}
    BY <1>1 DEF WalkInv, RunState
<1>4. RunState'
    <2>1. now <= now
        BY BoundsAssumption DEF TypeOK, Slot
    <2>2. bars \subseteq upstream /\ bars \subseteq Window(upstream, 0, now)
        BY DEF WalkInv, OnlyFinishedBars, Window
    <2>3. s # None => LowerBound(s) = s
        BY LowerBoundIs
    <2> QED BY <1>1, <1>2, <1>3, <2>1, <2>2, <2>3 DEF RunState, Window
<1>5. OnlyFinishedBars' /\ NoHoleInsideFile'
    BY <1>1 DEF WalkInv, OnlyFinishedBars, NoHoleInsideFile, Window
<1>6. BottomBelowData'
    BY <1>1, LowerBoundIs DEF BottomBelowData
<1>7. NothingSkipped'
    <2>1. Window(upstream, now, now) = {}
        BY EmptyWindow DEF TypeOK
    <2> QED BY <1>1, <2>1 DEF NothingSkipped, Window
<1>8. JoinsAtStart' /\ JoinsBelow'
    BY <1>1 DEF JoinsAtStart, JoinsBelow, StartsPastStored
<1> QED BY <1>4, <1>5, <1>6, <1>7, <1>8 DEF WalkInv

LEMMA InvDiscover ==
    ASSUME TypeOK, WalkInv, DiscoverWindow \/ DiscoverEnds \/ DiscoverFails
    PROVE  WalkInv'
<1>1. /\ pc = "discover" /\ pc' \in {"discover", "walk"}
      /\ UNCHANGED <<upstream, now, bars, startAt, dryRun, endExclusive, held,
                     cursor, buffer, leapt, outcome>>
      /\ \/ UNCHANGED <<scanLo, discovery>>
         \/ discovery' = FALSE /\ pc' = "walk"
    BY DEF DiscoverWindow, DiscoverEnds, DiscoverFails, walkState, world, disk
<1>2. bars = {} /\ buffer = {} /\ cursor = endExclusive /\ startAt = None
    BY <1>1 DEF WalkInv, RunState
<1>3. RunState'
    BY <1>1, <1>2 DEF WalkInv, RunState, Window
<1>4. NothingSkipped'
    <2>1. Window(upstream, cursor, cursor) = {}
        BY EmptyWindow DEF TypeOK
    <2> QED BY <1>1, <1>2, <2>1 DEF NothingSkipped, Window
<1>5. /\ OnlyFinishedBars' /\ BottomBelowData' /\ NoHoleInsideFile'
      /\ JoinsAtStart' /\ JoinsBelow'
    BY <1>1, <1>2 DEF OnlyFinishedBars, BottomBelowData, NoHoleInsideFile,
                      JoinsAtStart, JoinsBelow
<1> QED BY <1>3, <1>4, <1>5 DEF WalkInv

\* A turn of the walk leaves the files alone; what it has to keep is what is
\* said of its cursor and its buffer.
LEMMA InvMoves ==
    ASSUME TypeOK, WalkInv, UNCHANGED unwalked, pc # "idle", pc' # "idle",
           leapt => leapt', RunState', NothingSkipped', JoinsBelow'
    PROVE  WalkInv'
BY DEF WalkInv, OnlyFinishedBars, BottomBelowData, NoHoleInsideFile, JoinsAtStart,
       unwalked, world, disk, Window

\* A cursor that only descends, over a buffer that only takes what it passed.
LEMMA RunStateMoves ==
    ASSUME TypeOK, WalkInv, UNCHANGED unwalked, pc # "idle",
           pc' \in {"walk", "flush", "probe", "drain"},
           NEW c \in Slot, cursor' = c, c <= cursor,
           buffer' \subseteq buffer \cup Window(upstream, c, cursor),
           scanLo # None => \A t \in buffer' : scanLo <= t,
           pc' = "probe" => discovery,
           (pc' = "drain" /\ scanLo # None) => c <= scanLo
    PROVE  RunState'
<1>1. buffer \subseteq Window(upstream, cursor, endExclusive)
      /\ endExclusive <= now /\ cursor <= endExclusive
    BY DEF WalkInv, RunState
<1>2. /\ c \in Int /\ cursor \in Int /\ endExclusive \in Int
      /\ \A t \in upstream : t \in Int
    BY BarIsSlot, BoundsAssumption DEF TypeOK, Slot
<1>3. buffer' \subseteq Window(upstream, c, endExclusive)
    BY <1>1, <1>2 DEF Window
<1>4. c <= endExclusive
    BY <1>1, <1>2
<1> QED BY <1>1, <1>3, <1>4 DEF RunState, WalkInv, unwalked, world, disk, Window

\* Whatever the cursor passed over is in a file or in the buffer.
LEMMA NothingSkippedMoves ==
    ASSUME TypeOK, WalkInv, UNCHANGED unwalked,
           pc \in {"walk", "flush", "probe", "drain"},
           leapt => leapt', buffer \subseteq buffer',
           NEW c \in Slot, cursor' = c, c <= cursor,
           (~dryRun /\ ~leapt') => Window(upstream, c, cursor) \subseteq bars \cup buffer'
    PROVE  NothingSkipped'
<1> SUFFICES ASSUME ~dryRun, ~leapt'
             PROVE  Window(upstream, c, endExclusive) \subseteq bars \cup buffer'
    BY DEF NothingSkipped, unwalked, world, disk, Window
<1>1. Window(upstream, cursor, endExclusive) \subseteq bars \cup buffer
    BY DEF WalkInv, NothingSkipped
<1>2. Window(upstream, c, cursor) \subseteq bars \cup buffer'
    OBVIOUS
<1>3. /\ c \in Int /\ cursor \in Int
      /\ \A t \in upstream : t \in Int
    BY BarIsSlot, BoundsAssumption DEF TypeOK, Slot
<1> QED BY <1>1, <1>2, <1>3 DEF Window

\* A file that reaches over a stretch holds all of it.
LEMMA FileHoldsStretch ==
    ASSUME TypeOK, WalkInv, MoreToScan, ~dryRun, ~leapt, pc # "idle",
           NEW a \in HeldIn, NEW b \in HeldIn, NewestWanted <= b
    PROVE  Window(upstream, a, cursor) \subseteq bars
<1>1. held = bars
    BY DEF WalkInv, RunState
<1>2. a \in bars /\ b \in bars /\ StartOf[a] = StartOf[b]
    BY <1>1 DEF HeldIn, InPeriod
<1>3. \A t \in upstream : (a <= t /\ t <= b) => t \in bars
    BY <1>2 DEF WalkInv, NoHoleInsideFile
<1>4. /\ cursor \in Int /\ b \in Int /\ NewestWanted = cursor - 1
      /\ \A t \in upstream : t \in Int
    BY <1>2, WantedType, BarIsSlot, BoundsAssumption DEF TypeOK, Slot
<1> QED BY <1>3, <1>4 DEF Window

LEMMA InvJumpCovered == TypeOK /\ WalkInv /\ JumpCovered => WalkInv'
<1> SUFFICES ASSUME TypeOK, WalkInv, JumpCovered PROVE WalkInv'
    OBVIOUS
<1>1. /\ pc = "walk" /\ pc' \in {"walk", "flush"} /\ MoreToScan
      /\ HeadHeld /\ TailHeld /\ cursor' = NeededLo
      /\ UNCHANGED unwalked /\ buffer' = buffer /\ leapt' = leapt
    BY DEF JumpCovered, Walking, AfterFetch
<1>2. NeededLo \in Slot /\ NeededLo <= cursor
    BY <1>1, WantedType, BoundsAssumption DEF TypeOK, Slot
<1>3. RunState'
    <2>1. scanLo # None => \A t \in buffer' : scanLo <= t
        BY <1>1 DEF WalkInv, RunState
    <2> QED BY <1>1, <1>2, <2>1, RunStateMoves
<1>4. ASSUME ~dryRun, ~leapt
      PROVE  Window(upstream, NeededLo, cursor) \subseteq bars
    <2>1. PICK a \in HeldIn : a <= NeededLo
        BY <1>1 DEF HeadHeld
    <2>2. PICK b \in HeldIn : b >= NewestWanted
        BY <1>1 DEF TailHeld
    <2>3. a \in Int /\ b \in Int /\ NewestWanted \in Int /\ \A t \in upstream : t \in Int
        BY <1>1, WantedType, BarIsSlot, BoundsAssumption DEF TypeOK, Slot, HeldIn, InPeriod
    <2>4. NewestWanted <= b
        BY <2>2, <2>3
    <2>5. Window(upstream, a, cursor) \subseteq bars
        BY <1>1, <1>4, <2>4, FileHoldsStretch
    <2> QED BY <1>2, <2>1, <2>3, <2>5, BoundsAssumption DEF Window, Slot
<1>5. NothingSkipped'
    BY <1>1, <1>2, <1>4, NothingSkippedMoves
<1>6. JoinsBelow'
    BY <1>1 DEF JoinsBelow
<1> QED BY <1>1, <1>3, <1>5, <1>6, InvMoves

LEMMA InvJumpToHead == TypeOK /\ WalkInv /\ JumpToHead => WalkInv'
<1> SUFFICES ASSUME TypeOK, WalkInv, JumpToHead PROVE WalkInv'
    OBVIOUS
<1>1. /\ pc = "walk" /\ pc' = "walk" /\ MoreToScan
      /\ TailHeld /\ cursor' = Min(HeldIn) /\ cursor > Min(HeldIn)
      /\ UNCHANGED unwalked /\ buffer' = buffer /\ leapt' = leapt
    BY DEF JumpToHead, Walking
<1>2. HeldIn \in SUBSET Slot /\ HeldIn # {}
    BY <1>1, BarIsSlot DEF TailHeld, HeldIn, InPeriod, TypeOK
<1>0. Min(HeldIn) \in HeldIn /\ Min(HeldIn) \in Slot
    BY <1>2, MinOfSlots
<1>3. Min(HeldIn) \in HeldIn /\ Min(HeldIn) \in Slot /\ Min(HeldIn) <= cursor
    BY <1>0, <1>1, BoundsAssumption DEF TypeOK, Slot
<1>4. RunState'
    <2>1. scanLo # None => \A t \in buffer' : scanLo <= t
        BY <1>1 DEF WalkInv, RunState
    <2> QED BY <1>1, <1>3, <2>1, RunStateMoves
<1>5. ASSUME ~dryRun, ~leapt
      PROVE  Window(upstream, Min(HeldIn), cursor) \subseteq bars
    <2>1. PICK b \in HeldIn : b >= NewestWanted
        BY <1>1 DEF TailHeld
    <2>2. NewestWanted <= b
        BY <1>1, <1>2, <2>1, WantedType, BoundsAssumption DEF Slot
    <2> QED BY <1>1, <1>3, <1>5, <2>2, FileHoldsStretch
<1>6. NothingSkipped'
    BY <1>1, <1>3, <1>5, NothingSkippedMoves
<1>7. JoinsBelow'
    BY <1>1 DEF JoinsBelow
<1> QED BY <1>1, <1>4, <1>6, <1>7, InvMoves

LEMMA InvFetch == TypeOK /\ WalkInv /\ (FetchBars \/ FetchNothing) => WalkInv'
<1> SUFFICES ASSUME TypeOK, WalkInv, FetchBars \/ FetchNothing PROVE WalkInv'
    OBVIOUS
<1>1. /\ pc = "walk" /\ MoreToScan /\ Asks
      /\ pc' \in {"walk", "flush", "probe"} /\ (pc' = "probe" => discovery)
      /\ UNCHANGED unwalked /\ leapt' = leapt
      /\ buffer' = buffer \cup Fetched
      /\ cursor' \in {From, cursor}
      /\ cursor' = cursor => Fetched = {} \/ From = cursor
    BY DEF FetchBars, FetchNothing, Asks, Walking, AfterFetch
<1>2. From \in Slot /\ From < cursor /\ NeededLo <= From /\ NeededLo \in Slot
      /\ (scanLo # None => scanLo <= NeededLo)
    BY <1>1, FromType, WantedType
<1>3. cursor' \in Slot /\ cursor' <= cursor
    BY <1>1, <1>2, BoundsAssumption DEF TypeOK, Slot
<1>4. Fetched = {} \/ cursor' = From
    BY <1>1, <1>2, BoundsAssumption DEF TypeOK, Slot
<1>5. scanLo # None => \A t \in buffer' : scanLo <= t
    <2>1. scanLo # None => \A t \in buffer : scanLo <= t
        BY DEF WalkInv, RunState
    <2>2. ASSUME scanLo # None, NEW t \in Fetched PROVE scanLo <= t
        <3>1. From <= t /\ t \in Slot
            BY BarIsSlot DEF Fetched, Window, TypeOK
        <3>2. scanLo \in Slot /\ scanLo <= NeededLo
            BY <1>2, <2>2 DEF TypeOK
        <3> QED BY <1>2, <3>1, <3>2, BoundsAssumption DEF Slot
    <2> QED BY <1>1, <2>1, <2>2
<1>6. buffer' \subseteq buffer \cup Window(upstream, cursor', cursor)
    BY <1>1, <1>4 DEF Fetched
<1>7. RunState'
    BY <1>1, <1>3, <1>5, <1>6, RunStateMoves
<1>8. Window(upstream, cursor', cursor) \subseteq bars \cup buffer'
    <2>1. CASE cursor' = From
        BY <1>1, <2>1 DEF Fetched
    <2>2. CASE cursor' = cursor
        BY <2>2, EmptyWindow DEF TypeOK
    <2> QED BY <1>1, <2>1, <2>2
<1>9. NothingSkipped'
    BY <1>1, <1>3, <1>8, NothingSkippedMoves
<1>10. JoinsBelow'
    BY <1>1 DEF JoinsBelow
<1> QED BY <1>1, <1>7, <1>9, <1>10, InvMoves

\* The window the walk is about to ask for is never empty: the loop is only
\* left at the lower bound.
LEMMA WindowIsOpen ==
    ASSUME TypeOK, MoreToScan, ~Jumps
    PROVE  From < cursor /\ From \in Int
<1>1. NeededLo \in Slot /\ NeededLo < cursor /\ NewestWanted = cursor - 1
    BY WantedType
<1>2. cursor \in Int /\ WindowStart \in Int /\ WindowStart < cursor
    <2>1. cursor \in Int
        BY BoundsAssumption DEF TypeOK, Slot
    <2>2. CASE HeadHeld
        <3>1. HeldIn \in SUBSET Slot /\ HeldIn # {}
            BY <2>2, BarIsSlot DEF HeadHeld, HeldIn, InPeriod, TypeOK
        <3>2. Max(HeldIn) \in HeldIn /\ Max(HeldIn) \in Slot
            BY <3>1, MaxOfSlots
        <3>3. Max(HeldIn) < cursor
            BY <1>1, <2>1, <2>2, <3>2, BoundsAssumption DEF Jumps, TailHeld, Slot
        <3> QED BY <1>1, <2>1, <2>2, <3>2, <3>3, BoundsAssumption
                DEF WindowStart, MaxOf, Slot
    <2>3. CASE ~HeadHeld
        BY <2>1, <2>3, BoundsAssumption DEF WindowStart
    <2> QED BY <2>1, <2>2, <2>3
<1> QED BY <1>1, <1>2, BoundsAssumption DEF From, MaxOf, Slot

LEMMA InvEndWalk == TypeOK /\ WalkInv /\ EndWalk => WalkInv'
<1> SUFFICES ASSUME TypeOK, WalkInv, EndWalk PROVE WalkInv'
    OBVIOUS
<1>1. /\ pc = "walk" /\ pc' = "drain"
      /\ UNCHANGED unwalked /\ buffer' = buffer /\ leapt' = leapt
      /\ cursor' = cursor
    BY DEF EndWalk
<1>2. /\ cursor \in Slot /\ cursor <= cursor /\ cursor \in Int
      /\ \A t \in bars \cup upstream \cup buffer : t \in Int /\ t \in Slot /\ t > 0
    BY BarIsSlot, BoundsAssumption DEF TypeOK, Slot, Bar
<1>3. ~MoreToScan
    <2>1. SUFFICES ASSUME MoreToScan PROVE FALSE
        OBVIOUS
    <2>2. ~Jumps /\ From >= cursor
        BY <2>1 DEF EndWalk
    <2>3. From < cursor /\ From \in Int
        BY <2>1, <2>2, WindowIsOpen
    <2> QED BY <1>2, <2>2, <2>3
<1>4. cursor = 0 \/ (scanLo # None /\ cursor <= scanLo)
    BY <1>2, <1>3, BoundsAssumption DEF MoreToScan, Slot, TypeOK
<1>5. scanLo # None => cursor <= scanLo
    BY <1>4, BoundsAssumption DEF TypeOK, Slot
<1>6. RunState'
    <2>1. scanLo # None => \A t \in buffer' : scanLo <= t
        BY <1>1 DEF WalkInv, RunState
    <2> QED BY <1>1, <1>2, <1>5, <2>1, RunStateMoves
<1>7. NothingSkipped'
    BY <1>1, <1>2, EmptyWindow, NothingSkippedMoves
<1>8. ASSUME ~dryRun, ~leapt, NEW a \in bars, NEW t \in upstream, a < t, t < cursor,
             startAt = None \/ \E b \in buffer : StartOf[a] = StartOf[b]
      PROVE  t \in bars
    <2>1. cursor # 0
        BY <1>2, <1>8
    <2>2. scanLo # None /\ cursor <= scanLo /\ scanLo \in Int
        BY <1>4, <2>1, BoundsAssumption DEF TypeOK, Slot
    <2>3. a < scanLo /\ t < scanLo
        BY <1>2, <1>8, <2>2
    <2>4. startAt # None
        BY <1>1, <1>2, <2>2, <2>3 DEF WalkInv, BottomBelowData
    <2>5. scanLo = startAt /\ startAt \in Slot
        BY <1>1, <2>4 DEF WalkInv, RunState, TypeOK
    <2>6. PICK b \in buffer : StartOf[a] = StartOf[b]
        BY <1>8, <2>4
    <2>7. scanLo <= b
        BY <2>2 DEF WalkInv, RunState
    <2>8. StartOf[a] <= StartOf[startAt] /\ StartOf[startAt] <= StartOf[b]
        BY <1>2, <2>2, <2>3, <2>5, <2>7, PartitionAssumption
    <2>9. StartOf[a] = StartOf[startAt]
        BY <1>2, <2>5, <2>6, <2>8, PartitionAssumption, BoundsAssumption DEF Slot
    <2> QED BY <1>1, <1>8, <2>3, <2>4, <2>5, <2>9 DEF WalkInv, JoinsAtStart
<1>9. JoinsBelow'
    BY <1>1, <1>8 DEF JoinsBelow, unwalked, world, disk
<1> QED BY <1>1, <1>6, <1>7, <1>9, InvMoves

LEMMA InvProbe == TypeOK /\ WalkInv /\ (ProbeHit \/ ProbeMiss \/ ProbeEnds) => WalkInv'
<1> SUFFICES ASSUME TypeOK, WalkInv, ProbeHit \/ ProbeMiss \/ ProbeEnds PROVE WalkInv'
    OBVIOUS
<1>1. /\ pc = "probe" /\ pc' \in {"walk", "probe", "drain"}
      /\ UNCHANGED unwalked /\ buffer' = buffer /\ (leapt => leapt')
    <2>1. leapt => leapt'
        BY ZenonT(30) DEF ProbeHit, ProbeMiss, ProbeEnds
    <2>2. /\ pc = "probe" /\ pc' \in {"walk", "probe", "drain"}
          /\ UNCHANGED unwalked /\ buffer' = buffer
        BY DEF ProbeHit, ProbeMiss, ProbeEnds, Probing
    <2> QED BY <2>1, <2>2
<1>2. discovery /\ scanLo = None /\ startAt = None
    BY <1>1, NoneAssumption DEF WalkInv, RunState
<1>3. cursor \in Slot /\ cursor <= cursor
    BY BoundsAssumption DEF TypeOK, Slot
<1>4. CASE ProbeHit
    <2>1. ProbeTop \in Int /\ ProbeTop > 0
        BY <1>3, <1>4, BoundsAssumption
           DEF ProbeHit, Probing, ProbeTop, TypeOK, ProbeState, Slot
    <2>2. cursor' = MinOf(cursor, ProbeTop) /\ pc' = "walk"
        BY <1>4 DEF ProbeHit
    <2>3. cursor' \in Slot /\ cursor' <= cursor /\ (cursor' = cursor \/ cursor' = ProbeTop)
        BY <1>3, <2>1, <2>2, BoundsAssumption DEF MinOf, Slot
    <2>4. RunState'
        BY <1>1, <1>2, <2>2, <2>3, RunStateMoves
    <2>5. (~dryRun /\ ~leapt') => Window(upstream, cursor', cursor) \subseteq bars
        <3>1. (~dryRun /\ ~leapt') => Window(upstream, ProbeTop, cursor) \subseteq bars
            BY <1>4 DEF ProbeHit
        <3>2. Window(upstream, cursor, cursor) = {}
            BY <1>3, EmptyWindow
        <3> QED BY <2>3, <3>1, <3>2
    <2>6. NothingSkipped'
        BY <1>1, <2>3, <2>5, NothingSkippedMoves
    <2>7. JoinsBelow'
        BY <2>2 DEF JoinsBelow
    <2> QED BY <1>1, <2>2, <2>4, <2>6, <2>7, InvMoves
<1>5. CASE ProbeMiss \/ ProbeEnds
    <2>1. cursor' = cursor /\ pc' \in {"probe", "drain"}
        BY <1>1, <1>5 DEF ProbeMiss, ProbeEnds
    <2>2. RunState'
        BY <1>1, <1>2, <1>3, <2>1, RunStateMoves
    <2>3. NothingSkipped'
        BY <1>1, <1>3, <2>1, EmptyWindow, NothingSkippedMoves
    <2>4. JoinsBelow'
        <3>1. CASE ProbeMiss
            BY <1>1, <3>1 DEF JoinsBelow, ProbeMiss
        <3>2. CASE ProbeEnds
            <4>1. (~dryRun /\ ~leapt') =>
                    \A a \in bars, t \in upstream : (a < t /\ t < cursor) => t \in bars
                BY <3>2 DEF ProbeEnds
            <4> QED BY <1>1, <2>1, <4>1 DEF JoinsBelow, unwalked, world, disk
        <3> QED BY <1>5, <3>1, <3>2
    <2> QED BY <1>1, <2>1, <2>2, <2>3, <2>4, InvMoves
<1> QED BY <1>4, <1>5

\* Writing a partition moves its bars from the buffer to the file.  The file
\* stays whole because the walk has left the partition behind (flush_ready), or
\* because nothing is missing where it stopped inside it (flush_all).
LEMMA InvWriteFile ==
    ASSUME TypeOK, WalkInv, NEW p \in Period, WriteFile(p)
    PROVE  WalkInv'
<1> DEFINE chunk == InPeriod(buffer, p)
<1>1. /\ pc \in {"flush", "drain"} /\ pc' \in {"walk", "flush", "drain"}
      /\ (pc' = "drain" => pc = "drain")
      /\ p \in ToWrite
      /\ buffer' = buffer \ chunk
      /\ UNCHANGED <<upstream, now, startAt, dryRun, endExclusive, scanLo,
                     discovery, cursor, leapt, outcome>>
    BY DEF WriteFile, world
<1>2. dryRun => bars' = bars /\ held' = held \cup chunk
    BY DEF WriteFile, disk
<1>3. ~dryRun => /\ bars' = bars \cup chunk
                 /\ held' = (held \ InPeriod(held, p)) \cup InPeriod(bars', p)
    BY DEF WriteFile, MergeInto
<1>4. /\ buffer \subseteq Window(upstream, cursor, endExclusive)
      /\ endExclusive <= now /\ cursor <= endExclusive
      /\ scanLo # None => \A t \in buffer : scanLo <= t
      /\ ~dryRun => held = bars /\ bars \subseteq Window(upstream, 0, endExclusive)
    BY <1>1 DEF WalkInv, RunState
<1>5. /\ cursor \in Int /\ endExclusive \in Int /\ now \in Int /\ p \in Int
      /\ \A t \in bars \cup upstream \cup buffer : t \in Int /\ t \in Slot /\ t > 0
    BY BarIsSlot, Partitions, BoundsAssumption DEF TypeOK, Slot, Bar
<1>6. chunk \subseteq buffer /\ chunk \subseteq upstream
    BY <1>4 DEF InPeriod, Window
<1>7. chunk \subseteq Window(upstream, 0, endExclusive)
    BY <1>4, <1>5, <1>6 DEF Window
<1>8. RunState'
    <2>1. held' \subseteq upstream
        BY <1>2, <1>3, <1>4, <1>6 DEF WalkInv, RunState, InPeriod, Window
    <2>2. ~dryRun => held' = bars' /\ bars' \subseteq Window(upstream, 0, endExclusive)
        BY <1>3, <1>4, <1>7 DEF InPeriod
    <2>3. buffer' \subseteq Window(upstream, cursor, endExclusive)
        BY <1>1, <1>4
    <2>4. scanLo # None => \A t \in buffer' : scanLo <= t
        BY <1>1, <1>4
    <2> QED BY <1>1, <1>4, <2>1, <2>2, <2>3, <2>4 DEF WalkInv, RunState, Window
<1>9. OnlyFinishedBars'
    <2>1. Window(upstream, 0, endExclusive) \subseteq Window(upstream, 0, now)
        BY <1>4, <1>5 DEF Window
    <2> QED BY <1>1, <1>2, <1>3, <1>7, <2>1 DEF WalkInv, OnlyFinishedBars, Window
<1>10. BottomBelowData'
    BY <1>1, <1>2, <1>3, <1>4, <1>6 DEF WalkInv, BottomBelowData
<1>11. NothingSkipped'
    BY <1>1, <1>3 DEF WalkInv, NothingSkipped, Window
<1>12. JoinsAtStart'
    <2>1. SUFFICES ASSUME ~dryRun, ~leapt, startAt # None,
                          NEW a \in bars', NEW t \in upstream,
                          StartOf[a] = StartOf[startAt], a < t, t < startAt
                   PROVE  t \in bars'
        BY <1>1 DEF JoinsAtStart
    <2>2. scanLo = startAt /\ startAt \in Int
        BY <1>1, <2>1, BoundsAssumption DEF WalkInv, RunState, TypeOK, Slot
    <2>3. a \notin chunk
        BY <1>4, <1>5, <1>6, <2>1, <2>2
    <2>4. a \in bars
        BY <1>3, <2>1, <2>3
    <2> QED BY <1>1, <1>3, <2>1, <2>4 DEF WalkInv, JoinsAtStart
<1>13. ASSUME ~dryRun, ~leapt, NEW a \in bars', NEW b \in bars', NEW t \in upstream,
              a <= t, t <= b, StartOf[a] = StartOf[b]
       PROVE  t \in bars'
    <2>1. a \in Slot /\ b \in Slot /\ t \in Slot /\ a \in Int /\ b \in Int /\ t \in Int
        BY <1>3, <1>5, <1>6, <1>13
    <2>2. b < endExclusive
        BY <1>3, <1>4, <1>7, <1>13 DEF Window
    <2>3. StartOf[t] = StartOf[a]
        <3>1. StartOf[a] <= StartOf[t] /\ StartOf[t] <= StartOf[b]
            BY <1>13, <2>1, PartitionAssumption
        <3> QED BY <1>13, <2>1, <3>1, PartitionAssumption, BoundsAssumption DEF Slot
    <2>4. CASE StartOf[a] # p
        <3>1. a \in bars /\ b \in bars
            BY <1>3, <1>13, <2>4 DEF InPeriod
        <3> QED BY <1>3, <1>13, <3>1 DEF WalkInv, NoHoleInsideFile
    <2>5. CASE StartOf[a] = p /\ cursor <= t
        <3>1. t \in Window(upstream, cursor, endExclusive)
            BY <1>5, <1>13, <2>1, <2>2, <2>5 DEF Window
        <3>2. t \in bars \cup buffer
            BY <1>1, <1>13, <3>1 DEF WalkInv, NothingSkipped
        <3> QED BY <1>3, <1>13, <2>3, <2>5, <3>2 DEF InPeriod
    <2>6. CASE StartOf[a] = p /\ t < cursor
        <3>1. a \in bars
            BY <1>3, <1>4, <1>5, <1>6, <1>13, <2>1, <2>6 DEF Window
        <3>2. CASE pc = "drain"
            <4>1. PICK c \in buffer : StartOf[c] = p
                BY <1>1, <3>2 DEF ToWrite
            <4>2. CASE a = t
                BY <1>3, <1>13, <3>1, <4>2
            <4>3. CASE a < t
                BY <1>3, <1>13, <2>6, <3>1, <3>2, <4>1, <4>3 DEF WalkInv, JoinsBelow
            <4> QED BY <1>13, <2>1, <4>2, <4>3
        <3>3. CASE pc = "flush"
            <4>1. cursor <= HeadOf[p] /\ HeadOf[p] \in Int /\ HeadOf[p] <= p
                BY <1>1, <3>3, Partitions, BoundsAssumption DEF ToWrite, Ready, Slot
            <4>2. p <= t
                BY <2>1, <2>3, <2>6, PartitionAssumption
            <4> QED BY <1>5, <2>1, <2>6, <4>1, <4>2
        <3> QED BY <1>1, <3>2, <3>3
    <2> QED BY <1>5, <2>1, <2>4, <2>5, <2>6
<1>14. NoHoleInsideFile'
    BY <1>1, <1>2, <1>13 DEF WalkInv, NoHoleInsideFile
<1>15. JoinsBelow'
    <2>1. SUFFICES ASSUME ~dryRun, ~leapt, pc' = "drain",
                          NEW a \in bars', NEW t \in upstream, a < t, t < cursor,
                          startAt = None \/ \E b \in buffer' : StartOf[a] = StartOf[b]
                   PROVE  t \in bars'
        BY <1>1 DEF JoinsBelow
    <2>2. a \in bars
        BY <1>3, <1>4, <1>5, <1>6, <2>1 DEF Window
    <2> QED BY <1>1, <1>3, <2>1, <2>2 DEF WalkInv, JoinsBelow
<1> QED BY <1>8, <1>9, <1>10, <1>11, <1>12, <1>14, <1>15 DEF WalkInv

LEMMA InvStep == TypeOK /\ WalkInv /\ [Next]_vars => WalkInv'
<1> SUFFICES ASSUME TypeOK, WalkInv, [Next]_vars PROVE WalkInv'
    OBVIOUS
<1>1. CASE UNCHANGED vars
    BY <1>1 DEF vars, world, disk, run, WalkInv, RunState, OnlyFinishedBars,
                BottomBelowData, NothingSkipped, NoHoleInsideFile, JoinsAtStart,
                JoinsBelow, Window
<1>2. CASE Tick
    BY <1>2, InvTick
<1>3. ASSUME NEW s \in Starts, NEW dry \in BOOLEAN, BeginRun(s, dry)
      PROVE  WalkInv'
    BY <1>3, InvBeginRun
<1>4. ASSUME NEW p \in Period, WriteFile(p)
      PROVE  WalkInv'
    BY <1>4, InvWriteFile
<1>5. ASSUME NEW stampFails \in BOOLEAN, Finish(stampFails)
      PROVE  WalkInv'
    BY <1>5, InvForget DEF Finish
<1>6. CASE RefuseWindow \/ Abort
    BY <1>6, InvForget DEF RefuseWindow, Abort, disk
<1> QED BY <1>1, <1>2, <1>3, <1>4, <1>5, <1>6, InvDiscover, InvJumpCovered,
           InvJumpToHead, InvFetch, InvEndWalk, InvProbe DEF Next, RunStep

\* The inductive invariant holds in every reachable state.
THEOREM WalkInvariant == Spec => []WalkInv
<1>1. Init => TypeOK /\ WalkInv
    BY TypeInit, InvInit
<1>2. TypeOK /\ WalkInv /\ [Next]_vars => (TypeOK /\ WalkInv)'
    BY TypeStep, InvStep
<1> QED BY <1>1, <1>2, PTL DEF Spec

\* For every exchange, partitioning and sequence of runs and crashes: a file
\* holds every bar the exchange has between its first and its last, unless some
\* run passed over a stretch.  Reading only a file's first and last bar before
\* jumping over its middle is therefore sound.
THEOREM FilesHaveNoHoles == Spec => []NoHoleInsideFile
<1>1. WalkInv => NoHoleInsideFile
    BY DEF WalkInv
<1> QED BY <1>1, WalkInvariant, PTL

\* The walk has everything above its cursor, in files or in buffers, as long as
\* no run passed over bars it never asked for.
THEOREM WalkSkipsNothing == Spec => []NothingSkipped
<1>1. WalkInv => NothingSkipped
    BY DEF WalkInv
<1> QED BY <1>1, WalkInvariant, PTL

\* A default run never stops above data that is on disk, whatever the footers
\* claim.
THEOREM FloorHidesNoData == Spec => []BottomBelowData
<1>1. WalkInv => BottomBelowData
    BY DEF WalkInv
<1> QED BY <1>1, WalkInvariant, PTL

(* ---- Steps ---- *)

\* No step of any run takes a stored bar away.
LEMMA BarsGrow == [Next]_vars => bars \subseteq bars'
BY DEF Next, RunStep, vars, Tick, BeginRun, DiscoverWindow, DiscoverEnds,
       DiscoverFails, JumpCovered, JumpToHead, FetchBars, FetchNothing, EndWalk,
       ProbeHit, ProbeMiss, ProbeEnds, WriteFile, MergeInto, Finish, RefuseWindow,
       Abort, disk, unwalked

\* Merge, never truncate: an archive only grows, run after run.
THEOREM ArchiveOnlyGrows == Spec => NeverTruncates
<1>1. [Next]_vars => [bars \subseteq bars']_vars
    BY BarsGrow
<1> QED BY <1>1, PTL DEF Spec, NeverTruncates

\* Success is reported by Finish alone.
LEMMA OnlyFinishSucceeds ==
    ASSUME TypeOK, WalkInv, [Next]_vars, Ends
    PROVE  ~dryRun /\ \E stampFails \in BOOLEAN : Finish(stampFails)
<1>1. pc # "idle" /\ outcome = "none" /\ outcome' = "ok"
    BY DEF Ends, WalkInv, RunState
<1>2. \/ \E stampFails \in BOOLEAN : Finish(stampFails)
      \/ outcome' = outcome \/ outcome' = "failed" \/ pc = "idle"
    BY DEF Next, RunStep, vars, Tick, BeginRun, DiscoverWindow, DiscoverEnds,
           DiscoverFails, JumpCovered, JumpToHead, FetchBars, FetchNothing, EndWalk,
           ProbeHit, ProbeMiss, ProbeEnds, WriteFile, RefuseWindow, Abort, unwalked
<1>3. \E stampFails \in BOOLEAN : Finish(stampFails)
    BY <1>1, <1>2
<1> QED BY <1>1, <1>3 DEF Finish

\* What a writing run has on disk when its buffers are empty.
LEMMA DrainedIsComplete ==
    ASSUME TypeOK, WalkInv, pc = "drain", ~dryRun, ~leapt, buffer = {}
    PROVE  /\ Window(upstream, cursor, endExclusive) \subseteq bars
           /\ scanLo # None => Window(upstream, scanLo, endExclusive) \subseteq bars
<1>1. Window(upstream, cursor, endExclusive) \subseteq bars
    BY DEF WalkInv, NothingSkipped
<1>2. ASSUME scanLo # None PROVE Window(upstream, scanLo, endExclusive) \subseteq bars
    <2>1. cursor <= scanLo /\ scanLo \in Int /\ cursor \in Int /\ \A t \in upstream : t \in Int
        BY <1>2, BarIsSlot, BoundsAssumption DEF WalkInv, RunState, TypeOK, Slot
    <2> QED BY <1>1, <2>1 DEF Window
<1> QED BY <1>1, <1>2

\* A run that reports success holds everything between its bottom and its end, as
\* long as no run passed over bars it never asked for.
THEOREM SuccessIsComplete == Spec => OkMeansComplete
<1> DEFINE A == (Ends /\ ~leapt) => Window(upstream, Bottom, endExclusive) \subseteq bars'
<1>1. TypeOK /\ WalkInv /\ [Next]_vars => [A]_vars
    <2>1. SUFFICES ASSUME TypeOK, WalkInv, [Next]_vars, Ends, ~leapt
                   PROVE  Window(upstream, Bottom, endExclusive) \subseteq bars'
        OBVIOUS
    <2>2. ~dryRun /\ pc = "drain" /\ buffer = {} /\ bars' = bars
        BY <2>1, OnlyFinishSucceeds DEF Finish
    <2> QED BY <2>1, <2>2, DrainedIsComplete DEF Bottom
<1> QED BY <1>1, TypeCorrect, WalkInvariant, PTL DEF Spec, OkMeansComplete

(* ---- SeriesWalk implements Archive ---- *)

LEMMA PromiseInit == Init => Promise!AInit
BY InputAssumption DEF Init, Promise!AInit

\* A run that succeeds keeps the promise: the bottom it settled on is its start,
\* its lower bound, or, without either, the oldest bar it has joined.
LEMMA SuccessKeepsPromise ==
    ASSUME TypeOK, WalkInv, pc = "drain", ~dryRun, ~leapt, buffer = {}
    PROVE  \E bottom \in Slot : Promise!Complete(bottom)
<1> USE DEF Promise!Complete, Promise!Finished, Window
<1>1. /\ Window(upstream, cursor, endExclusive) \subseteq bars
      /\ scanLo # None => Window(upstream, scanLo, endExclusive) \subseteq bars
    BY DrainedIsComplete
<1>2. /\ cursor \in Slot /\ scanLo \in Slot \cup {None}
      /\ bars \in SUBSET Slot /\ upstream \in SUBSET Slot
      /\ \A t \in Slot : t \in Int
    BY BarIsSlot, BoundsAssumption DEF TypeOK, Slot
<1>3. CASE scanLo # None
    <2>1. startAt = None => \A b \in bars : scanLo <= b
        BY <1>3 DEF WalkInv, BottomBelowData
    <2>2. Promise!Complete(scanLo)
        BY <1>1, <1>3, <2>1
    <2> QED BY <1>2, <1>3, <2>2
<1>4. CASE scanLo = None
    <2>1. startAt = None
        BY <1>4 DEF WalkInv, RunState
    <2>2. CASE \A b \in bars : cursor <= b
        <3>1. Promise!Complete(cursor)
            BY <1>1, <2>2
        <3> QED BY <1>2, <3>1
    <2>3. CASE \E b \in bars : ~(cursor <= b)
        <3>1. Min(bars) \in bars /\ \A x \in bars : Min(bars) <= x
            BY <1>2, <2>3, MinOfSlots
        <3>2. ASSUME NEW t \in upstream, Min(bars) <= t, t < endExclusive
              PROVE  t \in bars
            <4>1. CASE t = Min(bars)
                BY <3>1, <4>1
            <4>2. CASE cursor <= t
                BY <1>1, <3>2, <4>2
            <4>3. CASE Min(bars) < t /\ t < cursor
                BY <2>1, <3>1, <4>3 DEF WalkInv, JoinsBelow
            <4>4. Min(bars) \in Int /\ t \in Int /\ cursor \in Int
                BY <1>2, <3>1
            <4> QED BY <3>2, <4>1, <4>2, <4>3, <4>4
        <3>3. Promise!Complete(Min(bars))
            BY <3>1, <3>2
        <3> QED BY <1>2, <3>1, <3>3
    <2> QED BY <2>2, <2>3
<1> QED BY <1>3, <1>4

\* Steps that the mapping does not show.
LEMMA PromiseStutters ==
    ASSUME UNCHANGED <<upstream, now, bars, startAt, dryRun, endExclusive, outcome,
                       leapt>>,
           pc = "idle" <=> pc' = "idle"
    PROVE  UNCHANGED Promise!avars
BY DEF Promise!avars

LEMMA PromiseFails ==
    ASSUME pc' = "idle" \/ dryRun', outcome' # "ok",
           UNCHANGED <<upstream, now, bars, leapt>>
    PROVE  Promise!AFail
BY DEF Promise!AFail

LEMMA PromiseStep ==
    TypeOK /\ WalkInv /\ [Next]_vars => [Promise!ANext]_(Promise!avars)
<1> SUFFICES ASSUME TypeOK, WalkInv, [Next]_vars
             PROVE  [Promise!ANext]_(Promise!avars)
    OBVIOUS
<1>1. CASE UNCHANGED vars
    BY <1>1, PromiseStutters DEF vars, world, disk, run
<1>2. CASE Tick
    <2>1. now' > now /\ now' <= MaxTime
        BY <1>2, BoundsAssumption DEF Tick, TypeOK, Slot
    <2>2. Promise!ATick
        BY <1>2, <2>1 DEF Promise!ATick, Tick, world, disk, run
    <2> QED BY <2>2 DEF Promise!ANext
<1>3. ASSUME NEW s \in Starts, NEW dry \in BOOLEAN, BeginRun(s, dry)
      PROVE  [Promise!ANext]_(Promise!avars)
    <2>1. /\ pc = "idle" /\ pc' # "idle" /\ startAt' = s /\ dryRun' = dry
          /\ endExclusive' = now /\ outcome' = "none"
          /\ UNCHANGED <<upstream, now, bars>>
        BY <1>3 DEF BeginRun, world, disk
    <2>2. leapt' = (leapt \/ (~dry /\ StartsPastStored(s)))
        BY <1>3 DEF BeginRun
    <2>3. CASE dry
        <3>1. leapt' = leapt
            BY <2>2, <2>3 DEF TypeOK
        <3>2. Promise!AFail
            BY <2>1, <2>3, <3>1, PromiseFails
        <3> QED BY <3>2 DEF Promise!ANext
    <2>4. CASE ~dry /\ s = None
        <3>1. leapt' = leapt
            BY <2>2, <2>4 DEF StartsPastStored, TypeOK
        <3>2. Promise!ABegin("default")
            BY <2>1, <2>4, <3>1 DEF Promise!ABegin
        <3> QED BY <3>2 DEF Promise!ANext
    <2>5. CASE ~dry /\ s # None
        <3>1. leapt' \in {leapt, TRUE}
            BY <2>2, <2>5 DEF TypeOK
        <3>2. Promise!ABegin("bounded")
            BY <2>1, <2>5, <3>1 DEF Promise!ABegin
        <3> QED BY <3>2 DEF Promise!ANext
    <2> QED BY <2>3, <2>4, <2>5
<1>4. CASE \/ DiscoverWindow \/ DiscoverEnds \/ DiscoverFails
           \/ JumpCovered \/ JumpToHead \/ FetchBars \/ FetchNothing
           \/ EndWalk \/ ProbeMiss
    <2>1. /\ UNCHANGED <<upstream, now, bars, startAt, dryRun, endExclusive,
                         outcome, leapt>>
          /\ pc # "idle" /\ pc' # "idle"
        BY <1>4 DEF DiscoverWindow, DiscoverEnds, DiscoverFails, JumpCovered,
                    JumpToHead, FetchBars, FetchNothing, EndWalk, ProbeMiss,
                    Probing, Asks, Walking, AfterFetch, walkState, unwalked,
                    world, disk
    <2> QED BY <2>1, PromiseStutters
<1>5. CASE ProbeHit \/ ProbeEnds
    <2>1. /\ UNCHANGED <<upstream, now, bars, startAt, dryRun, endExclusive,
                         outcome>>
          /\ pc # "idle" /\ pc' # "idle"
        BY <1>5 DEF ProbeHit, ProbeEnds, Probing, unwalked, world, disk
    <2>2. leapt' = leapt \/ (~dryRun /\ leapt' = TRUE)
        <3>1. CASE ProbeHit
            <4>1. leapt' = (leapt \/ (~dryRun /\ Window(upstream, ProbeTop, cursor) \ bars # {}))
                BY <3>1 DEF ProbeHit
            <4> QED BY <4>1 DEF TypeOK
        <3>2. CASE ProbeEnds
            <4>1. leapt' = (leapt \/ (~dryRun /\ \E t \in upstream \ bars, a \in bars : a < t /\ t < cursor))
                BY <3>2 DEF ProbeEnds
            <4> QED BY <4>1 DEF TypeOK
        <3> QED BY <1>5, <3>1, <3>2
    <2>3. CASE leapt' = leapt
        BY <2>1, <2>3, PromiseStutters
    <2>4. CASE ~dryRun /\ leapt' = TRUE
        <3>1. Promise!ALeap
            BY <2>1, <2>4 DEF Promise!ALeap
        <3> QED BY <3>1 DEF Promise!ANext
    <2> QED BY <2>2, <2>3, <2>4
<1>6. ASSUME NEW p \in Period, WriteFile(p)
      PROVE  [Promise!ANext]_(Promise!avars)
    <2>1. /\ UNCHANGED <<upstream, now, startAt, dryRun, endExclusive, outcome, leapt>>
          /\ pc # "idle" /\ pc' # "idle"
        BY <1>6 DEF WriteFile, world
    <2>2. CASE dryRun
        BY <1>6, <2>1, <2>2, PromiseStutters DEF WriteFile, disk
    <2>3. CASE ~dryRun
        <3>1. bars' = bars \cup InPeriod(buffer, p)
            BY <1>6, <2>3 DEF WriteFile, MergeInto
        <3>2. buffer \subseteq Window(upstream, cursor, endExclusive)
            BY DEF WalkInv, RunState
        <3>3. cursor \in Int /\ cursor >= 0 /\ \A t \in upstream : t \in Int
            BY BoundsAssumption DEF TypeOK, Slot, Bar
        <3>4. Window(upstream, cursor, endExclusive) \subseteq Window(upstream, 0, endExclusive)
            BY <3>3 DEF Window
        <3>5. InPeriod(buffer, p) \subseteq Window(upstream, 0, endExclusive)
            BY <3>2, <3>4 DEF InPeriod
        <3>6. Promise!AStore
            BY <2>1, <2>3, <3>1, <3>5 DEF Promise!AStore, Promise!Finished, Window
        <3> QED BY <3>6 DEF Promise!ANext
    <2> QED BY <2>2, <2>3
<1>7. ASSUME NEW stampFails \in BOOLEAN, Finish(stampFails)
      PROVE  [Promise!ANext]_(Promise!avars)
    <2>1. /\ pc = "drain" /\ buffer = {} /\ pc' = "idle" /\ dryRun' = FALSE
          /\ outcome' = (IF dryRun THEN "dry" ELSE "ok")
          /\ UNCHANGED <<upstream, now, bars, leapt>>
        BY <1>7 DEF Finish, Forget, world
    <2>2. CASE dryRun
        <3>1. Promise!AFail
            BY <2>1, <2>2, PromiseFails
        <3> QED BY <3>1 DEF Promise!ANext
    <2>3. CASE ~dryRun
        <3>1. leapt \/ \E bottom \in Slot : Promise!Complete(bottom)
            BY <2>1, <2>3, SuccessKeepsPromise
        <3>2. Promise!ASucceed
            BY <2>1, <2>3, <3>1 DEF Promise!ASucceed, Slot, Promise!Slot
        <3> QED BY <3>2 DEF Promise!ANext
    <2> QED BY <2>2, <2>3
<1>8. CASE RefuseWindow \/ Abort
    <2>1. /\ pc' = "idle" /\ outcome' = "failed"
          /\ UNCHANGED <<upstream, now, bars, leapt>>
        BY <1>8 DEF RefuseWindow, Abort, Forget, world, disk
    <2>2. Promise!AFail
        BY <2>1, PromiseFails
    <2> QED BY <2>2 DEF Promise!ANext
<1> QED BY <1>1, <1>2, <1>3, <1>4, <1>5, <1>6, <1>7, <1>8 DEF Next, RunStep

\* Whatever the exchange holds and however its runs end, the walk implements the
\* abstract archive.
THEOREM WalkKeepsPromise == Spec => PromiseKept
<1>1. Init => Promise!AInit
    BY PromiseInit
<1>2. TypeOK /\ WalkInv /\ [Next]_vars => [Promise!ANext]_(Promise!avars)
    BY PromiseStep
<1> QED BY <1>1, <1>2, TypeCorrect, WalkInvariant, PTL
        DEF Spec, PromiseKept, Promise!ASpec

\* A forming bar is never stored, nor one the exchange does not have, as long as
\* the clock the runs read is the exchange's own.
THEOREM OnlyFinishedStored == Spec => []OnlyFinishedBars
<1>1. WalkInv => OnlyFinishedBars
    BY DEF WalkInv
<1> QED BY <1>1, WalkInvariant, PTL

(* ---- The floor a run records ---- *)

\* A partition without bars claims no floor.
EmptyClaimsNothing == \A p \in Period : InPeriod(bars, p) = {} => floors[p] = None

\* A run without a start writes the floor the archive had when it began into
\* whatever it merges, so the archive still carries that floor.
FloorCarried ==
    (pc # "idle" /\ ~dryRun /\ startAt = None /\ floorWritten # None) =>
        bars # {} /\ RecordedFloor(bars, floors) = floorWritten

FloorInv == EmptyClaimsNothing /\ FloorCarried

LEMMA FloorInit == Init => FloorInv
BY Partitions DEF Init, FloorInv, EmptyClaimsNothing, FloorCarried, Period

\* The stretch of the oldest bar, which may be one that a merge has just added.
LEMMA OldestAfterMerge ==
    ASSUME TypeOK, NEW chunk \in SUBSET Bar, bars # {}
    PROVE  /\ Min(bars) \in bars /\ Min(bars \cup chunk) \in bars \cup chunk
           /\ StartOf[Min(bars)] \in Period
           /\ Min(bars \cup chunk) \in bars => Min(bars \cup chunk) = Min(bars)
           /\ \A b \in bars : /\ StartOf[Min(bars)] <= StartOf[b]
                              /\ StartOf[Min(bars \cup chunk)] <= StartOf[Min(bars)]
<1> DEFINE all == bars \cup chunk
<1>1. bars \in SUBSET Slot /\ all \in SUBSET Slot /\ all # {}
    BY BarIsSlot DEF TypeOK
<1>2. /\ Min(bars) \in bars /\ \A x \in bars : Min(bars) <= x
      /\ Min(all) \in all /\ \A x \in all : Min(all) <= x
    BY <1>1, MinOfSlots
<1>3. Min(all) <= Min(bars) /\ \A x \in all : x \in Int
    BY <1>1, <1>2 DEF Slot
<1>4. Min(all) \in bars => Min(all) = Min(bars)
    BY <1>1, <1>2, <1>3
<1>5. \A b \in bars : /\ StartOf[Min(bars)] <= StartOf[b]
                      /\ StartOf[Min(all)] <= StartOf[Min(bars)]
    BY <1>1, <1>2, <1>3, PartitionAssumption
<1> QED BY <1>1, <1>2, <1>4, <1>5, Partitions

LEMMA FloorWriteFile ==
    ASSUME TypeOK, FloorInv, NEW p \in Period, WriteFile(p)
    PROVE  FloorInv'
<1> DEFINE chunk == InPeriod(buffer, p)
<1>1. UNCHANGED <<startAt, dryRun, floorWritten>> /\ pc # "idle"
    BY DEF WriteFile
<1>2. CASE dryRun
    BY <1>1, <1>2 DEF WriteFile, disk, FloorInv, EmptyClaimsNothing, FloorCarried
<1>3. CASE ~dryRun
    <2>1. /\ bars' = bars \cup chunk
          /\ \/ floors' = floors
             \/ floors' = [floors EXCEPT ![p] = Deepest(@, floorWritten)]
          /\ (chunk \subseteq bars) \/ floors' = [floors EXCEPT ![p] = Deepest(@, floorWritten)]
        <3>1. MergeInto(p, chunk)
            BY <1>3 DEF WriteFile
        <3>2. ~(chunk \subseteq bars) =>
                floors' = [floors EXCEPT ![p] = Deepest(@, floorWritten)]
            BY <3>1 DEF MergeInto
        <3>3. \/ floors' = floors
              \/ floors' = [floors EXCEPT ![p] = Deepest(@, floorWritten)]
            BY <3>1 DEF MergeInto
        <3>4. bars' = bars \cup chunk
            BY <3>1 DEF MergeInto
        <3> QED BY <3>2, <3>3, <3>4
    <2>2. /\ chunk \in SUBSET Bar /\ floors \in [Period -> Slot \cup {None}]
          /\ p \in Int /\ \A t \in chunk : StartOf[t] = p
        BY Partitions DEF TypeOK, InPeriod, Slot
    <2>3. p \in ToWrite
        BY DEF WriteFile
    <2>4. chunk # {}
        BY <2>3 DEF ToWrite, Ready, InPeriod
    <2>5. EmptyClaimsNothing'
        BY <2>1, <2>2, <2>4 DEF EmptyClaimsNothing, FloorInv, InPeriod
    <2>6. ASSUME startAt = None, floorWritten # None
          PROVE  RecordedFloor(bars', floors') = floorWritten
        <3>1. bars # {} /\ floors[StartOf[Min(bars)]] = floorWritten
            BY <1>1, <1>3, <2>6 DEF FloorInv, FloorCarried, RecordedFloor
        <3>2. floorWritten \in Slot /\ Deepest(None, floorWritten) = floorWritten
              /\ Deepest(floorWritten, floorWritten) = floorWritten
            BY <2>6, NoneAssumption DEF TypeOK, Deepest, MinOf
        <3> DEFINE m == Min(bars)
                   n == Min(bars \cup chunk)
        <3>3. /\ m \in bars /\ n \in bars \cup chunk /\ StartOf[m] \in Period
              /\ n \in bars => n = m
              /\ \A b \in bars : StartOf[m] <= StartOf[b] /\ StartOf[n] <= StartOf[m]
            BY <2>2, <3>1, OldestAfterMerge
        <3>4. floors'[StartOf[n]] = floorWritten
            <4>1. CASE StartOf[n] # p
                BY <2>1, <2>2, <3>1, <3>3, <4>1
            <4>2. CASE StartOf[n] = p /\ InPeriod(bars, p) = {}
                <5>1. floors[p] = None
                    BY <4>2 DEF FloorInv, EmptyClaimsNothing
                <5>2. ~(chunk \subseteq bars)
                    BY <2>2, <2>4, <4>2 DEF InPeriod
                <5> QED BY <2>1, <2>2, <3>2, <4>2, <5>1, <5>2
            <4>3. CASE StartOf[n] = p /\ InPeriod(bars, p) # {}
                <5>1. PICK b \in bars : StartOf[b] = p
                    BY <4>3 DEF InPeriod
                <5>2. StartOf[m] <= p /\ p <= StartOf[m] /\ StartOf[m] \in Int
                    BY <3>3, <4>3, <5>1, Partitions DEF Slot
                <5>3. StartOf[m] = p
                    BY <2>2, <5>2
                <5> QED BY <2>1, <2>2, <3>1, <3>2, <4>3, <5>3
            <4> QED BY <4>1, <4>2, <4>3
        <3> QED BY <2>1, <2>4, <3>1, <3>4 DEF RecordedFloor
    <2>7. FloorCarried'
        BY <1>1, <2>1, <2>4, <2>6 DEF FloorCarried
    <2> QED BY <2>5, <2>7 DEF FloorInv
<1> QED BY <1>2, <1>3

LEMMA FloorFinish ==
    ASSUME TypeOK, FloorInv, NEW stampFails \in BOOLEAN, Finish(stampFails)
    PROVE  FloorInv'
<1>1. bars' = bars /\ pc' = "idle"
    BY DEF Finish, Forget
<1>2. Stamps => /\ bars # {} /\ StartOf[Min(bars)] \in Period
                /\ InPeriod(bars, StartOf[Min(bars)]) # {}
    BY MinOfSlots, BarIsSlot, Partitions DEF Stamps, TypeOK, InPeriod
<1>3. EmptyClaimsNothing'
    BY <1>1, <1>2 DEF Finish, FloorInv, EmptyClaimsNothing, TypeOK
<1> QED BY <1>1, <1>3 DEF FloorInv, FloorCarried

LEMMA FloorStep == TypeOK /\ FloorInv /\ [Next]_vars => FloorInv'
<1> SUFFICES ASSUME TypeOK, FloorInv, [Next]_vars PROVE FloorInv'
    OBVIOUS
<1>1. CASE UNCHANGED vars \/ Tick
    BY <1>1 DEF vars, run, disk, Tick, FloorInv, EmptyClaimsNothing, FloorCarried
<1>2. ASSUME NEW s \in Starts, NEW dry \in BOOLEAN, BeginRun(s, dry)
      PROVE  FloorInv'
    <2>1. /\ UNCHANGED disk /\ startAt' = s
          /\ floorWritten' = Deepest(RecordedFloor(bars, floors), s)
        BY <1>2 DEF BeginRun
    <2>2. s = None => floorWritten' = RecordedFloor(bars, floors)
        BY <2>1 DEF Deepest
    <2>3. RecordedFloor(bars, floors) # None => bars # {}
        BY DEF RecordedFloor
    <2> QED BY <2>1, <2>2, <2>3 DEF disk, FloorInv, EmptyClaimsNothing, FloorCarried
<1>3. CASE \/ DiscoverWindow \/ DiscoverEnds \/ DiscoverFails
           \/ JumpCovered \/ JumpToHead \/ FetchBars \/ FetchNothing
           \/ EndWalk \/ ProbeHit \/ ProbeMiss \/ ProbeEnds
    <2>1. UNCHANGED <<disk, startAt, dryRun, floorWritten>> /\ pc # "idle"
        BY <1>3 DEF DiscoverWindow, DiscoverEnds, DiscoverFails, JumpCovered, JumpToHead,
                    FetchBars, FetchNothing, EndWalk, ProbeHit, ProbeMiss, ProbeEnds,
                    unwalked, walkState, disk, Walking, Asks, Probing
    <2> QED BY <2>1 DEF disk, FloorInv, EmptyClaimsNothing, FloorCarried
<1>4. CASE RefuseWindow \/ Abort
    BY <1>4 DEF RefuseWindow, Abort, Forget, disk, FloorInv, EmptyClaimsNothing, FloorCarried
<1>5. CASE \E p \in Period : WriteFile(p)
    BY <1>5, FloorWriteFile
<1>6. CASE \E stampFails \in BOOLEAN : Finish(stampFails)
    BY <1>6, FloorFinish
<1> QED BY <1>1, <1>2, <1>3, <1>4, <1>5, <1>6 DEF Next, RunStep

LEMMA FloorIsCarried == Spec => []FloorInv
BY FloorInit, FloorStep, TypeCorrect, PTL DEF Spec

\* A default run that succeeds leaves the oldest bar as the recorded floor,
\* unless the footer could not be stamped (Store::stamp_floor).
THEOREM FloorIsOldestBar == Spec => OkRecordsFloor
<1> DEFINE A == (Ends /\ startAt = None /\ bars # {}) =>
                    \/ RecordedFloor(bars', floors') = Min(bars')
                    \/ Stamps /\ UNCHANGED floors
<1>1. TypeOK /\ WalkInv /\ FloorInv /\ [Next]_vars => [A]_vars
    <2> SUFFICES ASSUME TypeOK, WalkInv, FloorInv, [Next]_vars,
                        Ends, startAt = None, bars # {}
                 PROVE  \/ RecordedFloor(bars', floors') = Min(bars')
                        \/ Stamps /\ UNCHANGED floors
        OBVIOUS
    <2>1. ~dryRun
        BY OnlyFinishSucceeds
    <2>2. PICK stampFails \in BOOLEAN : Finish(stampFails)
        BY OnlyFinishSucceeds
    <2>3. held = bars /\ pc # "idle"
        BY <2>1, <2>2 DEF WalkInv, RunState, Finish
    <2>4. /\ Min(bars) \in bars /\ Min(bars) \in Slot
          /\ StartOf[Min(bars)] \in Period
        BY MinOfSlots, BarIsSlot, Partitions DEF TypeOK
    <2>5. LearntFloor = Min(bars) /\ Min(bars) # None
        BY <2>3, <2>4, NoneAssumption DEF LearntFloor
    <2>6. bars' = bars
        BY <2>2 DEF Finish
    <2>7. CASE ~Stamps
        <3>1. floorWritten = Min(bars)
            BY <2>1, <2>5, <2>7 DEF Stamps
        <3>2. RecordedFloor(bars, floors) = Min(bars)
            BY <2>1, <2>3, <2>5, <3>1 DEF FloorInv, FloorCarried
        <3> QED BY <2>2, <2>6, <2>7, <3>2 DEF Finish
    <2>8. CASE Stamps /\ stampFails
        BY <2>2, <2>8 DEF Finish
    <2>9. CASE Stamps /\ ~stampFails
        BY <2>2, <2>4, <2>5, <2>6, <2>9 DEF Finish, RecordedFloor, TypeOK
    <2> QED BY <2>7, <2>8, <2>9
<1> QED BY <1>1, TypeCorrect, WalkInvariant, FloorIsCarried, PTL DEF Spec, OkRecordsFloor

\* What a run that says ok claims of the archive and of its floor is so, and no
\* step of any run takes a stored bar away.
THEOREM OkTellsTheTruth == Spec => OkIsTrue
BY ArchiveOnlyGrows, SuccessIsComplete, FloorIsOldestBar, PTL DEF OkIsTrue

(* ---- A run with nothing to do ---- *)

\* A run that began up to date holds every bar down to its lower bound, which
\* is its oldest bar, so that every partition it comes to is jumped over.
JumpsAll ==
    /\ pc = "idle" => ~asked
    /\ upToDate =>
        /\ pc \in {"walk", "drain"} /\ ~asked /\ buffer = {}
        /\ ~discovery /\ scanLo # None /\ scanLo <= cursor
        /\ \A b \in held : scanLo <= b
        /\ scanLo .. endExclusive - 1 \subseteq held

LEMMA JumpsInit == Init => JumpsAll
BY DEF Init, JumpsAll

LEMMA JumpsBeginRun ==
    ASSUME TypeOK, WalkInv, JumpsAll,
           NEW s \in Starts, NEW dry \in BOOLEAN, BeginRun(s, dry)
    PROVE  JumpsAll'
<1> SUFFICES ASSUME upToDate' PROVE JumpsAll'
    BY DEF JumpsAll, BeginRun
<1> DEFINE low == Min(bars)
<1>1. /\ s = None /\ bars # {} /\ RecordedFloor(bars, floors) = low
      /\ low .. now - 1 \subseteq bars
      /\ held' = bars /\ endExclusive' = now /\ cursor' = now
      /\ scanLo' = LowerBound(s) /\ discovery' = (LowerBound(s) = None)
      /\ UNCHANGED <<buffer, asked>> /\ pc = "idle"
    BY DEF BeginRun
<1>2. /\ low \in bars /\ low \in Slot /\ low \in Int /\ low # None
      /\ \A b \in bars : low <= b
    <2>1. bars \in SUBSET Slot
        BY BarIsSlot DEF TypeOK
    <2>2. low \in bars /\ \A b \in bars : low <= b
        BY <1>1, <2>1, MinOfSlots
    <2>3. low \in Slot /\ low # None
        BY <2>1, <2>2, NoneAssumption
    <2> QED BY <2>2, <2>3, BoundsAssumption DEF Slot
<1>3. LowerBound(s) = low
    BY <1>1, <1>2 DEF LowerBound
<1>4. buffer' = {} /\ pc' = "walk"
    BY <1>1, <1>2, <1>3 DEF WalkInv, RunState, BeginRun
<1>5. low <= now
    BY <1>2 DEF WalkInv, OnlyFinishedBars, Window, TypeOK, Slot
<1>6. ~asked'
    BY <1>1 DEF JumpsAll
<1> QED BY <1>1, <1>2, <1>3, <1>4, <1>5, <1>6 DEF JumpsAll

\* While it walks, the bar below the cursor is held.
LEMMA AlwaysJumps ==
    ASSUME TypeOK, WalkInv, JumpsAll, upToDate, Walking
    PROVE  /\ Jumps /\ NeededLo \in Slot /\ scanLo <= NeededLo
           /\ HeldIn \subseteq held /\ HeldIn \in SUBSET Slot /\ HeldIn # {}
<1>1. /\ NewestWanted \in Slot /\ NewestWanted = cursor - 1
      /\ NeededLo \in Slot /\ scanLo <= NeededLo
    BY WantedType DEF Walking, JumpsAll
<1>2. scanLo <= NewestWanted /\ NewestWanted <= endExclusive - 1
    BY <1>1, BoundsAssumption
       DEF JumpsAll, Walking, MoreToScan, WalkInv, RunState, TypeOK, Slot
<1>3. NewestWanted \in HeldIn
    BY <1>1, <1>2 DEF JumpsAll, HeldIn, InPeriod, Wanted, TypeOK, Slot
<1>4. HeldIn \subseteq held /\ HeldIn \in SUBSET Slot
    BY BarIsSlot DEF HeldIn, InPeriod, TypeOK
<1>5. TailHeld
    BY <1>1, <1>3 DEF TailHeld, Slot
<1>6. Min(HeldIn) \in Slot /\ Min(HeldIn) <= NewestWanted
    BY <1>3, <1>4, MinOfSlots
<1>7. cursor > Min(HeldIn)
    BY <1>1, <1>6 DEF Slot, TypeOK
<1> QED BY <1>1, <1>3, <1>4, <1>5, <1>7 DEF Jumps

LEMMA JumpsStep == TypeOK /\ WalkInv /\ JumpsAll /\ [Next]_vars => JumpsAll'
<1> SUFFICES ASSUME TypeOK, WalkInv, JumpsAll, [Next]_vars PROVE JumpsAll'
    OBVIOUS
<1>1. CASE UNCHANGED vars \/ Tick
    BY <1>1 DEF vars, run, Tick, JumpsAll
<1>2. CASE \E s \in Starts, dry \in BOOLEAN : BeginRun(s, dry)
    BY <1>2, JumpsBeginRun
<1>3. CASE RefuseWindow \/ Abort \/ \E stampFails \in BOOLEAN : Finish(stampFails)
    BY <1>3 DEF RefuseWindow, Abort, Finish, Forget, JumpsAll
<1>4. CASE ~upToDate /\ RunStep
    <2>1. ~upToDate' /\ (pc' = "idle" => ~asked')
        BY <1>4 DEF RunStep, DiscoverWindow, DiscoverEnds, DiscoverFails, JumpCovered,
           JumpToHead, FetchBars, FetchNothing, EndWalk, ProbeHit, ProbeMiss, ProbeEnds,
           WriteFile, Finish, RefuseWindow, Forget, unwalked, walkState, Walking, Asks,
           Probing, AfterFetch
    <2> QED BY <1>4, <2>1 DEF JumpsAll
<1>5. CASE upToDate /\ (DiscoverWindow \/ DiscoverEnds \/ DiscoverFails)
    BY <1>5 DEF JumpsAll, DiscoverWindow, DiscoverEnds, DiscoverFails
<1>6. CASE upToDate /\ (ProbeHit \/ ProbeMiss \/ ProbeEnds)
    BY <1>6 DEF JumpsAll, ProbeHit, ProbeMiss, ProbeEnds, Probing
<1>7. CASE upToDate /\ \E p \in Period : WriteFile(p)
    <2>1. PICK p \in Period : WriteFile(p)
        BY <1>7
    <2>2. p \in ToWrite
        BY <2>1 DEF WriteFile
    <2>3. buffer # {}
        BY <2>2 DEF ToWrite, Ready
    <2> QED BY <1>7, <2>3 DEF JumpsAll
<1>8. CASE upToDate /\ (FetchBars \/ FetchNothing)
    BY <1>8, AlwaysJumps DEF FetchBars, FetchNothing, Asks
<1>9. CASE upToDate /\ JumpCovered
    <2>1. scanLo <= NeededLo
        BY <1>9, AlwaysJumps DEF JumpCovered
    <2>2. pc' = "walk"
        BY <1>9 DEF JumpCovered, JumpsAll, AfterFetch, Ready
    <2> QED BY <1>9, <2>1, <2>2 DEF JumpCovered, JumpsAll, unwalked
<1>10. CASE upToDate /\ JumpToHead
    <2>1. Min(HeldIn) \in held
        BY <1>10, AlwaysJumps, MinOfSlots DEF JumpToHead
    <2>2. scanLo <= Min(HeldIn)
        BY <1>10, <2>1 DEF JumpsAll
    <2> QED BY <1>10, <2>2 DEF JumpToHead, JumpsAll, unwalked
<1>11. CASE upToDate /\ EndWalk
    BY <1>11 DEF EndWalk, JumpsAll, unwalked
<1> QED BY <1>1, <1>2, <1>3, <1>4, <1>5, <1>6, <1>7, <1>8, <1>9, <1>10, <1>11
        DEF Next, RunStep

\* A default run over an archive that is complete and carries its floor sends
\* no candle request (README: an up-to-date archive costs nothing).
THEOREM UpToDateRunsAreFree == Spec => []UpToDateIsFree
<1>1. JumpsAll => UpToDateIsFree
    BY DEF JumpsAll, UpToDateIsFree
<1>2. Spec => []JumpsAll
    BY JumpsInit, JumpsStep, TypeCorrect, WalkInvariant, PTL DEF Spec
<1> QED BY <1>1, <1>2, PTL
=============================================================================
