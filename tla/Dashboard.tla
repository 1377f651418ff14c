------------------------------ MODULE Dashboard ------------------------------
(***************************************************************************)
(* dashboard.py: the Archive's four caches under one lock, the page file   *)
(* that is re-read when its timestamp moves, and the handler threads of    *)
(* ThreadingHTTPServer that use them while the collector rewrites the      *)
(* files.  A file's content is the number of its last write, which is also *)
(* its mtime.  What a section does under the lock is one step, as no other *)
(* thread can see the middle of it, but for the two sections somebody else *)
(* does not wait for: the walk through the directory, which the collector  *)
(* writes to meanwhile, and the cached stats answer, which waits for its   *)
(* client.  Both keep the lock from step to step.                          *)
(***************************************************************************)
EXTENDS Integers, Sequences, SequencesExt

CONSTANTS
    Thread,        \* handler threads alive at one time
    Series,        \* (symbol, timeframe) pairs there may be files for
    Timeframe,     \* series -> its timeframe
    HourlyOf,      \* series -> the hourly series of its symbol
    Routes, Asked, \* the routes and the series the clients ask for
    CacheSeconds,  \* CACHE_SECONDS
    None,
    MaxTime,       \* bound on the clock
    MaxWrites,     \* bound on the writes to files
    MaxRequests    \* bound on the requests served

Frames == {Timeframe[s] : s \in Series}

VARIABLES
    disk,     \* series -> its last write, 0 when it has no file
    born,     \* history: series -> when its first file appeared
    asset,    \* last write of the page's file
    writes,   \* writes so far, to either
    now,      \* time.monotonic()
    lock,     \* the thread that holds Archive._lock between two steps
    symbols,  \* Archive._symbols: the listing (began: history)
    walk,     \* what series() has in hand while it walks the directory
    kept,     \* Archive._series: series -> [stamp, bars, built]
    index,    \* Archive._index: timeframe -> [rows, built]
    stats,    \* Archive._stats: series -> [bars, row, built]
    page,     \* Asset._cached: [stamp, text]
    todo,     \* thread -> the steps its request still has to take
    req,      \* thread -> what the request asked for and has in hand
    served    \* requests accepted so far

files == <<disk, born, asset, writes>>
caches == <<symbols, walk, kept, index, stats>>
vars == <<files, now, lock, caches, page, todo, req, served>>

Entry(e) == e \cup {None}
Version == 0 .. MaxWrites + 1
Time == 0 .. MaxTime
Loaded == [stamp : Version, bars : Version, built : Time]
Texts == [stamp : Version, text : Version]
Refusal == [at : Time, took : Time]

\* The calls of one route, in order.  bars(), symbols() and stats() are
\* written out where the code calls them.
\* (mutated form: the row is read before the bars)
ProgramRowFirst ==
    [page |-> <<"statPage", "checkPage", "readPage", "takePage", "reply">>,
     bars |-> <<"require", "stat", "lookup", "load", "keep", "reply">>,
     index |-> <<"findIndex", "listing", "row", "keepIndex", "reply">>,
     stats |-> <<"findStats", "require", "statsRow",
                 "require", "stat", "lookup", "load", "keep", "source",
                 "require", "stat", "lookup", "load", "keep",
                 "keepStats", "reply">>,
     export |-> <<"require", "stat", "lookup", "load", "keep",
                  "findIndex", "listing", "row", "keepIndex",
                  "statPage", "checkPage", "readPage", "takePage", "reply">>]
Program ==
    [page |-> <<"statPage", "checkPage", "readPage", "takePage", "reply">>,
     bars |-> <<"require", "stat", "lookup", "load", "keep", "reply">>,
     index |-> <<"findIndex", "listing", "row", "keepIndex", "reply">>,
     stats |-> <<"findStats", "require",
                 "require", "stat", "lookup", "load", "keep", "source",
                 "require", "stat", "lookup", "load", "keep",
                 "statsRow", "keepStats", "reply">>,
     export |-> <<"require", "stat", "lookup", "load", "keep",
                  "findIndex", "listing", "row", "keepIndex",
                  "statPage", "checkPage", "readPage", "takePage", "reply">>]

ASSUME DashboardAssumption ==
    /\ CacheSeconds \in Nat \ {0} /\ MaxTime \in Nat
    /\ MaxWrites \in Nat /\ MaxRequests \in Nat
    /\ Asked \subseteq Series /\ Routes \subseteq DOMAIN Program
    /\ HourlyOf \in [Series -> Series]
    /\ None \notin Thread \cup Series \cup Texts \cup Refusal

\* What a thread has in hand; atDisk, atAsset and refused are history.
Blank == [route |-> None, series |-> None, key |-> None, listed |-> {},
          stamp |-> 0, bars |-> 0, own |-> 0, row |-> 0, rows |-> {}, text |-> 0,
          atDisk |-> 0, atAsset |-> 0, refused |-> None]

Init ==
    /\ disk \in [Series -> {0, 1}]
    /\ born = [s \in Series |-> 0]
    /\ asset = 1
    /\ writes = 0
    /\ now = 0
    /\ lock = None
    /\ symbols = None
    /\ walk = None
    /\ kept = [s \in Series |-> None]
    /\ index = [f \in Frames |-> None]
    /\ stats = [s \in Series |-> None]
    /\ page = None
    /\ todo = [t \in Thread |-> <<>>]
    /\ req = [t \in Thread |-> Blank]
    /\ served = 0

-----------------------------------------------------------------------------
(* The clock, the collector and git pull *)

Tick ==
    /\ now < MaxTime
    /\ now' = now + 1
    /\ UNCHANGED <<files, lock, caches, page, todo, req, served>>

Write(s) ==
    /\ writes < MaxWrites
    /\ writes' = writes + 1
    /\ disk' = [disk EXCEPT ![s] = @ + 1]
    /\ born' = IF disk[s] = 0 THEN [born EXCEPT ![s] = now] ELSE born
    /\ UNCHANGED <<asset, now, lock, caches, page, todo, req, served>>

EditPage ==
    /\ writes < MaxWrites
    /\ writes' = writes + 1
    /\ asset' = asset + 1
    /\ UNCHANGED <<disk, born, now, lock, caches, page, todo, req, served>>

-----------------------------------------------------------------------------
(* One request *)

\* (mutated form: an entry of exactly that age is still fresh)
FreshTooLong(entry) == entry # None /\ now - entry.built <= CacheSeconds
Fresh(entry) == entry # None /\ now - entry.built < CacheSeconds

\* do_GET picks the route; the request of a thread begins.
Accept(t) ==
    /\ todo[t] = <<>>
    /\ served < MaxRequests
    /\ served' = served + 1
    /\ \E route \in Routes, s \in Asked :
         /\ todo' = [todo EXCEPT ![t] = Program[route]]
         /\ req' = [req EXCEPT ![t] =
              [Blank EXCEPT !.route = route, !.series = s, !.key = s,
                            !.atDisk = disk[s], !.atAsset = asset]]
    /\ UNCHANGED <<files, now, lock, caches, page>>

At(t, step) == todo[t] # <<>> /\ Head(todo[t]) = step
Unlocked == lock = None
Advance(t) == todo' = [todo EXCEPT ![t] = Tail(@)]
Skip(t, n) == todo' = [todo EXCEPT ![t] = SubSeq(@, n + 1, Len(@))]
Note(t, r) == req' = [req EXCEPT ![t] = r]

\* Archive.series: under the lock, a listing younger than CacheSeconds is
\* returned, and else the directory is walked, one series after the other.
Walk(t) ==
    /\ \E step \in {"require", "listing", "source"} : At(t, step)
    /\ \/ /\ Unlocked /\ ~Fresh(symbols)
          /\ lock' = t
          /\ walk' = [left |-> Series, found |-> {}, began |-> now]
       \/ /\ walk # None /\ lock = t
          /\ \E s \in walk.left :
               walk' = [walk EXCEPT !.left = @ \ {s},
                                    !.found = @ \cup {u \in {s} : disk[u] > 0}]
          /\ UNCHANGED lock
    /\ UNCHANGED <<files, now, symbols, kept, index, stats, page, todo, req, served>>

\* What series() returns; a new listing is stamped after the walk.
Listing ==
    IF walk = None THEN symbols
    ELSE [value |-> walk.found, began |-> walk.began, built |-> now]
List(t) ==
    /\ \/ walk = None /\ Unlocked /\ Fresh(symbols)
       \/ walk # None /\ lock = t /\ walk.left = {}
    /\ symbols' = Listing
    /\ walk' = None
    /\ lock' = None

\* A KeyError becomes a 400 answer: the rest of the route is not run.
Refuse(t) == todo' = [todo EXCEPT ![t] = <<"reply">>]

Require(t) ==
    /\ At(t, "require")
    /\ List(t)
    /\ IF req[t].key \in Listing.value
       THEN Advance(t) /\ UNCHANGED req
       ELSE /\ Refuse(t)
            /\ Note(t, [req[t] EXCEPT !.refused =
                   [at |-> now, took |-> Listing.built - Listing.began]])
    /\ UNCHANGED <<files, now, kept, index, stats, page, served>>

\* Archive.bars: the stamp is read before the lock and before the bars.
Stat(t) ==
    /\ At(t, "stat")
    /\ Advance(t)
    /\ Note(t, [req[t] EXCEPT !.stamp = disk[req[t].key]])
    /\ UNCHANGED <<files, now, lock, caches, page, served>>

\* (mutated form: a fresh entry is used whatever its stamp)
HitAnyStamp(entry, stamp) == Fresh(entry)
Hit(entry, stamp) == Fresh(entry) /\ entry.stamp = stamp

Lookup(t) ==
    LET r == req[t] IN
    /\ At(t, "lookup")
    /\ Unlocked
    /\ IF Hit(kept[r.key], r.stamp)
       THEN Skip(t, 3) /\ Note(t, [r EXCEPT !.bars = kept[r.key].bars, !.stamp = 0])
       ELSE Advance(t) /\ UNCHANGED req
    /\ UNCHANGED <<files, now, lock, caches, page, served>>

Load(t) ==
    /\ At(t, "load")
    /\ Advance(t)
    /\ Note(t, [req[t] EXCEPT !.bars = disk[req[t].key]])
    /\ UNCHANGED <<files, now, lock, caches, page, served>>

Keep(t) ==
    LET r == req[t] IN
    /\ At(t, "keep")
    /\ Unlocked
    /\ kept' = [kept EXCEPT ![r.key] =
                  [stamp |-> r.stamp, bars |-> r.bars, built |-> now]]
    /\ Advance(t)
    /\ Note(t, [r EXCEPT !.stamp = 0])
    /\ UNCHANGED <<files, now, lock, symbols, walk, index, stats, page, served>>

\* Archive.index: found fresh, or built outside the lock and kept whatever
\* another thread kept in between.
FindIndex(t) ==
    LET f == Timeframe[req[t].series] IN
    /\ At(t, "findIndex")
    /\ Unlocked
    /\ IF Fresh(index[f])
       THEN Skip(t, 4) ELSE Advance(t)
    /\ UNCHANGED <<files, now, lock, caches, page, req, served>>

ListIndex(t) ==
    /\ At(t, "listing")
    /\ List(t)
    /\ Advance(t)
    /\ Note(t, [req[t] EXCEPT
         !.listed = {s \in Listing.value : Timeframe[s] = Timeframe[req[t].series]},
         !.rows = {}])
    /\ UNCHANGED <<files, now, kept, index, stats, page, served>>

\* One _row per listed symbol, each reading its own files.
Row(t) ==
    LET r == req[t] IN
    /\ At(t, "row")
    /\ IF r.listed = {}
       THEN Advance(t) /\ UNCHANGED req
       ELSE \E s \in r.listed :
              /\ Note(t, [r EXCEPT !.listed = @ \ {s},
                                   !.rows = @ \cup {<<s, disk[s]>>}])
              /\ UNCHANGED todo
    /\ UNCHANGED <<files, now, lock, caches, page, served>>

KeepIndex(t) ==
    LET r == req[t] IN
    /\ At(t, "keepIndex")
    /\ Unlocked
    /\ index' = [index EXCEPT ![Timeframe[r.series]] =
                   [rows |-> r.rows, built |-> now]]
    /\ Advance(t)
    /\ Note(t, [r EXCEPT !.rows = {}])
    /\ UNCHANGED <<files, now, lock, symbols, walk, kept, stats, page, served>>

\* (mutated form: the lock is kept while the answer is built)
FindStatsHolding(t) ==
    LET s == req[t].series IN
    /\ At(t, "findStats")
    /\ Unlocked
    /\ IF Fresh(stats[s])
       THEN /\ lock' = t
            /\ todo' = [todo EXCEPT ![t] = <<"replyHeld">>]
       ELSE Advance(t) /\ lock' = t
    /\ UNCHANGED <<files, now, caches, page, req, served>>

\* _stats_route: a fresh entry is sent to the client under the lock.
FindStats(t) ==
    LET s == req[t].series IN
    /\ At(t, "findStats")
    /\ Unlocked
    /\ IF Fresh(stats[s])
       THEN /\ lock' = t
            /\ todo' = [todo EXCEPT ![t] = <<"replyHeld">>]
       ELSE Advance(t) /\ UNCHANGED lock
    /\ UNCHANGED <<files, now, caches, page, req, served>>

\* Archive.stats: the spread comes from the hourly series when it is listed.
Source(t) ==
    LET r == req[t] IN
    /\ At(t, "source")
    /\ List(t)
    /\ IF HourlyOf[r.key] \in Listing.value /\ HourlyOf[r.key] # r.key
       THEN Advance(t) /\ Note(t, [r EXCEPT !.own = r.bars, !.bars = 0, !.key = HourlyOf[r.key]])
       ELSE Skip(t, 6) /\ Note(t, [r EXCEPT !.own = r.bars, !.bars = 0])
    /\ UNCHANGED <<files, now, kept, index, stats, page, served>>

StatsRow(t) ==
    /\ At(t, "statsRow")
    /\ Advance(t)
    /\ Note(t, [req[t] EXCEPT !.row = disk[req[t].series]])
    /\ UNCHANGED <<files, now, lock, caches, page, served>>

KeepStats(t) ==
    LET r == req[t] IN
    /\ At(t, "keepStats")
    /\ Unlocked
    /\ stats' = [stats EXCEPT ![r.series] =
                   [bars |-> r.own, row |-> r.row, built |-> now]]
    /\ Advance(t)
    /\ Note(t, [r EXCEPT !.bars = 0, !.own = 0, !.row = 0])
    /\ UNCHANGED <<files, now, lock, symbols, walk, kept, index, page, served>>

\* Asset.text takes no lock: stat, compare, read and store, return what the
\* attribute holds by then.
StatPage(t) ==
    /\ At(t, "statPage")
    /\ Advance(t)
    /\ Note(t, [req[t] EXCEPT !.stamp = asset])
    /\ UNCHANGED <<files, now, lock, caches, page, served>>

CheckPage(t) ==
    /\ At(t, "checkPage")
    /\ IF page # None /\ page.stamp = req[t].stamp THEN Skip(t, 2) ELSE Advance(t)
    /\ Note(t, [req[t] EXCEPT !.text = 0])
    /\ UNCHANGED <<files, now, lock, caches, page, served>>

\* (mutated form: the file is stamped after it is read)
ReadPageThenStat(t) ==
    LET r == req[t] IN
    /\ At(t, "readPage")
    /\ IF r.text = 0
       THEN /\ Note(t, [r EXCEPT !.text = asset])
            /\ UNCHANGED <<page, todo>>
       ELSE /\ page' = [stamp |-> asset, text |-> r.text]
            /\ Advance(t)
            /\ Note(t, [r EXCEPT !.stamp = 0])
    /\ UNCHANGED <<files, now, lock, caches, served>>

ReadPage(t) ==
    LET r == req[t] IN
    /\ At(t, "readPage")
    /\ IF r.text = 0
       THEN /\ Note(t, [r EXCEPT !.text = asset])
            /\ UNCHANGED <<page, todo>>
       ELSE /\ page' = [stamp |-> r.stamp, text |-> r.text]
            /\ Advance(t)
            /\ Note(t, [r EXCEPT !.stamp = 0])
    /\ UNCHANGED <<files, now, lock, caches, served>>

TakePage(t) ==
    /\ At(t, "takePage")
    /\ Advance(t)
    /\ Note(t, [req[t] EXCEPT !.text = page.text])
    /\ UNCHANGED <<files, now, lock, caches, page, served>>

\* The answer is written, or the client is gone (BrokenPipeError).
Reply(t) ==
    /\ At(t, "reply") \/ At(t, "replyHeld")
    /\ Advance(t)
    /\ lock' = IF At(t, "replyHeld") THEN None ELSE lock
    /\ Note(t, Blank)
    /\ UNCHANGED <<files, now, caches, page, served>>

Step(t) ==
    \/ Walk(t) \/ Require(t) \/ Stat(t) \/ Lookup(t) \/ Load(t) \/ Keep(t)
    \/ FindIndex(t) \/ ListIndex(t) \/ Row(t) \/ KeepIndex(t)
    \/ FindStats(t) \/ Source(t) \/ StatsRow(t) \/ KeepStats(t)
    \/ StatPage(t) \/ CheckPage(t) \/ ReadPage(t) \/ TakePage(t)
    \/ Reply(t)

Next ==
    \/ Tick \/ EditPage
    \/ \E s \in Series : Write(s)
    \/ \E t \in Thread : Accept(t) \/ Step(t)

Spec == Init /\ [][Next]_vars

\* A runnable thread runs on, and a client reads its answer or hangs up.
FairSpec == Spec /\ \A t \in Thread : WF_vars(Step(t))

-----------------------------------------------------------------------------
(* Properties *)

TypeOK ==
    /\ disk \in [Series -> Version] /\ born \in [Series -> Time]
    /\ asset \in Version /\ writes \in 0 .. MaxWrites /\ now \in Time
    /\ lock \in Entry(Thread)
    /\ symbols \in Entry([value : SUBSET Series, began : Time, built : Time])
    /\ walk \in Entry([left : SUBSET Series, found : SUBSET Series, began : Time])
    /\ kept \in [Series -> Entry(Loaded)]
    /\ index \in [Frames -> Entry([rows : SUBSET (Series \X Version), built : Time])]
    /\ stats \in [Series -> Entry([bars : Version, row : Version, built : Time])]
    /\ page \in Entry(Texts)
    /\ served \in 0 .. MaxRequests

\* Whatever reloads and rewrites overlap, the bars of an answer are at least
\* as new as the files were when the request came in (Archive.bars: a stamp
\* that still matches means the bars behind it are the current ones).
BarsAreCurrent ==
    \A t \in Thread :
        /\ At(t, "reply") /\ req[t].route = "bars" /\ req[t].refused = None
        => req[t].bars >= req[t].atDisk

\* A page kept under a timestamp is never older than that timestamp, so a
\* later request that sees the timestamp unmoved may hand it out (Asset.text).
PageMatchesStamp == page # None => page.text >= page.stamp

\* A series that has had a file for a cache window and as long as the walk
\* behind the listing took is not refused: however walks, rewrites and other
\* threads overlap, the listing require() trusts began no longer ago.
ListedIsServed ==
    \A t \in Thread :
        LET r == req[t] IN
        r.refused # None =>
            \/ disk[r.key] = 0
            \/ r.refused.at - born[r.key] < CacheSeconds + r.refused.took

\* The row a stats answer carries is read after its bars and is never behind
\* them, however the two reads are split by rewrites: stale_days is not
\* negative.
RowNotBehindBars ==
    \A s \in Series : stats[s] # None => stats[s].row >= stats[s].bars

\* What the caches hold is typed, and what is kept together fits together.
CachesFit == TypeOK /\ PageMatchesStamp /\ RowNotBehindBars

\* Every request is answered: no handler waits for a lock it holds itself
\* and the lock that a cached stats answer keeps comes back.
EveryRequestAnswered ==
    \A t \in Thread : todo[t] # <<>> ~> todo[t] = <<>>

\* The browser always gets the current file (Asset's own words).
PageIsCurrent ==
    \A t \in Thread :
        At(t, "reply") /\ req[t].route = "page" => req[t].text >= req[t].atAsset

\* What is on disk is "cached for the cache window" (series' own words): a
\* series that has had a file for that long is not refused.
ListedWithinWindow ==
    \A t \in Thread :
        LET r == req[t] IN
        r.refused # None =>
            disk[r.key] = 0 \/ r.refused.at - born[r.key] < CacheSeconds

\* Two requests do not both build the same index (Archive's own words).
OneBuildAtATime ==
    \A t, u \in Thread :
        t # u /\ At(t, "row") /\ At(u, "row")
        => Timeframe[req[t].series] # Timeframe[req[u].series]
=============================================================================
