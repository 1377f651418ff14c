------------------------------- MODULE Journal -------------------------------
(***************************************************************************)
(* journal.py with the commands that write to it (run_backtest._record,    *)
(* basket.main) and kcs-journal verify: entries are appended to runs.jsonl *)
(* and later run again against an archive that has grown or changed and    *)
(* code that may have moved on.  A command may be killed at any step; the  *)
(* line it is writing is then cut: somewhere inside, and no longer parses, *)
(* or just before its newline, and what is appended next continues it.     *)
(*                                                                         *)
(* The numbers of a run stand for everything they depend on: the bars it   *)
(* saw (but for what the strategies do not read), the code and the options *)
(* it was made with.  A time stands for a stretch of bars, so that what is *)
(* left of a window is never too short to be run.                          *)
(***************************************************************************)
EXTENDS Integers, Sequences, SequencesExt, FiniteSetsExt

CONSTANTS
    Process,      \* commands running at one time
    Symbol,
    LastBar,      \* the times of the bars are 1 .. LastBar
    First,        \* the times the archive has bars for at first
    Runs,         \* <<kind, options>> of the runs that are recorded
    Keeps,        \* whether they are made with --keep-trades: some of BOOLEAN
    LastSecond,   \* bound on the seconds of the clock
    MaxLines,     \* bound on the lines of runs.jsonl
    MaxChecks,    \* bound on the lines of verifications.jsonl
    MaxChanges,   \* bound on the changes to archive and code
    Nothing, Torn

VARIABLES
    archive,      \* symbol -> its bars: time -> value
    code,         \* version of the strategies and the engine
    registered,   \* the registry still has the strategy
    changes,      \* changes so far
    clock,        \* the clock, in seconds
    lines,        \* runs.jsonl
    cut,          \* the files whose last line has no newline
    acked,        \* history: the entries reported as journalized
    trades,       \* trades/<run_id>.csv: second of the id -> the run in it
    checks,       \* verifications.jsonl
    at,           \* process -> what it does next
    draft,        \* process -> the entry it is about to append
    known,        \* process -> the ids it read before it appends
    chosen        \* process -> the entries it still has to verify

world == <<archive, code, registered, changes, clock>>
journalVars == <<world, lines, cut, acked, trades, checks, at, draft, known, chosen>>

\* Values of a bar: 1 and 2 differ in the volume only, which no number of a
\* run depends on and the fingerprint covers.
Slot == 1 .. LastBar
Bar == 1 .. 3
Bars == UNION {[T -> Bar] : T \in SUBSET Slot}
Read(v) == IF v = 2 THEN 1 ELSE v
Seen(bars) == [t \in DOMAIN bars |-> Read(bars[t])]
Stored(bars, t, v) == [u \in DOMAIN bars \cup {t} |-> IF u = t THEN v ELSE bars[u]]

\* The options run_basket is given again by verify_basket; run_backtest is
\* given none.  A mask or a short permission is not stored in the entry.
Repeated == [backtest |-> {}, basket |-> {"since", "spread"}]

\* A line of runs.jsonl.
Line ==
    [second : 0 .. LastSecond, suffix : 1 .. MaxLines + 1, kind : DOMAIN Repeated,
     symbol : Symbol, first : Slot, last : Slot, digest : Bars,
     file : {Nothing} \cup 0 .. LastSecond,
     numbers : [symbol : Symbol, seen : Bars, code : Nat, options : SUBSET STRING]]

ASSUME JournalAssumption ==
    /\ LastSecond \in Nat /\ MaxLines \in Nat /\ MaxChecks \in Nat /\ MaxChanges \in Nat
    /\ LastBar \in Nat /\ First \subseteq Slot
    /\ Runs \subseteq (DOMAIN Repeated) \X (SUBSET STRING)
    /\ Keeps \subseteq BOOLEAN
    /\ Torn \notin Line

\* What run_backtest or run_basket computes from these bars.
Numbers(s, bars, options) ==
    [symbol |-> s, seen |-> Seen(bars), code |-> code, options |-> options]

JournalInit ==
    /\ archive = [s \in Symbol |-> [t \in First |-> 1]]
    /\ code = 0
    /\ registered = TRUE
    /\ changes = 0
    /\ clock = 0
    /\ lines = <<>>
    /\ cut = {}
    /\ acked = {}
    /\ trades = [second \in 0 .. LastSecond |-> Nothing]
    /\ checks = <<>>
    /\ at = [p \in Process |-> "idle"]
    /\ draft = [p \in Process |-> Nothing]
    /\ known = [p \in Process |-> {}]
    /\ chosen = [p \in Process |-> <<>>]

-----------------------------------------------------------------------------
(* The archive, the code and the clock move on *)

SecondPasses ==
    /\ clock < LastSecond
    /\ clock' = clock + 1
    /\ UNCHANGED <<archive, code, registered, changes, lines, cut, acked, trades, checks,
                   at, draft, known, chosen>>

\* The collector stores a bar, inside the window of a recorded run or outside
\* it (its value tells nobody anything yet), or restates one; bars are lost
\* with the files they are in.
Change ==
    /\ changes < MaxChanges
    /\ changes' = changes + 1
    /\ \/ /\ \E s \in Symbol :
               \/ \E t \in Slot, v \in Bar :
                    /\ IF t \in DOMAIN archive[s] THEN v # archive[s][t] ELSE v = 1
                    /\ archive' = [archive EXCEPT ![s] = Stored(@, t, v)]
               \/ \E T \in SUBSET DOMAIN archive[s] \ {DOMAIN archive[s]} :
                    archive' = [archive EXCEPT ![s] = Restrict(@, T)]
          /\ UNCHANGED <<code, registered>>
       \/ code' = code + 1 /\ UNCHANGED <<archive, registered>>
       \/ registered' = FALSE /\ UNCHANGED <<archive, code>>
    /\ UNCHANGED <<clock, lines, cut, acked, trades, checks, at, draft, known, chosen>>

-----------------------------------------------------------------------------
(* Recording a run *)

Loadable(file) == \A i \in DOMAIN file : file[i] # Torn

\* (bounds) A line that continues the last one needs no room of its own.
LineLeft == Len(lines) < MaxLines \/ "runs" \in cut
CheckLeft == Len(checks) < MaxChecks \/ "checks" \in cut

\* entry_for, basket_entry_for: the id holds the second and the label, which
\* does not name the symbol.
EntryFor(s, kind, options, keeps) ==
    [second |-> clock, suffix |-> 1, kind |-> kind, symbol |-> s,
     first |-> Min(DOMAIN archive[s]), last |-> Max(DOMAIN archive[s]),
     digest |-> archive[s],
     numbers |-> Numbers(s, archive[s], options),
     file |-> IF keeps /\ kind = "backtest" THEN clock ELSE Nothing]

Compute(p) ==
    /\ at[p] = "idle"
    /\ LineLeft
    /\ registered
    /\ \E s \in Symbol, r \in Runs, keeps \in Keeps :
         /\ DOMAIN archive[s] # {}
         /\ draft' = [draft EXCEPT ![p] = EntryFor(s, r[1], r[2], keeps)]
    /\ at' = [at EXCEPT ![p] = "trades"]
    /\ UNCHANGED <<world, lines, cut, acked, trades, checks, known, chosen>>

\* _record: with --keep-trades the table is written under the id the entry
\* has before append() makes it unique.
WriteTrades(p) ==
    LET e == draft[p] IN
    /\ at[p] = "trades"
    /\ at' = [at EXCEPT ![p] = "read"]
    /\ trades' = IF e.file = Nothing THEN trades
                 ELSE [trades EXCEPT ![e.file] = e.numbers]
    /\ UNCHANGED <<world, lines, cut, acked, checks, draft, known, chosen>>

\* (mutated form: lines that do not parse are passed over)
ReadIdsLenient(p) ==
    /\ at[p] = "read"
    /\ known' = [known EXCEPT ![p] =
                    {<<lines[i].second, lines[i].suffix>> :
                     i \in {k \in DOMAIN lines : lines[k] # Torn}}]
    /\ at' = [at EXCEPT ![p] = "append"]
    /\ UNCHANGED <<world, lines, cut, acked, trades, checks, draft, chosen>>

\* append: the ids are read, and a journal with a torn line raises.
ReadIds(p) ==
    /\ at[p] = "read"
    /\ IF Loadable(lines)
       THEN /\ known' = [known EXCEPT ![p] =
                           {<<lines[i].second, lines[i].suffix>> : i \in DOMAIN lines}]
            /\ at' = [at EXCEPT ![p] = "append"]
            /\ UNCHANGED draft
       ELSE /\ at' = [at EXCEPT ![p] = "idle"]
            /\ draft' = [draft EXCEPT ![p] = Nothing]
            /\ UNCHANGED known
    /\ UNCHANGED <<world, lines, cut, acked, trades, checks, chosen>>

\* (mutated form: the count begins at 0)
SuffixZero(e, ids) == IF <<e.second, 1>> \in ids THEN 2 ELSE 0

\* (mutated form: the id is used as it is)
SuffixNone(e, ids) == 1

\* The first suffix that makes the id new.
Suffix(e, ids) ==
    CHOOSE n \in 1 .. MaxLines + 1 :
        /\ <<e.second, n>> \notin ids
        /\ \A k \in 1 .. n - 1 : <<e.second, k>> \in ids

\* What is written behind a line without its newline continues that line, and
\* neither of the two can be read again.
Written(file, glued, line) ==
    IF glued THEN [file EXCEPT ![Len(file)] = Torn] ELSE Append(file, line)

\* The entry under the id that append() gives it.
Named(p) == [draft[p] EXCEPT !.suffix = Suffix(draft[p], known[p])]

AppendRun(p) ==
    /\ at[p] = "append"
    /\ LineLeft
    /\ lines' = Written(lines, "runs" \in cut, Named(p))
    /\ cut' = cut \ {"runs"}
    /\ acked' = acked \cup {Named(p)}
    /\ at' = [at EXCEPT ![p] = "idle"]
    /\ draft' = [draft EXCEPT ![p] = Nothing]
    /\ known' = [known EXCEPT ![p] = {}]
    /\ UNCHANGED <<world, trades, checks, chosen>>

-----------------------------------------------------------------------------
(* kcs-journal verify *)

\* select: the runs whose id begins with the id asked for; a run recorded
\* again in the same second begins with the id of the first.
Selected(e) ==
    {i \in DOMAIN lines : lines[i].second = e.second
                            /\ (e.suffix = 1 \/ lines[i].suffix = e.suffix)}

\* main: the entries are loaded once; select() keeps all of them or the one
\* whose id was asked for.
StartVerify(p) ==
    /\ at[p] = "idle"
    /\ Loadable(lines) /\ lines # <<>>
    /\ CheckLeft
    /\ \/ chosen' = [chosen EXCEPT ![p] = lines]
       \/ \E i \in DOMAIN lines :
            /\ Selected(lines[i]) = {i}
            /\ chosen' = [chosen EXCEPT ![p] = <<lines[i]>>]
    /\ at' = [at EXCEPT ![p] = "verify"]
    /\ UNCHANGED <<world, lines, cut, acked, trades, checks, draft, known>>

\* (mutated form: the whole series is loaded)
WindowWhole(e) == archive[e.symbol]

\* window_of: the bars between the recorded first and last time.
Window(e) ==
    LET bars == archive[e.symbol] IN
    Restrict(bars, {t \in DOMAIN bars : e.first <= t /\ t <= e.last})

\* What the re-run computes, with the options it is given again.
Rerun(e) ==
    Numbers(e.symbol, Window(e), e.numbers.options \cap Repeated[e.kind])

TradesDiffer(e) == e.file # Nothing /\ trades[e.file] # Rerun(e)

\* get_strategy and run_basket accept what the entry holds: a basket of short
\* legs is refused when it is not allowed to go short.
Rebuildable(e) ==
    registered /\ ~(e.kind = "basket" /\ "short" \in e.numbers.options)

\* (mutated form: the fingerprint is not compared)
StatusOfNumbers(e) ==
    CASE DOMAIN Window(e) = {} -> "error"
      [] DOMAIN Window(e) # {} /\ ~Rebuildable(e) -> "unknown-strategy"
      [] OTHER -> IF Rerun(e) # e.numbers \/ TradesDiffer(e) THEN "mismatch"
                  ELSE "verified"

\* (mutated form: the fingerprint is compared before the numbers)
StatusDigestFirst(e) ==
    CASE DOMAIN Window(e) = {} -> "error"
      [] DOMAIN Window(e) # {} /\ ~Rebuildable(e) -> "unknown-strategy"
      [] OTHER -> IF Window(e) # e.digest THEN "data-changed"
                  ELSE IF Rerun(e) # e.numbers \/ TradesDiffer(e) THEN "mismatch"
                  ELSE "verified"

Status(e) ==
    CASE DOMAIN Window(e) = {} -> "error"
      [] DOMAIN Window(e) # {} /\ ~Rebuildable(e) -> "unknown-strategy"
      [] OTHER -> IF Rerun(e) # e.numbers \/ TradesDiffer(e) THEN "mismatch"
                  ELSE IF Window(e) # e.digest THEN "data-changed" ELSE "verified"

\* What has become of all the entry depends on, time by time over its window
\* (history, for the properties).
Found(e) == \E t \in e.first .. e.last : t \in DOMAIN archive[e.symbol]
SameBars(e) ==
    \A t \in e.first .. e.last :
        /\ t \in DOMAIN archive[e.symbol] <=> t \in DOMAIN e.digest
        /\ t \in DOMAIN e.digest => archive[e.symbol][t] = e.digest[t]
SameSeen(e) ==
    \A t \in e.first .. e.last :
        /\ t \in DOMAIN archive[e.symbol] <=> t \in DOMAIN e.digest
        /\ t \in DOMAIN e.digest => Read(archive[e.symbol][t]) = Read(e.digest[t])
SameCode(e) == code = e.numbers.code
OwnTrades(e) == e.file # Nothing => trades[e.file] = e.numbers

\* The line verify records for an entry.
Judged(e) ==
    [second |-> e.second, suffix |-> e.suffix, status |-> Status(e),
     options |-> e.numbers.options, kind |-> e.kind, registered |-> registered,
     found |-> Found(e), sameBars |-> SameBars(e), sameSeen |-> SameSeen(e),
     sameCode |-> SameCode(e), ownTrades |-> OwnTrades(e)]

\* verify and record_verification.
VerifyOne(p) ==
    /\ at[p] = "verify"
    /\ chosen[p] # <<>>
    /\ CheckLeft
    /\ chosen' = [chosen EXCEPT ![p] = Tail(@)]
    /\ checks' = Written(checks, "checks" \in cut, Judged(Head(chosen[p])))
    /\ cut' = cut \ {"checks"}
    /\ UNCHANGED <<world, lines, acked, trades, at, draft, known>>

VerifyEnds(p) ==
    /\ at[p] = "verify"
    /\ chosen[p] = <<>> \/ ~CheckLeft
    /\ at' = [at EXCEPT ![p] = "idle"]
    /\ chosen' = [chosen EXCEPT ![p] = <<>>]
    /\ UNCHANGED <<world, lines, cut, acked, trades, checks, draft, known>>

\* A killed command writes nothing of its line, a part that does not parse or
\* all but the newline.  (With all of it written the command is as good as
\* done: AppendRun, VerifyOne.)
Crash(p) ==
    /\ at[p] # "idle"
    /\ at' = [at EXCEPT ![p] = "idle"]
    /\ draft' = [draft EXCEPT ![p] = Nothing]
    /\ known' = [known EXCEPT ![p] = {}]
    /\ chosen' = [chosen EXCEPT ![p] = <<>>]
    /\ \/ UNCHANGED <<lines, checks, cut>>
       \/ /\ at[p] = "append" /\ LineLeft
          /\ \E line \in {Torn, Named(p)} :
               lines' = Written(lines, "runs" \in cut, line)
          /\ cut' = cut \cup {"runs"}
          /\ UNCHANGED checks
       \/ /\ at[p] = "verify" /\ chosen[p] # <<>> /\ CheckLeft
          /\ \E line \in {Torn, Judged(Head(chosen[p]))} :
               checks' = Written(checks, "checks" \in cut, line)
          /\ cut' = cut \cup {"checks"}
          /\ UNCHANGED lines
    /\ UNCHANGED <<world, acked, trades>>

CommandStep(p) ==
    \/ Compute(p) \/ WriteTrades(p) \/ ReadIds(p) \/ AppendRun(p)
    \/ StartVerify(p) \/ VerifyOne(p) \/ VerifyEnds(p)

JournalNext == SecondPasses \/ Change \/ \E p \in Process : CommandStep(p) \/ Crash(p)

JournalSpec == JournalInit /\ [][JournalNext]_journalVars

-----------------------------------------------------------------------------
(* Properties *)

Readable(file) == {i \in DOMAIN file : file[i] # Torn}

JournalTypeOK ==
    /\ archive \in [Symbol -> Bars] /\ code \in Nat /\ registered \in BOOLEAN
    /\ changes \in 0 .. MaxChanges /\ clock \in 0 .. LastSecond
    /\ lines \in Seq(Line \cup {Torn}) /\ Len(lines) <= MaxLines
    /\ \A i \in Readable(lines) : <<lines[i].kind, lines[i].numbers.options>> \in Runs
    /\ Len(checks) <= MaxChecks
    /\ cut \subseteq {"runs", "checks"}
    /\ at \in [Process -> {"idle", "trades", "read", "append", "verify"}]

\* Recording a run again, even in the same second, gives another id, and no
\* entry is rewritten (append: "Append-only on purpose").
IdsUnique ==
    \A i, j \in Readable(lines) :
        i # j => <<lines[i].second, lines[i].suffix>>
                 # <<lines[j].second, lines[j].suffix>>

Lost == {e \in acked : \A i \in Readable(lines) : lines[i] # e}

\* A run reported as journalized can be lost only to a line that another
\* command left without its newline.  It is noticed: the journal does not load
\* until somebody has mended it, and so no second run is lost (append loads
\* all of the journal before it writes).
LossIsNoticed ==
    /\ Lost # {} => ~Loadable(lines)
    /\ \A e, f \in Lost : e = f

\* What a status is given for.
Rebuilt(c) == c.found /\ c.registered /\ ~(c.kind = "basket" /\ "short" \in c.options)
Repeats(c) == c.sameCode /\ c.ownTrades /\ c.options \subseteq Repeated[c.kind]

\* Verified means that bars, code and trade table are those of the recorded
\* run and that all its options were given again, and whatever meets this
\* verifies: an entry stays checkable while the archive grows.
VerifiedMeansSame(c) ==
    c.status = "verified" <=> Rebuilt(c) /\ Repeats(c) /\ c.sameBars

\* Changed bars that leave every number as it was are told apart from
\* numbers that no longer come out.
DataChangedMeans(c) ==
    c.status = "data-changed" <=> Rebuilt(c) /\ Repeats(c) /\ ~c.sameBars /\ c.sameSeen

\* A mismatch is one of the code, of the trade table, of options that are not
\* given again, or of bars that some number depends on.
MismatchMeans(c) ==
    c.status = "mismatch" <=> Rebuilt(c) /\ ~(Repeats(c) /\ c.sameSeen)

\* Error is a window with no bar left in it, and unknown-strategy a run that
\* is refused over the bars there are.
RefusedMeans(c) ==
    /\ c.status = "error" <=> ~c.found
    /\ c.status = "unknown-strategy" <=> c.found /\ ~Rebuilt(c)

\* Every status a check can give says what it is given for, both ways.
StatusTells ==
    /\ JournalTypeOK
    /\ \A i \in Readable(checks) :
         LET c == checks[i] IN
         VerifiedMeansSame(c) /\ DataChangedMeans(c) /\ MismatchMeans(c) /\ RefusedMeans(c)

\* mismatch: the same inputs no longer produce the same output, because the
\* strategy or the engine is not what it was (verify's own words).
MismatchMeansChange ==
    \A i \in Readable(checks) :
        LET c == checks[i] IN
        c.status = "mismatch" => ~(c.sameBars /\ c.sameCode)

\* mismatch is for the same inputs, and data-changed for bars that are not
\* what they were (verify's own words).
MismatchMeansSameBars ==
    \A i \in Readable(checks) : checks[i].status = "mismatch" => checks[i].sameBars

\* A run reported as journalized stays in the journal, as a new run never
\* rewrites an old one (append's own words).
AckedIsJournaled == Lost = {}
=============================================================================
