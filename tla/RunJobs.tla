------------------------------- MODULE RunJobs -------------------------------
(***************************************************************************)
(* One `kcs-klines backfill`: main.rs from the /start ping to the exit     *)
(* code, the jobs run_series spawns and joins, the exchange clock the jobs *)
(* share, Ctrl-C, panics and the permits.  What a job does between reading *)
(* the clock and its result is SeriesWalk.                                 *)
(***************************************************************************)
EXTENDS Integers, FiniteSets

CONSTANTS
    NumJobs,     \* symbols times timeframes
    Concurrency, \* general.concurrency
    PanicAborts, \* the build's panic strategy: abort in the release profile
    Skews,       \* how far ahead the local clock may be
    MaxClock,     \* bound on the exchange clock, in bars
    Unset

Job == 1 .. NumJobs

ASSUME JobsAssumption ==
    /\ NumJobs \in Nat
    /\ Concurrency \in Nat \ {0}
    /\ PanicAborts \in BOOLEAN
    /\ Skews \subseteq Nat
    /\ MaxClock \in Nat
    /\ Unset \notin Nat /\ Unset \notin {"success", "partial", "fatal"}

VARIABLES
    main,      \* where the main task stands
    spawned,   \* jobs spawned so far: they are spawned in order
    permits,   \* free permits of the semaphore
    holds,     \* main has a permit and has not spawned the job yet
    job,       \* job -> its state
    listening, \* the select of this round polls a ctrl_c() future
    armed,     \* a ctrl_c() future was polled before: SIGINT no longer kills
    signal,    \* the listener has a SIGINT
    cut,       \* history: the run was interrupted
    collected, \* report.series
    failures,  \* report.failures
    pings,     \* pings sent to the healthcheck
    exit,      \* exit code
    time,      \* exchange time
    clock,     \* the cell of exchange_now
    reader,    \* the job that fills the cell
    ends,      \* job -> the clock it read
    reads      \* history: timestamp requests

report == <<collected, failures>>
signals == <<listening, armed, signal, cut>>
clockVars == <<clock, reader, ends, reads>>
jobsVars == <<main, spawned, permits, holds, job, signals, report, pings, exit, time,
          clockVars>>

JobsInit ==
    /\ main = "start"
    /\ spawned = 0
    /\ permits = Concurrency
    /\ holds = FALSE
    /\ job = [j \in Job |-> "none"]
    /\ listening = FALSE /\ armed = FALSE /\ signal = FALSE /\ cut = FALSE
    /\ collected = {} /\ failures = {}
    /\ pings = {}
    /\ exit = Unset
    /\ time = 0
    /\ clock = Unset /\ reader = Unset
    /\ ends = [j \in Job |-> Unset]
    /\ reads = 0

Alive == main \notin {"exited", "killed"}
Live == {"queued", "clock", "collect"}
Over == {"collected", "failed", "panicked"}
Running == {j \in Job : job[j] \in Live}

-----------------------------------------------------------------------------
(* The main task *)

Start ==
    /\ main = "start"
    /\ main' = "prepare"
    /\ pings' = pings \cup {"start"}
    /\ UNCHANGED <<spawned, permits, holds, job, signals, report, exit, time,
                   clockVars>>

\* A bad option, no symbols, an exchange that cannot be reached.
CannotPrepare ==
    /\ main = "prepare"
    /\ main' = "exited"
    /\ exit' = "fatal"
    /\ pings' = pings \cup {"fail"}
    /\ UNCHANGED <<spawned, permits, holds, job, signals, report, time, clockVars>>

Prepared ==
    /\ main = "prepare"
    /\ main' = "spawn"
    /\ UNCHANGED <<spawned, permits, holds, job, signals, report, pings, exit, time,
                   clockVars>>

TakePermitUnguarded ==
    /\ main = "spawn"
    /\ spawned < NumJobs /\ ~holds
    /\ permits' = permits - 1
    /\ holds' = TRUE
    /\ UNCHANGED <<main, spawned, job, signals, report, pings, exit, time, clockVars>>

\* The permit comes first: the main task waits until a job gives one back.
TakePermit ==
    /\ main = "spawn"
    /\ spawned < NumJobs /\ ~holds
    /\ permits > 0
    /\ permits' = permits - 1
    /\ holds' = TRUE
    /\ UNCHANGED <<main, spawned, job, signals, report, pings, exit, time, clockVars>>

\* The permit moves into the task.
Spawn ==
    /\ main = "spawn" /\ holds
    /\ holds' = FALSE
    /\ spawned' = spawned + 1
    /\ job' = [job EXCEPT ![spawned + 1] = "queued"]
    /\ UNCHANGED <<main, permits, signals, report, pings, exit, time, clockVars>>

AllSpawned ==
    /\ main = "spawn" /\ spawned = NumJobs
    /\ main' = "join"
    /\ UNCHANGED <<spawned, permits, holds, job, signals, report, pings, exit, time,
                   clockVars>>

\* select! polls its branches in any order; a result that is there at once may
\* keep it from polling ctrl_c() in this round.
Listen ==
    /\ main = "join" /\ ~listening
    /\ listening' = TRUE /\ armed' = TRUE
    /\ UNCHANGED <<main, spawned, permits, holds, job, signal, cut, report, pings,
                   exit, time, clockVars>>

JoinedPanicsIgnored(j) ==
    /\ main = "join"
    /\ job[j] \in Over
    /\ collected' = IF job[j] = "collected" THEN collected \cup {j} ELSE collected
    /\ failures' = IF job[j] = "failed" THEN failures \cup {j} ELSE failures
    /\ job' = [job EXCEPT ![j] = "joined"]
    /\ listening' = FALSE /\ signal' = FALSE
    /\ UNCHANGED <<main, spawned, permits, holds, armed, cut, pings, exit, time,
                   clockVars>>

JoinedTwice(j) ==
    /\ main = "join"
    /\ job[j] \in Over /\ j \notin collected
    /\ collected' = IF job[j] = "collected" THEN collected \cup {j} ELSE collected
    /\ failures' = IF job[j] = "collected" THEN failures ELSE failures \cup {j}
    /\ listening' = FALSE /\ signal' = FALSE
    /\ UNCHANGED <<main, spawned, permits, holds, job, armed, cut, pings, exit, time,
                   clockVars>>

\* A result ends the round, and with it the listener and what it has heard.
Joined(j) ==
    /\ main = "join"
    /\ job[j] \in Over
    /\ collected' = IF job[j] = "collected" THEN collected \cup {j} ELSE collected
    /\ failures' = IF job[j] = "collected" THEN failures ELSE failures \cup {j}
    /\ job' = [job EXCEPT ![j] = "joined"]
    /\ listening' = FALSE /\ signal' = FALSE
    /\ UNCHANGED <<main, spawned, permits, holds, armed, cut, pings, exit, time,
                   clockVars>>

AllJoined ==
    /\ main = "join"
    /\ \A j \in Job : job[j] = "joined"
    /\ main' = "shutdown"
    /\ UNCHANGED <<spawned, permits, holds, job, signals, report, pings, exit, time,
                   clockVars>>

Interrupted ==
    /\ main = "join" /\ signal
    /\ main' = "shutdown"
    /\ listening' = FALSE /\ signal' = FALSE /\ cut' = TRUE
    /\ UNCHANGED <<spawned, permits, holds, job, armed, report, pings, exit, time,
                   clockVars>>

ShutdownAtOnce ==
    /\ main = "shutdown"
    /\ main' = "report"
    /\ UNCHANGED <<spawned, permits, holds, job, signals, report, pings, exit, time,
                   clockVars>>

\* JoinSet::shutdown waits until every task is gone; their results are dropped.
Shutdown ==
    /\ main = "shutdown"
    /\ Running = {}
    /\ main' = "report"
    /\ UNCHANGED <<spawned, permits, holds, job, signals, report, pings, exit, time,
                   clockVars>>

ExitPingsAnyOk ==
    /\ main = "report"
    /\ main' = "exited"
    /\ exit' = IF failures = {} THEN "success" ELSE "partial"
    /\ pings' = pings \cup {"success"}
    /\ UNCHANGED <<spawned, permits, holds, job, signals, report, time, clockVars>>

\* The exit code, and the ping that goes with it.
Exit ==
    /\ main = "report"
    /\ main' = "exited"
    /\ exit' = IF failures = {} THEN "success" ELSE "partial"
    /\ pings' = pings \cup {IF failures = {} THEN "success" ELSE "fail"}
    /\ UNCHANGED <<spawned, permits, holds, job, signals, report, time, clockVars>>

-----------------------------------------------------------------------------
(* A job *)

GoesTo(j, state) == job' = [job EXCEPT ![j] = state]

rest == <<main, spawned, holds, signals, report, pings, exit, time>>

\* Store::scan, or an error from it.
Scan(j) ==
    /\ Alive /\ job[j] = "queued"
    /\ \/ GoesTo(j, "clock") /\ UNCHANGED permits
       \/ GoesTo(j, "failed") /\ permits' = permits + 1
    /\ UNCHANGED <<rest, clockVars>>

ReadClockAlone(j) ==
    /\ Alive /\ job[j] = "clock" /\ clock = Unset
    /\ reader' = j
    /\ reads' = reads + 1
    /\ UNCHANGED <<rest, permits, job, clock, ends>>

\* OnceCell::get_or_init: one job asks, the others wait for it.
ReadClock(j) ==
    /\ Alive /\ job[j] = "clock" /\ clock = Unset /\ reader = Unset
    /\ reader' = j
    /\ reads' = reads + 1
    /\ UNCHANGED <<rest, permits, job, clock, ends>>

\* The exchange's time, or the local clock when it does not answer.
FillClock(j) ==
    /\ Alive /\ reader = j /\ clock = Unset
    /\ \E t \in {time} \cup {time + s : s \in Skews} : clock' = t
    /\ reader' = Unset
    /\ UNCHANGED <<rest, permits, job, ends, reads>>

KnowsTime(j) ==
    /\ Alive /\ job[j] = "clock" /\ clock # Unset
    /\ ends' = [ends EXCEPT ![j] = clock]
    /\ GoesTo(j, "collect")
    /\ UNCHANGED <<rest, permits, clock, reader, reads>>

EndsWithPermit(j) ==
    /\ Alive /\ job[j] = "collect"
    /\ \E how \in {"collected", "failed"} : GoesTo(j, how)
    /\ UNCHANGED <<rest, permits, clockVars>>

\* However a task ends, dropping it gives its permit back.
Ends(j) ==
    /\ Alive /\ job[j] = "collect"
    /\ \E how \in {"collected", "failed"} : GoesTo(j, how)
    /\ permits' = permits + 1
    /\ UNCHANGED <<rest, clockVars>>

PanicsWithPermit(j) ==
    /\ Alive /\ job[j] \in Live
    /\ ~PanicAborts
    /\ GoesTo(j, "panicked")
    /\ reader' = IF reader = j THEN Unset ELSE reader
    /\ UNCHANGED <<rest, permits, clock, ends, reads>>

\* A panic that does not take the process with it.
Panics(j) ==
    /\ Alive /\ job[j] \in Live
    /\ ~PanicAborts
    /\ GoesTo(j, "panicked")
    /\ permits' = permits + 1
    /\ reader' = IF reader = j THEN Unset ELSE reader
    /\ UNCHANGED <<rest, clock, ends, reads>>

\* abort() takes effect where the task waits.
Aborts(j) ==
    /\ main = "shutdown" /\ job[j] \in Live
    /\ GoesTo(j, "aborted")
    /\ permits' = permits + 1
    /\ reader' = IF reader = j THEN Unset ELSE reader
    /\ UNCHANGED <<rest, clock, ends, reads>>

-----------------------------------------------------------------------------
(* The environment *)

Dies ==
    /\ main' = "killed"
    /\ job' = [j \in Job |-> IF job[j] \in Live THEN "aborted" ELSE job[j]]
    /\ UNCHANGED <<spawned, permits, holds, signals, report, pings, exit, time,
                   clockVars>>

\* SIGINT kills until ctrl_c() was first polled; afterwards it is heard by the
\* listener of this round, or by nobody.
SigInt ==
    /\ Alive
    /\ IF armed
         THEN /\ listening /\ ~signal
              /\ signal' = TRUE
              /\ UNCHANGED <<main, spawned, permits, holds, job, listening, armed, cut,
                             report, pings, exit, time, clockVars>>
         ELSE Dies

\* A panic in a release build, SIGTERM, or the machine.
Killed == Alive /\ Dies

ClockTicks ==
    /\ Alive /\ time < MaxClock
    /\ time' = time + 1
    /\ UNCHANGED <<main, spawned, permits, holds, job, signals, report, pings, exit,
                   clockVars>>

MainStep ==
    \/ Start \/ CannotPrepare \/ Prepared
    \/ TakePermit \/ Spawn \/ AllSpawned
    \/ Listen \/ (\E j \in Job : Joined(j)) \/ AllJoined \/ Interrupted
    \/ Shutdown \/ Exit

JobStep(j) ==
    \/ Scan(j) \/ ReadClock(j) \/ FillClock(j) \/ KnowsTime(j) \/ Ends(j)
    \/ Panics(j) \/ Aborts(j)

JobsNext == MainStep \/ (\E j \in Job : JobStep(j)) \/ SigInt \/ Killed \/ ClockTicks

JobsSpec == JobsInit /\ [][JobsNext]_jobsVars

\* Both the main task and every spawned one are polled when they can go on, and a
\* series comes to its end (RunTerminates of SeriesWalk).
JobsFairSpec == JobsSpec /\ WF_jobsVars(MainStep) /\ \A j \in Job : WF_jobsVars(JobStep(j))

-----------------------------------------------------------------------------
(* Properties *)

\* The type invariant.
JobsTypeOK ==
    /\ main \in {"start", "prepare", "spawn", "join", "shutdown", "report", "exited",
                 "killed"}
    /\ spawned \in 0 .. NumJobs
    /\ permits \in 0 .. Concurrency
    /\ holds \in BOOLEAN
    /\ job \in [Job -> {"none", "aborted", "joined"} \cup Live \cup Over]
    /\ listening \in BOOLEAN /\ armed \in BOOLEAN /\ signal \in BOOLEAN
    /\ cut \in BOOLEAN
    /\ collected \subseteq Job /\ failures \subseteq Job
    /\ pings \subseteq {"start", "success", "fail"}
    /\ exit \in {"success", "partial", "fatal", Unset}
    /\ time \in Nat
    /\ clock \in Nat \cup {Unset}
    /\ reader \in Job \cup {Unset}
    /\ ends \in [Job -> Nat \cup {Unset}]
    /\ reads \in Nat

\* A permit is free, in the hands of the main task, or inside a task that still
\* runs: none is ever lost, so no more than Concurrency series are collected at a
\* time and the spawn loop does not starve.
PermitsConserved ==
    main # "killed" =>
        permits + Cardinality(Running) + (IF holds THEN 1 ELSE 0) = Concurrency

\* Each series is reported once, as collected or as failed, and as nothing else.
ReportedOnce ==
    /\ collected \cap failures = {}
    /\ \A j \in Job : j \in collected \cup failures <=> job[j] = "joined"

\* A run nobody interrupted exits with success exactly if every series it was
\* asked for was collected, whatever failed or panicked on the way.
ExitTells ==
    (exit \in {"success", "partial"} /\ ~cut) => (exit = "success" <=> collected = Job)

\* When the report is printed no task runs any more, so nothing is written behind
\* the back of the exit code.
QuietAtReport == main \in {"report", "exited"} => Running = {}

\* The watchdog hears what the exit code says: success only without a failure,
\* and nothing at all from a run that was killed.
PingsTell ==
    /\ "success" \in pings <=> exit = "success"
    /\ "fail" \in pings <=> exit \in {"partial", "fatal"}
    /\ exit = "success" => failures = {}
    /\ exit = "partial" => failures # {}
    /\ main = "killed" => exit = Unset

\* One timestamp request serves all series; only a job that dies while asking
\* leaves it to another.
ClockReadOnce ==
    main \in {"spawn", "join"} =>
        reads <= 1 + Cardinality(failures \cup {j \in Job : job[j] = "panicked"})

\* Every run ends, with any number of series and permits.
RunEnds == <>~Alive

\* README: "Exit codes: `0` success, `1` partial failure", and the healthcheck is
\* pinged "on success and `/fail` on failure".
SuccessMeansAll == exit = "success" => collected = Job

\* README: "so nothing half-formed is ever on disk": no series asks for bars the
\* exchange has not finished.
OnlyFinishedPeriods == \A j \in Job : ends[j] # Unset => ends[j] <= time

-----------------------------------------------------------------------------
(* Why they hold *)

\* Jobs are spawned in order, and none before the run is prepared.
SpawnOrder ==
    /\ \A j \in Job : job[j] = "none" <=> j > spawned
    /\ main = "spawn" /\ holds => spawned < NumJobs
    /\ main \in {"start", "prepare"} => spawned = 0 /\ ~holds

\* A run goes to its report without an interrupt only once all is joined.
AllIn ==
    main \in {"shutdown", "report", "exited"} /\ ~cut /\ exit # "fatal" =>
        \A j \in Job : job[j] = "joined"

ExitsOnce == exit # Unset <=> main = "exited"

\* Who read the clock still does, has filled the cell, or is dead.
Dead == failures \cup {j \in Job : job[j] = "panicked"}
ReadersCounted ==
    main \in {"start", "prepare", "spawn", "join"} =>
        reads <= Cardinality(Dead) + (IF reader = Unset /\ clock = Unset THEN 0 ELSE 1)

JobsInv ==
    /\ SpawnOrder /\ AllIn /\ ExitsOnce /\ ReadersCounted
    /\ PermitsConserved /\ ReportedOnce /\ QuietAtReport /\ PingsTell

\* What is told of a run is what happened in it: the lists of the report, the
\* exit code, the pings, and nothing still at work behind them.
ReportTells == JobsTypeOK /\ ReportedOnce /\ ExitTells /\ PingsTell /\ QuietAtReport

\* What the series share is neither lost nor taken twice: the permits and the
\* one reading of the exchange's clock.
SharedFairly == PermitsConserved /\ ClockReadOnce

=============================================================================
