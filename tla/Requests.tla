------------------------------- MODULE Requests -------------------------------
(***************************************************************************)
(* KucoinClient::get_envelope: every worker's retry loop over the limiter  *)
(* it shares with the others, against an exchange that answers, refuses,   *)
(* fails and stays silent as it likes.                                     *)
(***************************************************************************)
EXTENDS RateLimiter

CONSTANTS
    Weight,      \* weight of the endpoint asked
    Calls,       \* bound on the calls a worker makes
    MaxAttempts, \* retry.max_retries + 1
    BackOff      \* attempt -> delays backoff_delay may return for it

Attempt == 0 .. MaxAttempts - 1
Reply == {"limited", "5xx", "cut", "ok", "refused"}

ASSUME RequestAssumption ==
    /\ Weight \in Weights
    /\ Calls \in Nat
    /\ MaxAttempts \in Nat \ {0}
    /\ BackOff \in [Attempt -> SUBSET Delays] /\ \A a \in Attempt : BackOff[a] # {}

VARIABLES
    pc,      \* worker -> where its call stands
    reply,   \* worker -> the response it has not acted on yet
    resume,  \* worker -> when its own backoff is over
    attempt, \* worker -> attempts before this one
    calls,   \* worker -> calls begun
    sent,    \* requests.fetch_add: requests that went out
    retries, \* retries.fetch_add
    tries,   \* history: worker -> requests its call sent
    verdict  \* worker -> how its last call ended

loop == <<pc, reply, resume, attempt, calls, sent, retries, tries, verdict>>
vars == <<limiterVars, loop>>

Init ==
    /\ LimiterInit
    /\ pc = [w \in Worker |-> "idle"]
    /\ reply = [w \in Worker |-> None]
    /\ resume = [w \in Worker |-> 0]
    /\ attempt = [w \in Worker |-> 0]
    /\ calls = [w \in Worker |-> 0]
    /\ sent = 0
    /\ retries = 0
    /\ tries = [w \in Worker |-> 0]
    /\ verdict = [w \in Worker |-> "none"]

-----------------------------------------------------------------------------
(* The loop *)

Call(w) ==
    /\ pc[w] = "idle"
    /\ calls[w] < Calls
    /\ calls' = [calls EXCEPT ![w] = @ + 1]
    /\ attempt' = [attempt EXCEPT ![w] = 0]
    /\ tries' = [tries EXCEPT ![w] = 0]
    /\ verdict' = [verdict EXCEPT ![w] = "none"]
    /\ pc' = [pc EXCEPT ![w] = "loop"]
    /\ UNCHANGED <<limiterVars, reply, resume, sent, retries>>

AttemptUnpaid(w) ==
    /\ pc[w] = "loop"
    /\ retries' = IF attempt[w] > 0 THEN retries + 1 ELSE retries
    /\ IF attempt[w] > 0
         THEN /\ pc' = [pc EXCEPT ![w] = "sent"]
              /\ sent' = sent + 1
              /\ tries' = [tries EXCEPT ![w] = @ + 1]
              /\ UNCHANGED callers
         ELSE /\ pc' = [pc EXCEPT ![w] = "acquire"]
              /\ Ask(w, Weight)
              /\ UNCHANGED <<sent, tries>>
    /\ UNCHANGED <<now, bucket, history, reply, resume, attempt, calls, verdict>>

\* Every round of the loop asks the limiter anew.
BeginAttempt(w) ==
    /\ pc[w] = "loop"
    /\ retries' = IF attempt[w] > 0 THEN retries + 1 ELSE retries
    /\ pc' = [pc EXCEPT ![w] = "acquire"]
    /\ Ask(w, Weight)
    /\ UNCHANGED <<now, bucket, history, reply, resume, attempt, calls, sent, tries,
                   verdict>>

Denied(w) == Sleeps(w) /\ UNCHANGED loop

Send(w) ==
    /\ Acquired(w)
    /\ pc' = [pc EXCEPT ![w] = "sent"]
    /\ sent' = sent + 1
    /\ tries' = [tries EXCEPT ![w] = @ + 1]
    /\ UNCHANGED <<reply, resume, attempt, calls, retries, verdict>>

End(w, how) ==
    /\ pc' = [pc EXCEPT ![w] = "idle"]
    /\ verdict' = [verdict EXCEPT ![w] = how]
    /\ UNCHANGED <<resume, attempt>>

Again(w) ==
    /\ attempt' = [attempt EXCEPT ![w] = @ + 1]
    /\ pc' = [pc EXCEPT ![w] = "loop"]
    /\ UNCHANGED <<resume, verdict>>

LastAttemptLate(w) == attempt[w] + 1 > MaxAttempts
LastAttemptEarly(w) == attempt[w] + 2 >= MaxAttempts
LastAttempt(w) == attempt[w] + 1 = MaxAttempts

\* The next round comes once the worker has slept over its backoff.
Later(w) ==
    /\ pc' = [pc EXCEPT ![w] = "backoff"]
    /\ \E d \in BackOff[attempt[w]] : resume' = [resume EXCEPT ![w] = now + d]
    /\ UNCHANGED <<attempt, verdict>>

counters == <<calls, sent, retries, tries>>

WakesUp(w) ==
    /\ pc[w] = "backoff"
    /\ resume[w] <= now
    /\ Again(w)
    /\ UNCHANGED <<limiterVars, reply, counters>>

\* No response at all: a timeout, a refused or a broken connection.
Unreachable(w) ==
    /\ pc[w] = "sent"
    /\ IF LastAttempt(w) THEN End(w, "transport") ELSE Later(w)
    /\ UNCHANGED <<limiterVars, reply, counters>>

\* A transport error that is none of these is not retried.
Broken(w) ==
    /\ pc[w] = "sent"
    /\ End(w, "transport")
    /\ UNCHANGED <<limiterVars, reply, counters>>

\* The headers of a response, whatever its status, go to the limiter first; what
\* the response is comes after, and other workers may come in between.
Hears(w) ==
    /\ pc[w] = "sent"
    /\ \E m \in Remaining \cup {None}, r \in Resets \cup {None} : NoteHeaders(m, r)
    /\ pc' = [pc EXCEPT ![w] = "heard"]
    /\ \E what \in Reply : reply' = [reply EXCEPT ![w] = what]
    /\ UNCHANGED <<now, callers, resume, attempt, verdict, counters>>

Heard(w, what) ==
    /\ pc[w] = "heard"
    /\ reply[w] = what
    /\ reply' = [reply EXCEPT ![w] = None]

LimitedAlone(w) ==
    /\ Heard(w, "limited")
    /\ \E d \in Delays : nextAllowed' = now + d
    /\ IF LastAttempt(w) THEN End(w, "exhausted") ELSE Again(w)
    /\ UNCHANGED <<now, tokens, lastRefill, history, callers, counters>>

\* 429 or a rate-limit code: Retry-After or the backoff is a pause for everybody,
\* and the worker does not sleep by itself.
Limited(w) ==
    /\ Heard(w, "limited")
    /\ \E d \in Delays : Penalize(d)
    /\ IF LastAttempt(w) THEN End(w, "exhausted") ELSE Again(w)
    /\ UNCHANGED <<now, callers, counters>>

ServerError(w) ==
    /\ Heard(w, "5xx")
    /\ IF LastAttempt(w) THEN End(w, "exhausted") ELSE Later(w)
    /\ UNCHANGED <<limiterVars, counters>>

\* The connection breaks while the body is read.
BodyBreaks(w) ==
    /\ Heard(w, "cut")
    /\ End(w, "transport")
    /\ UNCHANGED <<limiterVars, counters>>

\* An answer, or an error nobody retries: an unexpected status, a body that
\* cannot be parsed, a business code.
Answer(w) ==
    /\ \E how \in {"ok", "refused"} : Heard(w, how) /\ End(w, how)
    /\ UNCHANGED <<limiterVars, counters>>

Step(w) ==
    \/ Call(w) \/ BeginAttempt(w) \/ Denied(w) \/ Send(w) \/ WakesUp(w)
    \/ Unreachable(w) \/ Broken(w) \/ Hears(w)
    \/ Limited(w) \/ ServerError(w) \/ BodyBreaks(w) \/ Answer(w)

Next ==
    \/ \E w \in Worker : Step(w)
    \/ (Tick \/ Mark) /\ UNCHANGED loop

Spec == Init /\ [][Next]_vars

\* Time passes as long as somebody sleeps; the tasks are polled when they can go
\* on, and every request is answered or times out.
Sleeper ==
    \E w \in Worker : \/ asks[w] # None /\ wake[w] > now
                      \/ pc[w] = "backoff" /\ resume[w] > now
PassTime ==
    /\ Sleeper
    /\ now < MaxTime
    /\ now' = now + 1
    /\ UNCHANGED <<bucket, callers, history, loop>>
FairSpec ==
    /\ Init
    /\ [][(\E w \in Worker : Step(w)) \/ PassTime]_vars
    /\ WF_vars(PassTime)
    /\ \A w \in Worker : WF_vars(Step(w))

-----------------------------------------------------------------------------
(* Properties *)

\* The type invariant of the loop.
TypeOK ==
    /\ LimiterTypeOK
    /\ pc \in [Worker -> {"idle", "loop", "acquire", "sent", "heard",
                       "backoff"}]
    /\ reply \in [Worker -> Reply \cup {None}]
    /\ resume \in [Worker -> Nat]
    /\ attempt \in [Worker -> Attempt]
    /\ calls \in [Worker -> 0 .. Calls]
    /\ sent \in Nat /\ retries \in Nat
    /\ tries \in [Worker -> 0 .. MaxAttempts]
    /\ verdict \in [Worker -> {"none", "ok", "refused", "exhausted", "transport"}]

\* Everything that goes to the exchange, retries included, was paid for, so the
\* budget of the bucket bounds the requests that reach it.
PaidFor == sent * Lesser(Weight, Capacity) = spent

\* A call gives up for want of attempts only after it has sent all of them, and
\* the counter of retries is what went out beyond the first of each call.
GivesUpLate ==
    /\ \A w \in Worker : verdict[w] = "exhausted" => tries[w] = MaxAttempts
    /\ \A w \in Worker : pc[w] = "sent" => tries[w] = attempt[w] + 1

\* Why they hold: a call counts its attempts as it sends them, asks for the weight
\* of its endpoint, and only sleeps when it has an attempt left.
Progress(w) ==
    /\ asks[w] # None => pc[w] = "acquire" /\ asks[w] = Lesser(Weight, Capacity)
    /\ pc[w] \in {"loop", "acquire"} => tries[w] = attempt[w]
    /\ pc[w] \in {"sent", "heard", "backoff"} => tries[w] = attempt[w] + 1
    /\ pc[w] = "backoff" => ~LastAttempt(w)
    /\ pc[w] # "idle" => verdict[w] = "none"
    /\ verdict[w] = "exhausted" => tries[w] = MaxAttempts
LoopInv == \A w \in Worker : Progress(w)

\* The client drives the limiter only through its operations, one at a time, so
\* that the budget of the bucket is a budget of the run.
UsesLimiter == LimiterSpec

\* client.rs: "Connection reset mid-body is a request error, not a transport error,
\* and is worth retrying."
BrokenBodyIsRetried ==
    [][\A w \in Worker : BodyBreaks(w) => (LastAttempt(w) \/ pc'[w] # "idle")]_vars

\* Every call ends, whoever else is retrying and however often the exchange
\* refuses.
CallsEnd == \A w \in Worker : (pc[w] # "idle") ~> (pc[w] = "idle")

\* The accounts of the retry loop: well typed, nothing sent unpaid, nothing
\* given up early.
CallsArePaid == TypeOK /\ PaidFor /\ GivesUpLate

=============================================================================
