------------------------------- MODULE Archive -------------------------------
(***************************************************************************)
(* What collecting a series promises, without saying how: the archive is a *)
(* growing set of finished bars, and a run that succeeds leaves no bar of  *)
(* the exchange missing between the bottom it settled on and its end.  A   *)
(* run that is not bounded by a start settles at or below everything the   *)
(* archive holds, so after it the archive has no hole at all.  The promise *)
(* is void once some run has passed over a stretch it never asked for.     *)
(***************************************************************************)
EXTENDS Integers

CONSTANTS MaxTime, Worlds

Slot == 0 .. MaxTime
Bar == 1 .. MaxTime - 1

VARIABLES
    upstream, \* bars the exchange serves
    now,      \* exchange clock
    bars,     \* bars in the archive
    phase,    \* "idle", or the kind of the writing run: "default", "bounded"
    upto,     \* the bars of the run are strictly below this slot
    verdict,  \* "ok" once a writing run has reported success
    leapt     \* some run has passed over a stretch it never asked for

avars == <<upstream, now, bars, phase, upto, verdict, leapt>>

Finished(lo, hi) == {t \in upstream : lo <= t /\ t < hi}

AInit ==
    /\ \E w \in Worlds : upstream = w.upstream
    /\ now = 0 /\ bars = {} /\ phase = "idle" /\ upto = 0
    /\ verdict = "none" /\ leapt = FALSE

ATick ==
    /\ now' > now /\ now' <= MaxTime
    /\ UNCHANGED <<upstream, bars, phase, upto, verdict, leapt>>

\* Only a run with a start can be known to leave a stretch out from the outset.
ABegin(kind) ==
    /\ phase = "idle"
    /\ phase' = kind /\ upto' = now /\ verdict' = "none"
    /\ leapt' \in IF kind = "bounded" THEN {leapt, TRUE} ELSE {leapt}
    /\ UNCHANGED <<upstream, now, bars>>

ALeap ==
    /\ phase # "idle"
    /\ leapt' = TRUE
    /\ UNCHANGED <<upstream, now, bars, phase, upto, verdict>>

\* Bars are added, never removed, and only such as the exchange has finished.
AStore ==
    /\ phase # "idle"
    /\ bars \subseteq bars' /\ bars' \subseteq bars \cup Finished(0, upto)
    /\ UNCHANGED <<upstream, now, phase, upto, verdict, leapt>>

Complete(bottom) ==
    /\ Finished(bottom, upto) \subseteq bars
    /\ phase = "default" => \A b \in bars : bottom <= b

ASucceed ==
    /\ phase # "idle"
    /\ leapt \/ \E bottom \in Slot : Complete(bottom)
    /\ phase' = "idle" /\ upto' = 0 /\ verdict' = "ok"
    /\ UNCHANGED <<upstream, now, bars, leapt>>

AFail ==
    /\ phase' = "idle" /\ upto' = 0 /\ verdict' = "none"
    /\ UNCHANGED <<upstream, now, bars, leapt>>

ANext ==
    \/ ATick
    \/ \E kind \in {"default", "bounded"} : ABegin(kind)
    \/ ALeap \/ AStore \/ ASucceed \/ AFail

ASpec == AInit /\ [][ANext]_avars
=============================================================================
