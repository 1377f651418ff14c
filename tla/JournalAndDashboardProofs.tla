--------------------- MODULE JournalAndDashboardProofs ---------------------
(***************************************************************************)
(* Proofs about what the analysis keeps and what it shows.                 *)
(*                                                                         *)
(* Journal, for any symbols, kinds of runs, number of lines, checks and    *)
(* changes.  The verdicts are right for any number of commands at a time;  *)
(* unique ids and durable entries need one command at a time.              *)
(*                                                                         *)
(* Dashboard, for any threads, series, rewrites and cache age.  What a     *)
(* request has in hand is tied to the step it is at: Shaped says which     *)
(* step can follow which, RequestInv what holds at each.                   *)
(***************************************************************************)
EXTENDS Journal, Dashboard, FiniteSetTheorems, SequenceTheorems, WellFoundedInduction, TLAPS

-----------------------------------------------------------------------------
(* The journal *)

\* What every entry knows of itself: its numbers are those of the bars its
\* fingerprint was taken of, and these lie in its window.
Recorded(e) ==
    /\ e \in Line
    /\ DOMAIN e.digest # {} /\ DOMAIN e.digest \subseteq e.first .. e.last
    /\ e.numbers.symbol = e.symbol /\ e.numbers.seen = Seen(e.digest)
    /\ <<e.kind, e.numbers.options>> \in Runs

Id(e) == <<e.second, e.suffix>>
Ids(file) == {Id(file[i]) : i \in Readable(file)}

Statuses == {"error", "unknown-strategy", "mismatch", "data-changed", "verified"}
Verdict ==
    [second : Nat, suffix : Nat, status : Statuses, options : SUBSET STRING,
     kind : DOMAIN Repeated, registered : BOOLEAN, found : BOOLEAN, sameBars : BOOLEAN,
     sameSeen : BOOLEAN, sameCode : BOOLEAN, ownTrades : BOOLEAN]

\* What a status says of the entry it was given to.
Sound(c) ==
    VerifiedMeansSame(c) /\ DataChangedMeans(c) /\ MismatchMeans(c) /\ RefusedMeans(c)

WorldInv ==
    /\ archive \in [Symbol -> Bars] /\ code \in Nat /\ registered \in BOOLEAN
    /\ changes \in 0 .. MaxChanges /\ clock \in 0 .. LastSecond

LinesInv ==
    /\ lines \in Seq(Line \cup {Torn}) /\ Len(lines) <= MaxLines
    /\ \A i \in Readable(lines) : Recorded(lines[i])
    /\ "runs" \in cut => lines # <<>>

ChecksInv ==
    /\ checks \in Seq(Verdict \cup {Torn}) /\ Len(checks) <= MaxChecks
    /\ \A i \in Readable(checks) : Sound(checks[i])
    /\ "checks" \in cut => checks # <<>>

Places == {"idle", "trades", "read", "append", "verify"}

Maps ==
    /\ at \in [Process -> Places]
    /\ draft \in [Process -> Line \cup {Nothing}]
    /\ known \in [Process -> SUBSET (Nat \X Nat)]
    /\ chosen \in [Process -> Seq(Line)]
    /\ cut \subseteq {"runs", "checks"}

\* What a command has in hand fits the step it is at; the ids it knows are
\* those of a file that need not be the one it appends to.
Hand(place, entry, ids, queue) ==
    /\ place \in {"trades", "read", "append"} => Recorded(entry)
    /\ place = "append" =>
         \E file \in Seq(Line \cup {Torn}) : Len(file) <= MaxLines /\ ids \subseteq Ids(file)
    /\ \A i \in DOMAIN queue : Recorded(queue[i])

HandsInv == \A p \in Process : Hand(at[p], draft[p], known[p], chosen[p])

JournalInv == WorldInv /\ LinesInv /\ ChecksInv /\ Maps /\ HandsInv

-----------------------------------------------------------------------------
(* Bars and lines *)

\* Every nonempty set of naturals has a least element.
LEMMA LeastExists ==
    ASSUME NEW S \in SUBSET Nat, S # {}
    PROVE  \E m \in S : \A k \in S : m <= k
<1>1. PICK m \in S : \A y \in S : ~(<<y, m>> \in OpToRel(<, Nat))
    BY NatLessThanWellFounded, WFMin
<1>2. ASSUME NEW y \in S PROVE m <= y
    <2>1. m \in Nat /\ y \in Nat /\ <<y, m>> \in Nat \X Nat
        OBVIOUS
    <2>2. y < m => <<y, m>> \in OpToRel(<, Nat)
        BY <2>1 DEF OpToRel
    <2>3. ~(y < m)
        BY <1>1, <2>2
    <2> QED BY <2>1, <2>3
<1> QED BY <1>2

\* What no number reads is left out bar by bar.
LEMMA SeenTypes ==
    ASSUME NEW s \in Bars
    PROVE  /\ DOMAIN s \subseteq Slot /\ s = [t \in DOMAIN s |-> s[t]]
           /\ \A t \in DOMAIN s : s[t] \in Bar
           /\ s \in [DOMAIN s -> Bar] /\ Seen(s) \in [DOMAIN s -> Bar]
           /\ Seen(s) \in Bars /\ DOMAIN Seen(s) = DOMAIN s
           /\ Seen(s) = [t \in DOMAIN s |-> Read(s[t])]
<1>1. PICK T \in SUBSET Slot : s \in [T -> Bar]
    BY DEF Bars
<1>2. \A t \in T : s[t] \in Bar /\ Read(s[t]) \in Bar
    BY <1>1 DEF Read, Bar
<1>3. Seen(s) \in [T -> Bar]
    BY <1>1, <1>2 DEF Seen
<1>4. Seen(s) \in Bars
    BY <1>3 DEF Bars
<1> QED BY <1>1, <1>2, <1>3, <1>4 DEF Seen

\* Two series within a window are the same if they are at each of its times.
LEMMA SameByTime ==
    ASSUME NEW V, NEW W, NEW A \in SUBSET W, NEW B \in SUBSET W,
           NEW f \in [A -> V], NEW g \in [B -> V]
    PROVE  f = g <=> \A t \in W : (t \in A <=> t \in B) /\ (t \in B => f[t] = g[t])
<1>1. ASSUME f = g
      PROVE  \A t \in W : (t \in A <=> t \in B) /\ (t \in B => f[t] = g[t])
    <2>1. A = B
        BY <1>1
    <2> QED BY <1>1, <2>1
<1>2. ASSUME \A t \in W : (t \in A <=> t \in B) /\ (t \in B => f[t] = g[t])
      PROVE  f = g
    <2>1. A = B
        BY <1>2
    <2> QED BY <1>2, <2>1
<1> QED BY <1>1, <1>2

\* A file whose last line has become another one.
LEMMA LastReplaced ==
    ASSUME NEW S, NEW file \in Seq(S), file # <<>>, NEW line \in S
    PROVE  /\ [file EXCEPT ![Len(file)] = line] \in Seq(S)
           /\ Len([file EXCEPT ![Len(file)] = line]) = Len(file)
           /\ [file EXCEPT ![Len(file)] = line] # <<>>
           /\ \A i \in 1 .. Len(file) :
                [file EXCEPT ![Len(file)] = line][i] = IF i = Len(file) THEN line ELSE file[i]
<1>1. Len(file) \in 1 .. Len(file) /\ DOMAIN file = 1 .. Len(file)
    OBVIOUS
<1>2. /\ [file EXCEPT ![Len(file)] = line] \in Seq(S)
      /\ Len([file EXCEPT ![Len(file)] = line]) = Len(file)
    BY <1>1, ExceptSeq
<1>3. DOMAIN [file EXCEPT ![Len(file)] = line] = 1 .. Len(file)
    BY <1>1
<1>4. [file EXCEPT ![Len(file)] = line] # <<>>
    BY <1>1, <1>3
<1> QED BY <1>1, <1>2, <1>4

\* A line without its newline takes the next one with it, and what stood
\* before stays (append, record_verification: path.open("a")).
LEMMA WrittenIs ==
    ASSUME NEW S, NEW file \in Seq(S), NEW line \in S, NEW name, NEW open,
           Torn \in S, name \in open => file # <<>>,
           NEW w,
           w = IF name \in open THEN [file EXCEPT ![Len(file)] = Torn] ELSE Append(file, line)
    PROVE  /\ w \in Seq(S) /\ Len(file) \in Nat /\ w # <<>>
           /\ Len(w) = IF name \in open THEN Len(file) ELSE Len(file) + 1
           /\ \A i \in 1 .. Len(file) : i # Len(file) \/ name \notin open => w[i] = file[i]
           /\ w[Len(w)] = IF name \in open THEN Torn ELSE line
           /\ \A i \in 1 .. Len(w) :
                w[i] # Torn => (i \in 1 .. Len(file) /\ w[i] = file[i]) \/ w[i] = line
<1>1. CASE name \in open
    <2>1. w = [file EXCEPT ![Len(file)] = Torn] /\ file # <<>>
        BY <1>1
    <2>2. /\ w \in Seq(S) /\ Len(w) = Len(file) /\ w # <<>>
          /\ \A i \in 1 .. Len(file) : w[i] = IF i = Len(file) THEN Torn ELSE file[i]
        BY <2>1, LastReplaced
    <2>3. Len(file) \in Nat /\ Len(file) \in 1 .. Len(file)
        BY <2>1
    <2> QED BY <1>1, <2>2, <2>3
<1>2. CASE name \notin open
    <2>1. w = Append(file, line)
        BY <1>2
    <2> QED BY <1>2, <2>1
<1> QED BY <1>1, <1>2

-----------------------------------------------------------------------------
(* Verdicts *)

\* The run is made again over the bars the archive has between the first and
\* the last time of the entry (window_of).
LEMMA WindowIs ==
    ASSUME WorldInv, NEW e, Recorded(e)
    PROVE  /\ Window(e) \in Bars
           /\ SameBars(e) <=> Window(e) = e.digest
           /\ SameSeen(e) <=> Seen(Window(e)) = e.numbers.seen
           /\ Found(e) <=> DOMAIN Window(e) # {}
           /\ SameSeen(e) => Found(e)
           /\ SameBars(e) => SameSeen(e)
<1> DEFINE a == archive[e.symbol]
           W == e.first .. e.last
<1>1. /\ a \in Bars /\ e.digest \in Bars /\ DOMAIN e.digest # {}
      /\ DOMAIN e.digest \subseteq W /\ e.numbers.seen = Seen(e.digest)
      /\ e.first \in Slot /\ e.last \in Slot
    BY DEF WorldInv, Recorded, Line
<1>2. Window(e) = [t \in {u \in DOMAIN a : e.first <= u /\ u <= e.last} |-> a[t]]
    BY DEF Window, Restrict
<1>3. /\ DOMAIN a \subseteq Slot /\ \A t \in DOMAIN a : a[t] \in Bar
      /\ e.digest = [t \in DOMAIN e.digest |-> e.digest[t]]
      /\ DOMAIN Seen(e.digest) = DOMAIN e.digest
      /\ Seen(e.digest) = [t \in DOMAIN e.digest |-> Read(e.digest[t])]
    BY <1>1, SeenTypes
<1> HIDE DEF a
<1>4. \A t \in DOMAIN a : t \in Int
    BY <1>3 DEF Slot
<1>5. /\ DOMAIN Window(e) = {t \in DOMAIN a : t \in W}
      /\ \A t \in DOMAIN Window(e) : Window(e)[t] = a[t]
      /\ Window(e) = [t \in DOMAIN Window(e) |-> Window(e)[t]]
    <2>1. {u \in DOMAIN a : e.first <= u /\ u <= e.last} = {t \in DOMAIN a : t \in W}
        BY <1>1, <1>4 DEF Slot
    <2> QED BY <1>2, <2>1
<1>6. Window(e) \in Bars
    <2>1. Window(e) \in [DOMAIN Window(e) -> Bar] /\ DOMAIN Window(e) \in SUBSET Slot
        BY <1>3, <1>5
    <2> QED BY <2>1 DEF Bars
<1>7. /\ DOMAIN Seen(Window(e)) = DOMAIN Window(e)
      /\ Seen(Window(e)) = [t \in DOMAIN Window(e) |-> Read(Window(e)[t])]
    BY <1>6, SeenTypes
<1>8. SameBars(e) <=> Window(e) = e.digest
    <2>1. /\ DOMAIN Window(e) \in SUBSET W /\ DOMAIN e.digest \in SUBSET W
          /\ Window(e) \in [DOMAIN Window(e) -> Bar] /\ e.digest \in [DOMAIN e.digest -> Bar]
        BY <1>1, <1>5, <1>6, SeenTypes
    <2> HIDE DEF W
    <2>2. Window(e) = e.digest <=>
            \A t \in W : /\ t \in DOMAIN Window(e) <=> t \in DOMAIN e.digest
                         /\ t \in DOMAIN e.digest => Window(e)[t] = e.digest[t]
        BY <2>1, SameByTime
    <2>3. \A t \in W : t \in DOMAIN Window(e) <=> t \in DOMAIN a
        BY <1>5
    <2>4. \A t \in W : t \in DOMAIN a => Window(e)[t] = a[t]
        BY <1>5, <2>3
    <2>5. SameBars(e) <=>
            \A t \in W : /\ t \in DOMAIN a <=> t \in DOMAIN e.digest
                         /\ t \in DOMAIN e.digest => a[t] = e.digest[t]
        BY DEF SameBars, a, W
    <2> QED BY <2>2, <2>3, <2>4, <2>5
<1>9. SameSeen(e) <=> Seen(Window(e)) = e.numbers.seen
    <2> DEFINE f == Seen(Window(e))
               g == Seen(e.digest)
    <2>1. /\ DOMAIN Window(e) \in SUBSET W /\ DOMAIN e.digest \in SUBSET W
          /\ f \in [DOMAIN Window(e) -> Bar] /\ g \in [DOMAIN e.digest -> Bar]
        BY <1>1, <1>5, <1>6, SeenTypes
    <2>2. \A t \in DOMAIN Window(e) : f[t] = Read(a[t])
        BY <1>5, <1>7
    <2>3. \A t \in DOMAIN e.digest : g[t] = Read(e.digest[t])
        BY <1>3
    <2> HIDE DEF W, f, g
    <2>4. f = g <=>
            \A t \in W : /\ t \in DOMAIN Window(e) <=> t \in DOMAIN e.digest
                         /\ t \in DOMAIN e.digest => f[t] = g[t]
        BY <2>1, SameByTime
    <2>5. \A t \in W : t \in DOMAIN Window(e) <=> t \in DOMAIN a
        BY <1>5
    <2>6. SameSeen(e) <=>
            \A t \in W : /\ t \in DOMAIN a <=> t \in DOMAIN e.digest
                         /\ t \in DOMAIN e.digest => Read(a[t]) = Read(e.digest[t])
        BY DEF SameSeen, a, W
    <2>7. SameSeen(e) <=> f = g
        BY <2>2, <2>3, <2>4, <2>5, <2>6
    <2> QED BY <1>1, <2>7 DEF f, g
<1>10. Found(e) <=> DOMAIN Window(e) # {}
    BY <1>5 DEF Found, a
<1>11. SameSeen(e) => Found(e)
    BY <1>1 DEF SameSeen, Found
<1>12. SameBars(e) => SameSeen(e)
    BY DEF SameBars, SameSeen
<1> QED BY <1>6, <1>8, <1>9, <1>10, <1>11, <1>12

\* The numbers come out again if and only if what they depend on is the same.
LEMMA RerunReproduces ==
    ASSUME WorldInv, NEW e, Recorded(e)
    PROVE  Rerun(e) = e.numbers <=>
             /\ Seen(Window(e)) = e.numbers.seen /\ code = e.numbers.code
             /\ e.numbers.options \subseteq Repeated[e.kind]
<1>1. /\ e.numbers \in [symbol : Symbol, seen : Bars, code : Nat,
                          options : SUBSET STRING]
      /\ e.numbers.symbol = e.symbol
    BY DEF Recorded, Line
<1>2. Rerun(e) = [symbol |-> e.symbol, seen |-> Seen(Window(e)), code |-> code,
                  options |-> e.numbers.options \cap Repeated[e.kind]]
    BY DEF Rerun, Numbers
<1>3. e.numbers.options \cap Repeated[e.kind] = e.numbers.options
        <=> e.numbers.options \subseteq Repeated[e.kind]
    OBVIOUS
<1>4. e.numbers = [symbol |-> e.symbol, seen |-> e.numbers.seen,
                   code |-> e.numbers.code, options |-> e.numbers.options]
    BY <1>1
<1>5. Rerun(e) = e.numbers <=>
        /\ Seen(Window(e)) = e.numbers.seen /\ code = e.numbers.code
        /\ e.numbers.options \cap Repeated[e.kind] = e.numbers.options
    <2>1. ASSUME Rerun(e) = e.numbers
          PROVE  /\ Seen(Window(e)) = e.numbers.seen /\ code = e.numbers.code
                 /\ e.numbers.options \cap Repeated[e.kind] = e.numbers.options
        <3>1. /\ Rerun(e).seen = Seen(Window(e)) /\ Rerun(e).code = code
              /\ Rerun(e).options = e.numbers.options \cap Repeated[e.kind]
            BY <1>2
        <3> QED BY <2>1, <3>1
    <2> QED BY <1>2, <1>4, <2>1
<1> QED BY <1>3, <1>5

LEMMA JudgedSoundly ==
    ASSUME WorldInv, NEW e, Recorded(e)
    PROVE  Judged(e) \in Verdict /\ Sound(Judged(e))
<1> DEFINE same == Rerun(e) = e.numbers
           repeats == e.numbers.options \subseteq Repeated[e.kind]
<1>1. /\ same <=> SameSeen(e) /\ SameCode(e) /\ repeats
      /\ SameBars(e) <=> Window(e) = e.digest
      /\ Found(e) <=> DOMAIN Window(e) # {}
      /\ SameBars(e) => SameSeen(e)
    BY WindowIs, RerunReproduces DEF SameCode
<1>2. same => (TradesDiffer(e) <=> ~OwnTrades(e))
    BY DEF TradesDiffer, OwnTrades
<1>3. /\ ~Found(e) => Status(e) = "error"
      /\ Found(e) /\ ~Rebuildable(e) => Status(e) = "unknown-strategy"
      /\ Found(e) /\ Rebuildable(e) =>
           Status(e) = IF ~same \/ TradesDiffer(e) THEN "mismatch"
                       ELSE IF Window(e) # e.digest THEN "data-changed" ELSE "verified"
    <2>1. DOMAIN Window(e) = {} => Status(e) = "error"
        BY DEF Status
    <2>2. DOMAIN Window(e) # {} /\ ~Rebuildable(e) => Status(e) = "unknown-strategy"
        BY DEF Status
    <2>3. DOMAIN Window(e) # {} /\ Rebuildable(e) =>
            Status(e) = IF ~same \/ TradesDiffer(e) THEN "mismatch"
                        ELSE IF Window(e) # e.digest THEN "data-changed" ELSE "verified"
        BY DEF Status
    <2> QED BY <1>1, <2>1, <2>2, <2>3
<1> DEFINE whole == SameCode(e) /\ OwnTrades(e) /\ repeats
<1>4. ~same \/ TradesDiffer(e) <=> ~(whole /\ SameSeen(e))
    BY <1>1, <1>2
<1> HIDE DEF same, repeats
<1>5. /\ ~Found(e) => Status(e) = "error"
      /\ Found(e) /\ ~Rebuildable(e) => Status(e) = "unknown-strategy"
      /\ Found(e) /\ Rebuildable(e) /\ ~(whole /\ SameSeen(e)) => Status(e) = "mismatch"
      /\ Found(e) /\ Rebuildable(e) /\ whole /\ SameSeen(e) /\ ~SameBars(e)
           => Status(e) = "data-changed"
      /\ Found(e) /\ Rebuildable(e) /\ whole /\ SameBars(e) => Status(e) = "verified"
    BY <1>1, <1>3, <1>4
<1>6. /\ Found(e) \in BOOLEAN /\ SameBars(e) \in BOOLEAN /\ SameSeen(e) \in BOOLEAN
      /\ SameCode(e) \in BOOLEAN /\ OwnTrades(e) \in BOOLEAN /\ registered \in BOOLEAN
      /\ Rebuildable(e) \in BOOLEAN
    BY DEF Found, SameBars, SameSeen, SameCode, OwnTrades, WorldInv, Rebuildable
<1>7. /\ Status(e) = "error" <=> ~Found(e)
      /\ Status(e) = "unknown-strategy" <=> Found(e) /\ ~Rebuildable(e)
      /\ Status(e) = "mismatch" <=> Found(e) /\ Rebuildable(e) /\ ~(whole /\ SameSeen(e))
      /\ Status(e) = "data-changed" <=>
           Found(e) /\ Rebuildable(e) /\ whole /\ ~SameBars(e) /\ SameSeen(e)
      /\ Status(e) = "verified" <=> Found(e) /\ Rebuildable(e) /\ whole /\ SameBars(e)
      /\ Status(e) \in Statuses
    <2> HIDE DEF whole
    <2> QED BY <1>1, <1>5, <1>6 DEF Statuses
<1>8. Sound(Judged(e))
    <2> DEFINE c == Judged(e)
    <2>1. /\ c.status = Status(e) /\ c.options = e.numbers.options /\ c.kind = e.kind
          /\ c.registered = registered /\ c.found = Found(e)
          /\ c.sameBars = SameBars(e) /\ c.sameSeen = SameSeen(e)
          /\ c.sameCode = SameCode(e) /\ c.ownTrades = OwnTrades(e)
        BY DEF Judged
    <2> HIDE DEF c
    <2>2. /\ Rebuilt(c) <=> Found(e) /\ Rebuildable(e)
          /\ Repeats(c) <=> whole
        BY <2>1 DEF Rebuilt, Repeats, Rebuildable, repeats
    <2> HIDE DEF whole
    <2>3. VerifiedMeansSame(c)
        BY <1>7, <2>1, <2>2 DEF VerifiedMeansSame
    <2>4. DataChangedMeans(c)
        BY <1>7, <2>1, <2>2 DEF DataChangedMeans
    <2>5. MismatchMeans(c)
        BY <1>7, <2>1, <2>2 DEF MismatchMeans
    <2>6. RefusedMeans(c)
        BY <1>6, <1>7, <2>1, <2>2 DEF RefusedMeans
    <2> QED BY <2>3, <2>4, <2>5, <2>6 DEF Sound, c
<1>9. Judged(e) \in Verdict
    <2>1. /\ e.second \in Nat /\ e.suffix \in Nat
          /\ e.numbers.options \in SUBSET STRING /\ e.kind \in DOMAIN Repeated
        BY JournalAssumption DEF Recorded, Line
    <2> QED BY <1>6, <1>7, <2>1 DEF Judged, Verdict
<1> QED BY <1>8, <1>9

-----------------------------------------------------------------------------
(* Ids *)

\* Among one suffix more than there are lines one is left, and the one that is
\* taken makes the id new (append: "while run_id in existing").
LEMMA SuffixIsNew ==
    ASSUME NEW file \in Seq(Line \cup {Torn}), Len(file) <= MaxLines,
           NEW e, NEW ids, ids \subseteq Ids(file)
    PROVE  Suffix(e, ids) \in 1 .. MaxLines + 1 /\ <<e.second, Suffix(e, ids)>> \notin ids
<1> DEFINE free == {n \in 1 .. MaxLines + 1 : <<e.second, n>> \notin ids}
<1>1. Len(file) \in Nat /\ MaxLines \in Nat
    BY JournalAssumption
<1>2. free # {}
    <2> SUFFICES ASSUME free = {} PROVE FALSE
        OBVIOUS
    <2>1. ASSUME NEW n \in 1 .. MaxLines + 1
          PROVE  \E i \in 1 .. Len(file) : <<e.second, n>> = Id(file[i])
        <3>1. <<e.second, n>> \in Ids(file)
            OBVIOUS
        <3>2. PICK i \in Readable(file) : <<e.second, n>> = Id(file[i])
            BY <3>1 DEF Ids
        <3>3. i \in 1 .. Len(file)
            BY DEF Readable
        <3> QED BY <3>2, <3>3
    <2> DEFINE f == [n \in 1 .. MaxLines + 1 |->
                       CHOOSE i \in 1 .. Len(file) : <<e.second, n>> = Id(file[i])]
    <2>2. \A n \in 1 .. MaxLines + 1 :
            f[n] \in 1 .. Len(file) /\ <<e.second, n>> = Id(file[f[n]])
        BY <2>1
    <2>3. f \in [1 .. MaxLines + 1 -> 1 .. Len(file)]
        BY <2>2
    <2> HIDE DEF f
    <2> DEFINE S == 1 .. MaxLines + 1
               T == 1 .. Len(file)
    <2>4. /\ IsFiniteSet(S) /\ Cardinality(S) = IF 1 > MaxLines + 1 THEN 0
                                                ELSE (MaxLines + 1) - 1 + 1
          /\ IsFiniteSet(T) /\ Cardinality(T) = IF 1 > Len(file) THEN 0
                                                ELSE Len(file) - 1 + 1
        <3>1. MaxLines + 1 \in Int /\ Len(file) \in Int /\ 1 \in Int
            BY <1>1
        <3>2. IsFiniteSet(S) /\ Cardinality(S) = IF 1 > MaxLines + 1 THEN 0
                                                 ELSE (MaxLines + 1) - 1 + 1
            BY <3>1, FS_Interval
        <3>3. IsFiniteSet(T) /\ Cardinality(T) = IF 1 > Len(file) THEN 0
                                                 ELSE Len(file) - 1 + 1
            BY <3>1, FS_Interval
        <3> QED BY <3>2, <3>3
    <2>5. Cardinality(T) < Cardinality(S)
        BY <1>1, <2>4
    <2> HIDE DEF S, T
    <2>6. f \in [S -> T]
        BY <2>3 DEF S, T
    <2>8. \E x, y \in S : x # y /\ f[x] = f[y]
        BY <2>4, <2>5, <2>6, FS_PigeonHole
    <2>9. PICK x, y \in 1 .. MaxLines + 1 : x # y /\ f[x] = f[y]
        BY <2>8 DEF S
    <2>7. <<e.second, x>> = <<e.second, y>>
        BY <2>2, <2>9
    <2> QED BY <2>7, <2>9
<1>3. free \subseteq Nat
    BY <1>1
<1>4. PICK m \in free : \A k \in free : m <= k
    BY <1>2, <1>3, LeastExists
<1>5. \A k \in 1 .. m - 1 : <<e.second, k>> \in ids
    <2> SUFFICES ASSUME NEW k \in 1 .. m - 1, <<e.second, k>> \notin ids PROVE FALSE
        OBVIOUS
    <2>1. m \in 1 .. MaxLines + 1
        BY <1>4
    <2>2. k \in free /\ ~(m <= k)
        BY <1>1, <2>1
    <2> QED BY <1>4, <2>2
<1>6. \E n \in 1 .. MaxLines + 1 : /\ <<e.second, n>> \notin ids
                                   /\ \A k \in 1 .. n - 1 : <<e.second, k>> \in ids
    BY <1>4, <1>5
<1> QED BY <1>6 DEF Suffix

-----------------------------------------------------------------------------
(* The invariant *)

LEMMA StartsRight == JournalInit => JournalInv
<1> SUFFICES ASSUME JournalInit PROVE JournalInv
    OBVIOUS
<1> USE JournalAssumption
<1>1. WorldInv
    <2>1. First \in SUBSET Slot /\ [t \in First |-> 1] \in [First -> Bar]
        BY DEF Bar
    <2>2. [t \in First |-> 1] \in Bars
        BY <2>1 DEF Bars
    <2> QED BY <2>2 DEF JournalInit, WorldInv
<1>2. LinesInv
    BY DEF JournalInit, LinesInv, Readable
<1>3. ChecksInv
    BY DEF JournalInit, ChecksInv, Readable
<1>4. Maps
    BY DEF JournalInit, Maps, Places
<1>5. HandsInv
    BY DEF JournalInit, HandsInv, Hand
<1> QED BY <1>1, <1>2, <1>3, <1>4, <1>5 DEF JournalInv

\* What one command does leaves the others what they had in hand.
LEMMA OtherHandsKeep ==
    ASSUME JournalInv, NEW p \in Process,
           \A q \in Process \ {p} : /\ at'[q] = at[q] /\ draft'[q] = draft[q]
                                    /\ known'[q] = known[q] /\ chosen'[q] = chosen[q],
           Hand(at'[p], draft'[p], known'[p], chosen'[p])
    PROVE  HandsInv'
<1> SUFFICES ASSUME NEW q \in Process
             PROVE  Hand(at'[q], draft'[q], known'[q], chosen'[q])
    BY DEF HandsInv
<1>1. CASE q = p
    BY <1>1
<1>2. CASE q # p
    <2>1. Hand(at[q], draft[q], known[q], chosen[q])
        BY DEF JournalInv, HandsInv
    <2>2. /\ at'[q] = at[q] /\ draft'[q] = draft[q]
          /\ known'[q] = known[q] /\ chosen'[q] = chosen[q]
        BY <1>2
    <2> QED BY <2>1, <2>2
<1> QED BY <1>1, <1>2

\* Steps that write neither file.
LEMMA FilesKeep ==
    ASSUME JournalInv, lines' = lines, checks' = checks, cut' = cut
    PROVE  LinesInv' /\ ChecksInv'
BY DEF JournalInv, LinesInv, ChecksInv, Readable

LEMMA WorldKeeps == JournalInv /\ (SecondPasses \/ Change) => JournalInv'
<1> SUFFICES ASSUME JournalInv, SecondPasses \/ Change PROVE JournalInv'
    OBVIOUS
<1> USE JournalAssumption
<1>1. UNCHANGED <<lines, cut, checks, at, draft, known, chosen>>
    BY DEF SecondPasses, Change
<1>2. WorldInv'
    <2>1. CASE SecondPasses
        BY <2>1 DEF SecondPasses, JournalInv, WorldInv
    <2>2. CASE Change
        <3>1. code' \in Nat /\ registered' \in BOOLEAN /\ changes' \in 0 .. MaxChanges
              /\ clock' = clock
            <4>1. code \in Nat /\ registered \in BOOLEAN /\ changes \in 0 .. MaxChanges
                BY DEF JournalInv, WorldInv
            <4>2. changes < MaxChanges /\ changes' = changes + 1 /\ clock' = clock
                BY <2>2 DEF Change
            <4>3. \/ code' = code /\ registered' = registered
                  \/ code' = code + 1 /\ registered' = registered
                  \/ code' = code /\ registered' = FALSE
                BY <2>2 DEF Change
            <4>4. code' \in Nat
                BY <4>1, <4>3
            <4>5. registered' \in BOOLEAN
                BY <4>1, <4>3
            <4>6. MaxChanges \in Nat
                BY JournalAssumption
            <4>7. changes' \in 0 .. MaxChanges
                BY <4>1, <4>2, <4>6
            <4> QED BY <4>2, <4>4, <4>5, <4>7
        <3>2. archive \in [Symbol -> Bars]
            BY DEF JournalInv, WorldInv
        <3>3. ASSUME NEW s \in Symbol, NEW t \in Slot, NEW v \in Bar
              PROVE  Stored(archive[s], t, v) \in Bars
            <4>1. PICK T \in SUBSET Slot : archive[s] \in [T -> Bar]
                BY <3>2 DEF Bars
            <4>2. Stored(archive[s], t, v) \in [T \cup {t} -> Bar]
                BY <4>1 DEF Stored
            <4>3. T \cup {t} \in SUBSET Slot
                OBVIOUS
            <4> QED BY <4>2, <4>3 DEF Bars
        <3>4. ASSUME NEW s \in Symbol, NEW T \in SUBSET DOMAIN archive[s]
              PROVE  Restrict(archive[s], T) \in Bars
            <4>1. PICK U \in SUBSET Slot : archive[s] \in [U -> Bar]
                BY <3>2 DEF Bars
            <4>2. Restrict(archive[s], T) \in [T -> Bar] /\ T \in SUBSET Slot
                BY <4>1 DEF Restrict
            <4> QED BY <4>2 DEF Bars
        <3>5. archive' \in [Symbol -> Bars]
            <4>1. \/ archive' = archive
                  \/ \E s \in Symbol, b \in Bars : archive' = [archive EXCEPT ![s] = b]
                BY <2>2, <3>3, <3>4 DEF Change
            <4> QED BY <3>2, <4>1
        <3> QED BY <3>1, <3>5 DEF JournalInv, WorldInv
    <2> QED BY <2>1, <2>2
<1>3. LinesInv' /\ ChecksInv'
    BY <1>1, FilesKeep
<1>4. Maps' /\ HandsInv'
    BY <1>1 DEF JournalInv, Maps, HandsInv
<1> QED BY <1>2, <1>3, <1>4 DEF JournalInv

\* The entry of a run that was just made: entry_for, basket_entry_for.
LEMMA EntryIsRecorded ==
    ASSUME JournalInv, NEW s \in Symbol, NEW r \in Runs, NEW keeps \in Keeps,
           DOMAIN archive[s] # {}
    PROVE  Recorded(EntryFor(s, r[1], r[2], keeps))
<1> DEFINE e == EntryFor(s, r[1], r[2], keeps)
           D == DOMAIN archive[s]
<1>1. r[1] \in DOMAIN Repeated /\ r[2] \in SUBSET STRING /\ r = <<r[1], r[2]>>
    BY JournalAssumption
<1>2. /\ archive[s] \in Bars /\ code \in Nat /\ clock \in 0 .. LastSecond
      /\ Seen(archive[s]) \in Bars /\ D \subseteq Slot /\ D # {}
    BY SeenTypes DEF JournalInv, WorldInv
<1> HIDE DEF D
<1>3. /\ Min(D) \in D /\ \A t \in D : Min(D) <= t
      /\ Max(D) \in D /\ \A t \in D : t <= Max(D)
    <2>1. D \subseteq Nat /\ LastBar \in Nat /\ \A t \in D : t \in 1 .. LastBar
        BY <1>2, JournalAssumption DEF Slot
    <2>2. \E t \in D : \A u \in D : t <= u
        BY <1>2, <2>1, LeastExists
    <2>3. \E t \in D : \A u \in D : t >= u
        <3> DEFINE M == {LastBar - t : t \in D}
        <3>1. M \in SUBSET Nat /\ M # {}
            <4>1. \A t \in D : LastBar - t \in Nat
                BY <2>1
            <4>2. M \subseteq Nat
                BY <4>1
            <4>3. M # {}
                BY <1>2
            <4> QED BY <4>2, <4>3
        <3> HIDE DEF M
        <3>2. PICK m \in M : \A k \in M : m <= k
            BY <3>1, LeastExists
        <3>3. PICK t \in D : m = LastBar - t
            BY <3>2 DEF M
        <3>4. \A u \in D : LastBar - t <= LastBar - u
            BY <3>2, <3>3 DEF M
        <3>5. \A u \in D : t >= u
            BY <2>1, <3>4
        <3> QED BY <3>5
    <2>4. Min(D) \in D /\ \A t \in D : Min(D) <= t
        BY <2>2 DEF Min
    <2>5. Max(D) \in D /\ \A t \in D : Max(D) >= t
        BY <2>3 DEF Max
    <2> QED BY <2>1, <2>4, <2>5
<1>4. 1 \in 1 .. MaxLines + 1
    BY JournalAssumption
<1>5. Numbers(s, archive[s], r[2]) \in
        [symbol : Symbol, seen : Bars, code : Nat, options : SUBSET STRING]
    BY <1>1, <1>2 DEF Numbers
<1>6. (IF keeps /\ r[1] = "backtest" THEN clock ELSE Nothing) \in {Nothing} \cup 0 .. LastSecond
    BY <1>2
<1>7. Min(D) \in Slot /\ Max(D) \in Slot
    BY <1>2, <1>3
<1>8. e \in Line
    BY <1>1, <1>2, <1>4, <1>5, <1>6, <1>7 DEF EntryFor, Line, D
<1>9. /\ e.digest = archive[s] /\ e.first = Min(D) /\ e.last = Max(D) /\ e.symbol = s
      /\ e.kind = r[1] /\ e.numbers = Numbers(s, archive[s], r[2])
    BY DEF EntryFor, D
<1>10. /\ e.numbers.symbol = s /\ e.numbers.seen = Seen(archive[s])
       /\ e.numbers.options = r[2]
    BY <1>9 DEF Numbers
<1>11. D \subseteq Min(D) .. Max(D)
    <2>1. Min(D) \in Int /\ Max(D) \in Int /\ \A t \in D : t \in Int
        BY <1>2, <1>7 DEF Slot
    <2> QED BY <1>3, <2>1
<1> QED BY <1>1, <1>2, <1>8, <1>9, <1>10, <1>11 DEF Recorded, D

LEMMA ComputeKeeps ==
    ASSUME JournalInv, NEW p \in Process, Compute(p) PROVE JournalInv'
<1>1. PICK s \in Symbol, r \in Runs, keeps \in Keeps :
        /\ DOMAIN archive[s] # {}
        /\ draft' = [draft EXCEPT ![p] = EntryFor(s, r[1], r[2], keeps)]
    BY DEF Compute
<1>2. Recorded(EntryFor(s, r[1], r[2], keeps))
    BY <1>1, EntryIsRecorded
<1>3. /\ UNCHANGED <<world, lines, cut, checks, known, chosen>>
      /\ at' = [at EXCEPT ![p] = "trades"]
    BY DEF Compute
<1>4. WorldInv' /\ LinesInv' /\ ChecksInv'
    BY <1>3, FilesKeep DEF JournalInv, WorldInv, world
<1>5. Maps'
    <2>1. EntryFor(s, r[1], r[2], keeps) \in Line
        BY <1>2 DEF Recorded
    <2> QED BY <1>1, <1>3, <2>1 DEF JournalInv, Maps, Places
<1>6. Hand(at'[p], draft'[p], known'[p], chosen'[p])
    <2>1. at'[p] = "trades" /\ draft'[p] = EntryFor(s, r[1], r[2], keeps)
          /\ chosen'[p] = chosen[p]
        BY <1>1, <1>3 DEF JournalInv, Maps
    <2>2. \A i \in DOMAIN chosen[p] : Recorded(chosen[p][i])
        BY DEF JournalInv, HandsInv, Hand
    <2> QED BY <1>2, <2>1, <2>2 DEF Hand
<1>7. HandsInv'
    BY <1>1, <1>3, <1>6, OtherHandsKeep DEF JournalInv, Maps
<1> QED BY <1>4, <1>5, <1>7 DEF JournalInv

LEMMA WriteTradesKeeps ==
    ASSUME JournalInv, NEW p \in Process, WriteTrades(p) PROVE JournalInv'
<1>1. /\ UNCHANGED <<world, lines, cut, checks, draft, known, chosen>>
      /\ at[p] = "trades" /\ at' = [at EXCEPT ![p] = "read"]
    BY DEF WriteTrades
<1>2. WorldInv' /\ LinesInv' /\ ChecksInv' /\ Maps'
    BY <1>1, FilesKeep DEF JournalInv, WorldInv, Maps, Places, world
<1>3. Hand(at'[p], draft'[p], known'[p], chosen'[p])
    BY <1>1 DEF JournalInv, HandsInv, Hand, Maps
<1>4. HandsInv'
    BY <1>1, <1>3, OtherHandsKeep DEF JournalInv, Maps
<1> QED BY <1>2, <1>4 DEF JournalInv

\* Where no line is torn, the ids read are the ids of the file.
LEMMA AllIdsRead ==
    ASSUME LinesInv, Loadable(lines)
    PROVE  /\ {<<lines[i].second, lines[i].suffix>> : i \in DOMAIN lines} = Ids(lines)
           /\ Ids(lines) \subseteq Nat \X Nat
<1>1. Readable(lines) = DOMAIN lines
    BY DEF Readable, Loadable
<1>2. ASSUME NEW i \in DOMAIN lines PROVE Id(lines[i]) \in Nat \X Nat
    <2>1. lines[i] \in Line
        BY <1>1 DEF LinesInv, Recorded
    <2>2. lines[i].second \in 0 .. LastSecond /\ lines[i].suffix \in 1 .. MaxLines + 1
        BY <2>1 DEF Line
    <2>3. lines[i].second \in Nat /\ lines[i].suffix \in Nat
        BY <2>2, JournalAssumption
    <2> QED BY <2>3 DEF Id
<1> QED BY <1>1, <1>2 DEF Ids, Id

LEMMA ReadIdsKeeps ==
    ASSUME JournalInv, NEW p \in Process, ReadIds(p) PROVE JournalInv'
<1>1. UNCHANGED <<world, lines, cut, checks, chosen>> /\ at[p] = "read"
    BY DEF ReadIds
<1>2. WorldInv' /\ LinesInv' /\ ChecksInv'
    BY <1>1, FilesKeep DEF JournalInv, WorldInv, world
<1>3. Recorded(draft[p]) /\ \A i \in DOMAIN chosen[p] : Recorded(chosen[p][i])
    BY <1>1 DEF JournalInv, HandsInv, Hand
<1>4. CASE Loadable(lines)
    <2>1. /\ known' = [known EXCEPT ![p] = Ids(lines)]
          /\ at' = [at EXCEPT ![p] = "append"] /\ draft' = draft
          /\ Ids(lines) \subseteq Nat \X Nat
        BY <1>4, AllIdsRead DEF ReadIds, JournalInv
    <2>2. Maps'
        BY <1>1, <2>1 DEF JournalInv, Maps, Places
    <2>3. Hand(at'[p], draft'[p], known'[p], chosen'[p])
        <3>1. /\ at'[p] = "append" /\ known'[p] = Ids(lines) /\ draft'[p] = draft[p]
              /\ chosen'[p] = chosen[p]
            BY <1>1, <2>1 DEF JournalInv, Maps
        <3>2. lines \in Seq(Line \cup {Torn}) /\ Len(lines) <= MaxLines
            BY DEF JournalInv, LinesInv
        <3> QED BY <1>3, <3>1, <3>2 DEF Hand
    <2>4. HandsInv'
        BY <1>1, <2>1, <2>3, OtherHandsKeep DEF JournalInv, Maps
    <2> QED BY <1>2, <2>2, <2>4 DEF JournalInv
<1>5. CASE ~Loadable(lines)
    <2>1. /\ known' = known /\ at' = [at EXCEPT ![p] = "idle"]
          /\ draft' = [draft EXCEPT ![p] = Nothing]
        BY <1>5 DEF ReadIds
    <2>2. Maps'
        BY <1>1, <2>1 DEF JournalInv, Maps, Places
    <2>3. Hand(at'[p], draft'[p], known'[p], chosen'[p])
        <3>1. at'[p] = "idle" /\ chosen'[p] = chosen[p]
            BY <1>1, <2>1 DEF JournalInv, Maps
        <3> QED BY <1>3, <3>1 DEF Hand
    <2>4. HandsInv'
        BY <1>1, <2>1, <2>3, OtherHandsKeep DEF JournalInv, Maps
    <2> QED BY <1>2, <2>2, <2>4 DEF JournalInv
<1> QED BY <1>4, <1>5

\* Only the suffix of the draft changes before it is written.
LEMMA SuffixGiven ==
    ASSUME NEW e, Recorded(e), NEW n \in 1 .. MaxLines + 1
    PROVE  /\ Recorded([e EXCEPT !.suffix = n])
           /\ Id([e EXCEPT !.suffix = n]) = <<e.second, n>>
<1> DEFINE d == [e EXCEPT !.suffix = n]
<1>1. e \in Line
    BY DEF Recorded
<1>2. d \in Line
    BY <1>1 DEF Line
<1>3. /\ d.digest = e.digest /\ d.first = e.first /\ d.last = e.last /\ d.symbol = e.symbol
      /\ d.kind = e.kind /\ d.numbers = e.numbers /\ d.second = e.second /\ d.suffix = n
    BY <1>1 DEF Line
<1> QED BY <1>2, <1>3 DEF Recorded, Id

\* The entry that is about to be written is a new one (append).
LEMMA NamedIsNew ==
    ASSUME JournalInv, NEW p \in Process, at[p] = "append"
    PROVE  Recorded(Named(p)) /\ Id(Named(p)) \notin known[p]
<1>1. Recorded(draft[p])
    BY DEF JournalInv, HandsInv, Hand
<1>2. PICK file \in Seq(Line \cup {Torn}) : Len(file) <= MaxLines /\ known[p] \subseteq Ids(file)
    BY DEF JournalInv, HandsInv, Hand
<1>3. /\ Suffix(draft[p], known[p]) \in 1 .. MaxLines + 1
      /\ <<draft[p].second, Suffix(draft[p], known[p])>> \notin known[p]
    BY <1>2, SuffixIsNew
<1> QED BY <1>1, <1>3, SuffixGiven DEF Named

\* Whatever line is written, and with or without its newline, what can be read
\* of the journal is what could be read before, and perhaps that line.
LEMMA LinesKeep ==
    ASSUME LinesInv, LineLeft, NEW line, line # Torn => Recorded(line),
           lines' = Written(lines, "runs" \in cut, line)
    PROVE  /\ LinesInv'
           /\ \A i \in Readable(lines') :
                (i \in Readable(lines) /\ lines'[i] = lines[i]) \/ lines'[i] = line
<1> DEFINE S == Line \cup {Torn}
<1>1. /\ lines \in Seq(S) /\ line \in S /\ Torn \in S
      /\ "runs" \in cut => lines # <<>>
      /\ lines' = IF "runs" \in cut THEN [lines EXCEPT ![Len(lines)] = Torn]
           ELSE Append(lines, line)
    BY DEF LinesInv, Recorded, Written
<1> HIDE DEF S
<1>2. /\ lines' \in Seq(S) /\ Len(lines) \in Nat /\ lines' # <<>>
      /\ Len(lines') = IF "runs" \in cut THEN Len(lines) ELSE Len(lines) + 1
      /\ \A i \in 1 .. Len(lines') :
           lines'[i] # Torn => (i \in 1 .. Len(lines) /\ lines'[i] = lines[i]) \/ lines'[i] = line
    BY <1>1, WrittenIs
<1>3. Len(lines') <= MaxLines
    BY <1>2, JournalAssumption DEF LineLeft, LinesInv
<1>4. \A i \in Readable(lines') :
        (i \in Readable(lines) /\ lines'[i] = lines[i]) \/ lines'[i] = line
    BY <1>1, <1>2 DEF Readable
<1>5. \A i \in Readable(lines') : Recorded(lines'[i])
    BY <1>4 DEF LinesInv, Readable
<1> QED BY <1>2, <1>3, <1>4, <1>5 DEF LinesInv, S

\* The same of the verdicts.
LEMMA ChecksKeep ==
    ASSUME ChecksInv, CheckLeft, NEW line, line # Torn => line \in Verdict /\ Sound(line),
           checks' = Written(checks, "checks" \in cut, line)
    PROVE  ChecksInv'
<1> DEFINE S == Verdict \cup {Torn}
<1>1. /\ checks \in Seq(S) /\ line \in S /\ Torn \in S
      /\ "checks" \in cut => checks # <<>>
      /\ checks' = IF "checks" \in cut THEN [checks EXCEPT ![Len(checks)] = Torn]
           ELSE Append(checks, line)
    BY DEF ChecksInv, Written
<1> HIDE DEF S
<1>2. /\ checks' \in Seq(S) /\ Len(checks) \in Nat /\ checks' # <<>>
      /\ Len(checks') = IF "checks" \in cut THEN Len(checks) ELSE Len(checks) + 1
      /\ \A i \in 1 .. Len(checks') :
           checks'[i] # Torn =>
             (i \in 1 .. Len(checks) /\ checks'[i] = checks[i]) \/ checks'[i] = line
    BY <1>1, WrittenIs
<1>3. Len(checks') <= MaxChecks
    BY <1>2, JournalAssumption DEF CheckLeft, ChecksInv
<1>4. \A i \in Readable(checks') : Sound(checks'[i])
    BY <1>1, <1>2 DEF ChecksInv, Readable
<1> QED BY <1>2, <1>3, <1>4 DEF ChecksInv, S

LEMMA AppendRunKeeps ==
    ASSUME JournalInv, NEW p \in Process, AppendRun(p) PROVE JournalInv'
<1>1. /\ UNCHANGED <<world, checks, chosen>> /\ at[p] = "append" /\ LineLeft
      /\ lines' = Written(lines, "runs" \in cut, Named(p)) /\ cut' = cut \ {"runs"}
      /\ at' = [at EXCEPT ![p] = "idle"]
      /\ draft' = [draft EXCEPT ![p] = Nothing] /\ known' = [known EXCEPT ![p] = {}]
    BY DEF AppendRun
<1>2. LinesInv'
    BY <1>1, NamedIsNew, LinesKeep DEF JournalInv
<1>3. WorldInv' /\ ChecksInv'
    BY <1>1 DEF JournalInv, WorldInv, ChecksInv, Readable, world
<1>4. Maps'
    BY <1>1 DEF JournalInv, Maps, Places
<1>5. Hand(at'[p], draft'[p], known'[p], chosen'[p])
    <2>1. at'[p] = "idle" /\ chosen'[p] = chosen[p]
        BY <1>1 DEF JournalInv, Maps
    <2> QED BY <2>1 DEF JournalInv, HandsInv, Hand
<1>6. HandsInv'
    BY <1>1, <1>5, OtherHandsKeep DEF JournalInv, Maps
<1> QED BY <1>2, <1>3, <1>4, <1>6 DEF JournalInv

LEMMA StartVerifyKeeps ==
    ASSUME JournalInv, NEW p \in Process, StartVerify(p) PROVE JournalInv'
<1>1. /\ UNCHANGED <<world, lines, cut, checks, draft, known>> /\ Loadable(lines)
      /\ at[p] = "idle" /\ at' = [at EXCEPT ![p] = "verify"]
    BY DEF StartVerify
<1>2. lines \in Seq(Line) /\ \A i \in DOMAIN lines : Recorded(lines[i])
    <2>1. lines \in Seq(Line \cup {Torn}) /\ \A i \in DOMAIN lines : Recorded(lines[i])
        BY <1>1 DEF JournalInv, LinesInv, Readable, Loadable
    <2>2. \A i \in DOMAIN lines : lines[i] \in Line
        BY <2>1, Zenon DEF Recorded
    <2>3. DOMAIN lines = 1 .. Len(lines)
        BY <2>1
    <2> QED BY <2>1, <2>2, <2>3
<1>3. PICK queue \in Seq(Line) : /\ chosen' = [chosen EXCEPT ![p] = queue]
                                 /\ \A i \in DOMAIN queue : Recorded(queue[i])
    <2>1. CASE chosen' = [chosen EXCEPT ![p] = lines]
        BY <1>2, <2>1
    <2>2. ASSUME NEW i \in DOMAIN lines, chosen' = [chosen EXCEPT ![p] = <<lines[i]>>]
          PROVE  /\ <<lines[i]>> \in Seq(Line)
                 /\ \A k \in DOMAIN <<lines[i]>> : Recorded(<<lines[i]>>[k])
        BY <1>2 DEF Recorded
    <2> QED BY <2>1, <2>2 DEF StartVerify
<1>4. WorldInv' /\ LinesInv' /\ ChecksInv'
    BY <1>1, FilesKeep DEF JournalInv, WorldInv, world
<1>5. Maps'
    BY <1>1, <1>3 DEF JournalInv, Maps, Places
<1>6. Hand(at'[p], draft'[p], known'[p], chosen'[p])
    <2>1. at'[p] = "verify" /\ chosen'[p] = queue
        BY <1>1, <1>3 DEF JournalInv, Maps
    <2> QED BY <1>3, <2>1 DEF Hand
<1>7. HandsInv'
    BY <1>1, <1>3, <1>6, OtherHandsKeep DEF JournalInv, Maps
<1> QED BY <1>4, <1>5, <1>7 DEF JournalInv

LEMMA VerifyOneKeeps ==
    ASSUME JournalInv, NEW p \in Process, VerifyOne(p) PROVE JournalInv'
<1> DEFINE e == Head(chosen[p])
<1>1. /\ UNCHANGED <<world, lines, at, draft, known>> /\ chosen[p] # <<>>
      /\ CheckLeft /\ chosen' = [chosen EXCEPT ![p] = Tail(@)]
      /\ checks' = Written(checks, "checks" \in cut, Judged(e)) /\ cut' = cut \ {"checks"}
    BY DEF VerifyOne
<1>2. chosen[p] \in Seq(Line) /\ \A i \in DOMAIN chosen[p] : Recorded(chosen[p][i])
    BY DEF JournalInv, HandsInv, Hand, Maps
<1>3. /\ Recorded(e) /\ Tail(chosen[p]) \in Seq(Line)
      /\ \A i \in DOMAIN Tail(chosen[p]) : Recorded(Tail(chosen[p])[i])
    BY <1>1, <1>2
<1>4. Judged(e) \in Verdict /\ Sound(Judged(e))
    BY <1>3, JudgedSoundly DEF JournalInv
<1> HIDE DEF e
<1>5. ChecksInv'
    BY <1>1, <1>4, ChecksKeep DEF JournalInv
<1>6. WorldInv' /\ LinesInv'
    BY <1>1 DEF JournalInv, WorldInv, LinesInv, Readable, world
<1>7. Maps'
    BY <1>1, <1>3 DEF JournalInv, Maps
<1>8. Hand(at'[p], draft'[p], known'[p], chosen'[p])
    <2>1. /\ at'[p] = at[p] /\ draft'[p] = draft[p] /\ known'[p] = known[p]
          /\ chosen'[p] = Tail(chosen[p])
        BY <1>1 DEF JournalInv, Maps
    <2>2. Hand(at[p], draft[p], known[p], chosen[p])
        BY DEF JournalInv, HandsInv
    <2> QED BY <1>3, <2>1, <2>2 DEF Hand
<1>9. HandsInv'
    BY <1>1, <1>8, OtherHandsKeep DEF JournalInv, Maps
<1> QED BY <1>5, <1>6, <1>7, <1>9 DEF JournalInv

LEMMA VerifyEndsKeeps ==
    ASSUME JournalInv, NEW p \in Process, VerifyEnds(p) PROVE JournalInv'
<1>1. /\ UNCHANGED <<world, lines, cut, checks, draft, known>>
      /\ at' = [at EXCEPT ![p] = "idle"] /\ chosen' = [chosen EXCEPT ![p] = <<>>]
    BY DEF VerifyEnds
<1>2. WorldInv' /\ LinesInv' /\ ChecksInv' /\ Maps'
    BY <1>1, FilesKeep DEF JournalInv, WorldInv, Maps, Places, world
<1>3. at'[p] = "idle" /\ chosen'[p] = <<>>
    BY <1>1 DEF JournalInv, Maps
<1>4. Hand(at'[p], draft'[p], known'[p], chosen'[p])
    BY <1>3 DEF Hand
<1>5. HandsInv'
    BY <1>1, <1>4, OtherHandsKeep DEF JournalInv, Maps
<1> QED BY <1>2, <1>5 DEF JournalInv

\* A line that is cut is none, or it is the whole entry or verdict.
LEMMA CrashKeeps ==
    ASSUME JournalInv, NEW p \in Process, Crash(p) PROVE JournalInv'
<1>1. /\ UNCHANGED world /\ at' = [at EXCEPT ![p] = "idle"]
      /\ draft' = [draft EXCEPT ![p] = Nothing] /\ known' = [known EXCEPT ![p] = {}]
      /\ chosen' = [chosen EXCEPT ![p] = <<>>]
    BY DEF Crash
<1>2. WorldInv'
    BY <1>1 DEF JournalInv, WorldInv, world
<1>3. cut \subseteq {"runs", "checks"} /\ cut' \subseteq {"runs", "checks"}
    BY DEF Crash, JournalInv, Maps
<1>4. Maps'
    BY <1>1, <1>3 DEF JournalInv, Maps, Places
<1>5. LinesInv' /\ ChecksInv'
    <2>1. CASE UNCHANGED <<lines, checks, cut>>
        BY <2>1, FilesKeep
    <2>2. CASE /\ at[p] = "append" /\ LineLeft
               /\ \E line \in {Torn, Named(p)} : lines' = Written(lines, "runs" \in cut, line)
               /\ cut' = cut \cup {"runs"} /\ checks' = checks
        <3>1. LinesInv'
            BY <2>2, NamedIsNew, LinesKeep DEF JournalInv
        <3>2. ChecksInv'
            BY <2>2 DEF JournalInv, ChecksInv, Readable
        <3> QED BY <3>1, <3>2
    <2>3. CASE /\ chosen[p] # <<>> /\ CheckLeft
               /\ \E line \in {Torn, Judged(Head(chosen[p]))} :
                    checks' = Written(checks, "checks" \in cut, line)
               /\ cut' = cut \cup {"checks"} /\ lines' = lines
        <3>1. Recorded(Head(chosen[p]))
            BY <2>3 DEF JournalInv, HandsInv, Hand, Maps
        <3>2. Judged(Head(chosen[p])) \in Verdict /\ Sound(Judged(Head(chosen[p])))
            BY <3>1, JudgedSoundly DEF JournalInv
        <3>3. ChecksInv'
            BY <2>3, <3>2, ChecksKeep DEF JournalInv
        <3>4. LinesInv'
            BY <2>3 DEF JournalInv, LinesInv, Readable
        <3> QED BY <3>3, <3>4
    <2> QED BY <2>1, <2>2, <2>3 DEF Crash
<1>6. Hand(at'[p], draft'[p], known'[p], chosen'[p])
    <2>1. at'[p] = "idle" /\ chosen'[p] = <<>>
        BY <1>1 DEF JournalInv, Maps
    <2> QED BY <2>1 DEF Hand
<1>7. HandsInv'
    BY <1>1, <1>6, OtherHandsKeep DEF JournalInv, Maps
<1> QED BY <1>2, <1>4, <1>5, <1>7 DEF JournalInv

\* The inductive invariant of every number of commands at a time: what is in
\* the journal was recorded soundly, every verdict is right, and the ids a
\* command read before it appends are no more than a journal may hold.
THEOREM JournalInvariant == JournalSpec => []JournalInv
<1>1. JournalInit => JournalInv
    BY StartsRight
<1>2. JournalInv /\ [JournalNext]_journalVars => JournalInv'
    <2> SUFFICES ASSUME JournalInv, [JournalNext]_journalVars PROVE JournalInv'
        OBVIOUS
    <2>1. CASE SecondPasses \/ Change
        BY <2>1, WorldKeeps
    <2>2. ASSUME NEW p \in Process, CommandStep(p) PROVE JournalInv'
        BY <2>2, ComputeKeeps, WriteTradesKeeps, ReadIdsKeeps, AppendRunKeeps,
           StartVerifyKeeps, VerifyOneKeeps, VerifyEndsKeeps DEF CommandStep
    <2>3. ASSUME NEW p \in Process, Crash(p) PROVE JournalInv'
        BY <2>3, CrashKeeps
    <2>4. CASE UNCHANGED journalVars
        <3>1. UNCHANGED <<world, lines, cut, checks, at, draft, known, chosen>>
            BY <2>4 DEF journalVars
        <3> QED BY <3>1, FilesKeep DEF world, JournalInv, WorldInv, Maps, HandsInv
    <2> QED BY <2>1, <2>2, <2>3, <2>4 DEF JournalNext
<1> QED BY <1>1, <1>2, PTL DEF JournalSpec

\* Whatever number of commands record, verify and are killed while archive and
\* code change, each of the five statuses is given exactly for what it says:
\* verified for the same bars, code, trade table and options, data-changed for
\* changed bars that no number depends on, mismatch for all else that can be
\* run again, unknown-strategy and error for what cannot (verify, verify_basket).
THEOREM StatusesTell == JournalSpec => []StatusTells
<1>1. JournalInv => StatusTells
    <2> SUFFICES ASSUME JournalInv PROVE StatusTells
        OBVIOUS
    <2>1. /\ archive \in [Symbol -> Bars] /\ code \in Nat /\ registered \in BOOLEAN
          /\ changes \in 0 .. MaxChanges /\ clock \in 0 .. LastSecond
        BY DEF JournalInv, WorldInv
    <2>2. /\ lines \in Seq(Line \cup {Torn}) /\ Len(lines) <= MaxLines
          /\ \A i \in Readable(lines) : <<lines[i].kind, lines[i].numbers.options>> \in Runs
        BY DEF JournalInv, LinesInv, Recorded
    <2>3. /\ Len(checks) <= MaxChecks /\ cut \subseteq {"runs", "checks"}
          /\ at \in [Process -> {"idle", "trades", "read", "append", "verify"}]
        BY DEF JournalInv, ChecksInv, Maps, Places
    <2>4. JournalTypeOK
        BY <2>1, <2>2, <2>3 DEF JournalTypeOK
    <2>5. \A i \in Readable(checks) : Sound(checks[i])
        BY DEF JournalInv, ChecksInv
    <2> QED BY <2>4, <2>5 DEF StatusTells, Sound
<1> QED BY <1>1, JournalInvariant, PTL

-----------------------------------------------------------------------------
(* One command at a time *)

\* The ids that were read are still all there is when the line is written.
ReadLast == \A p \in Process : at[p] = "append" => Loadable(lines) /\ known[p] = Ids(lines)

\* Nobody was told of the entry whose newline is missing.
CutIsUntold == "runs" \in cut => lines[Len(lines)] \notin acked

SingleInv ==
    /\ IdsUnique /\ LossIsNoticed /\ ReadLast /\ CutIsUntold
    /\ acked \subseteq Line

LEMMA SameFile ==
    ASSUME SingleInv, lines' = lines, cut' = cut, acked' = acked, ReadLast' PROVE SingleInv'
BY DEF SingleInv, IdsUnique, LossIsNoticed, Lost, Loadable, CutIsUntold, Readable

\* Steps that leave the file alone and bring no command to the append.
LEMMA OtherStepsStayFresh ==
    ASSUME SingleInv, lines' = lines,
           \A p \in Process : at'[p] = "append" => at[p] = "append" /\ known'[p] = known[p]
    PROVE  ReadLast'
BY DEF SingleInv, ReadLast, Loadable, Ids, Readable

LEMMA ReadIdsStaysFresh ==
    ASSUME JournalInv, SingleInv, NEW p \in Process, \A q \in Process : q = p, ReadIds(p)
    PROVE  SingleInv'
<1>1. lines' = lines /\ cut' = cut /\ acked' = acked
    BY DEF ReadIds
<1>2. at \in [Process -> Places] /\ known \in [Process -> SUBSET (Nat \X Nat)]
    BY DEF JournalInv, Maps
<1>3. CASE Loadable(lines)
    <2>1. known' = [known EXCEPT ![p] = Ids(lines)]
        BY <1>3, AllIdsRead DEF ReadIds, JournalInv
    <2>2. \A q \in Process : known'[q] = Ids(lines)'
        BY <1>1, <1>2, <2>1 DEF Ids, Readable
    <2>3. ReadLast'
        BY <1>1, <1>3, <2>2 DEF ReadLast, Loadable
    <2> QED BY <1>1, <2>3, SameFile
<1>4. CASE ~Loadable(lines)
    <2>1. \A q \in Process : at'[q] = "idle"
        BY <1>2, <1>4 DEF ReadIds
    <2>2. ReadLast'
        BY <2>1 DEF ReadLast
    <2> QED BY <1>1, <2>2, SameFile
<1> QED BY <1>3, <1>4

\* A line is written behind a journal that loads: it takes at most the line
\* without its newline with it, and of that one nobody was told.
LEMMA OneLineWritten ==
    ASSUME JournalInv, SingleInv, NEW p \in Process, at[p] = "append",
           NEW line \in {Torn, Named(p)}, lines' = Written(lines, "runs" \in cut, line)
    PROVE  /\ IdsUnique' /\ Named(p) \notin acked /\ Torn \notin acked /\ lines' # <<>>
           /\ Len(lines') \in DOMAIN lines'
           /\ \A e \in acked : \E i \in Readable(lines') : lines'[i] = e
           /\ "runs" \in cut => lines'[Len(lines')] = Torn
           /\ "runs" \notin cut => lines'[Len(lines')] = line
<1> DEFINE S == Line \cup {Torn}
           n == Len(lines)
<1>1. /\ Loadable(lines) /\ known[p] = Ids(lines) /\ Lost = {} /\ acked \subseteq Line
      /\ "runs" \in cut => lines[n] \notin acked
    BY DEF SingleInv, ReadLast, LossIsNoticed, CutIsUntold
<1>2. Recorded(Named(p)) /\ Id(Named(p)) \notin Ids(lines)
    BY <1>1, NamedIsNew
<1>3. /\ lines \in Seq(S) /\ line \in S /\ Torn \in S
      /\ "runs" \in cut => lines # <<>>
      /\ lines' = IF "runs" \in cut THEN [lines EXCEPT ![Len(lines)] = Torn]
           ELSE Append(lines, line)
    BY <1>2 DEF JournalInv, LinesInv, Recorded, Written
<1> HIDE DEF S
<1>4. /\ lines' \in Seq(S) /\ n \in Nat /\ lines' # <<>>
      /\ Len(lines') = IF "runs" \in cut THEN n ELSE n + 1
      /\ \A i \in 1 .. n : i # n \/ "runs" \notin cut => lines'[i] = lines[i]
      /\ lines'[Len(lines')] = IF "runs" \in cut THEN Torn ELSE line
      /\ \A i \in 1 .. Len(lines') :
           lines'[i] # Torn => (i \in 1 .. n /\ lines'[i] = lines[i]) \/ lines'[i] = line
    BY <1>3, WrittenIs
<1>5. DOMAIN lines = 1 .. n /\ DOMAIN lines' = 1 .. Len(lines') /\ Len(lines') \in Nat
    BY <1>3, <1>4
<1>6. Torn \notin acked
    BY <1>1, JournalAssumption
<1>7. \A e \in acked : \E i \in Readable(lines) : lines[i] = e
    BY <1>1 DEF Lost
<1>8. \A e \in acked : Id(e) \in Ids(lines)
    BY <1>7 DEF Ids
<1>9. Named(p) \notin acked
    BY <1>2, <1>8
<1>10. ASSUME NEW e \in acked PROVE \E i \in Readable(lines') : lines'[i] = e
    <2>1. PICK i \in Readable(lines) : lines[i] = e
        BY <1>7
    <2>2. i \in 1 .. n /\ lines[i] # Torn /\ (i # n \/ "runs" \notin cut)
        BY <1>1, <1>5, <2>1 DEF Readable
    <2>3. i \in 1 .. Len(lines') /\ lines'[i] = lines[i]
        BY <1>4, <2>2
    <2> QED BY <1>5, <2>1, <2>2, <2>3 DEF Readable
<1>11. Len(lines') \in DOMAIN lines'
    <2>1. Len(lines') # 0
        BY <1>4
    <2> QED BY <1>5, <2>1
<1>12. \A i \in Readable(lines') :
         \/ i \in Readable(lines) /\ i \in 1 .. n /\ lines'[i] = lines[i]
         \/ i \notin 1 .. n /\ i = Len(lines') /\ lines'[i] = Named(p)
    <2> SUFFICES ASSUME NEW i \in Readable(lines')
                 PROVE  \/ i \in Readable(lines) /\ i \in 1 .. n /\ lines'[i] = lines[i]
                        \/ i \notin 1 .. n /\ i = Len(lines') /\ lines'[i] = Named(p)
        OBVIOUS
    <2>1. i \in 1 .. Len(lines') /\ lines'[i] # Torn
        BY <1>5 DEF Readable
    <2>2. CASE i \in 1 .. n /\ (i # n \/ "runs" \notin cut)
        BY <1>4, <1>5, <2>1, <2>2 DEF Readable
    <2>3. CASE i \in 1 .. n /\ i = n /\ "runs" \in cut
        BY <1>4, <2>1, <2>3
    <2>4. CASE i \notin 1 .. n
        <3>1. "runs" \notin cut /\ i = Len(lines')
            BY <1>4, <2>1, <2>4
        <3> QED BY <1>4, <2>1, <2>4, <3>1
    <2> QED BY <2>2, <2>3, <2>4
<1>13. IdsUnique'
    <2>1. \A i, j \in Readable(lines) : i # j => Id(lines[i]) # Id(lines[j])
        BY DEF SingleInv, IdsUnique, Id
    <2>2. \A i \in Readable(lines) : Id(lines[i]) # Id(Named(p))
        BY <1>2 DEF Ids
    <2>3. \A i, j \in Readable(lines') : i # j => Id(lines'[i]) # Id(lines'[j])
        BY <1>12, <2>1, <2>2
    <2> QED BY <2>3 DEF IdsUnique, Id
<1> QED BY <1>4, <1>6, <1>9, <1>10, <1>11, <1>13

LEMMA AppendRunStaysUnique ==
    ASSUME JournalInv, SingleInv, NEW p \in Process, \A q \in Process : q = p, AppendRun(p)
    PROVE  SingleInv'
<1>1. /\ at[p] = "append" /\ lines' = Written(lines, "runs" \in cut, Named(p))
      /\ cut' = cut \ {"runs"} /\ acked' = acked \cup {Named(p)}
      /\ at' = [at EXCEPT ![p] = "idle"]
    BY DEF AppendRun
<1>2. /\ IdsUnique' /\ Len(lines') \in DOMAIN lines'
      /\ \A e \in acked : \E i \in Readable(lines') : lines'[i] = e
      /\ "runs" \in cut => lines'[Len(lines')] = Torn
      /\ "runs" \notin cut => lines'[Len(lines')] = Named(p)
    BY <1>1, OneLineWritten
<1>3. Named(p) \in Line /\ Named(p) # Torn
    BY <1>1, NamedIsNew, JournalAssumption DEF Recorded
<1>4. \A e \in Lost' : e = Named(p) /\ "runs" \in cut
    <2> SUFFICES ASSUME NEW e \in Lost' PROVE e = Named(p) /\ "runs" \in cut
        OBVIOUS
    <2>1. e \in acked' /\ \A i \in Readable(lines') : lines'[i] # e
        BY DEF Lost
    <2>2. e = Named(p)
        BY <1>1, <1>2, <2>1
    <2>3. "runs" \notin cut => Len(lines') \in Readable(lines')
        BY <1>2, <1>3 DEF Readable
    <2> QED BY <1>2, <2>1, <2>2, <2>3
<1>5. LossIsNoticed'
    <2>1. "runs" \in cut => ~Loadable(lines')
        BY <1>2 DEF Loadable
    <2> QED BY <1>4, <2>1 DEF LossIsNoticed, Loadable
<1>6. ReadLast'
    BY <1>1 DEF ReadLast, JournalInv, Maps
<1>7. CutIsUntold'
    BY <1>1 DEF CutIsUntold
<1>8. (acked \subseteq Line)'
    BY <1>1, <1>3 DEF SingleInv
<1> QED BY <1>2, <1>5, <1>6, <1>7, <1>8 DEF SingleInv

LEMMA CrashStaysUnique ==
    ASSUME JournalInv, SingleInv, NEW p \in Process, \A q \in Process : q = p, Crash(p)
    PROVE  SingleInv'
<1>1. acked' = acked /\ at' = [at EXCEPT ![p] = "idle"]
    BY DEF Crash
<1>2. ReadLast'
    BY <1>1 DEF ReadLast, JournalInv, Maps
<1>3. CASE lines' = lines /\ cut' \subseteq cut \cup {"checks"}
    <2>1. "runs" \in cut' => "runs" \in cut
        BY <1>3
    <2>2. CutIsUntold'
        BY <1>1, <1>3, <2>1 DEF SingleInv, CutIsUntold
    <2> QED BY <1>1, <1>2, <1>3, <2>2
        DEF SingleInv, IdsUnique, LossIsNoticed, Lost, Loadable, Readable
<1>4. ASSUME at[p] = "append", NEW line \in {Torn, Named(p)},
             lines' = Written(lines, "runs" \in cut, line)
      PROVE  SingleInv'
    <2>1. /\ IdsUnique' /\ Named(p) \notin acked /\ Torn \notin acked
          /\ \A e \in acked : \E i \in Readable(lines') : lines'[i] = e
          /\ lines'[Len(lines')] \in {Torn, Named(p)}
        BY <1>4, OneLineWritten
    <2>2. Lost' = {}
        BY <1>1, <2>1 DEF Lost
    <2>3. LossIsNoticed'
        BY <2>2 DEF LossIsNoticed
    <2>4. CutIsUntold'
        BY <1>1, <2>1 DEF CutIsUntold
    <2> QED BY <1>1, <1>2, <2>1, <2>3, <2>4 DEF SingleInv
<1>5. \/ lines' = lines /\ cut' \subseteq cut \cup {"checks"}
      \/ at[p] = "append" /\ \E line \in {Torn, Named(p)} :
           lines' = Written(lines, "runs" \in cut, line)
    BY DEF Crash
<1> QED BY <1>3, <1>4, <1>5

\* The invariant of one command at a time.
THEOREM SingleInvariant ==
    ASSUME \A p, q \in Process : p = q PROVE JournalSpec => []SingleInv
<1>1. JournalInit => SingleInv
    BY DEF JournalInit, SingleInv, IdsUnique, LossIsNoticed, Lost, ReadLast, CutIsUntold, Readable
<1>2. JournalInv /\ SingleInv /\ [JournalNext]_journalVars => SingleInv'
    <2> SUFFICES ASSUME JournalInv, SingleInv, [JournalNext]_journalVars PROVE SingleInv'
        OBVIOUS
    <2>1. CASE SecondPasses \/ Change \/ UNCHANGED journalVars
        <3>1. UNCHANGED <<lines, cut, acked, at, known>>
            BY <2>1 DEF SecondPasses, Change, journalVars
        <3> QED BY <3>1, OtherStepsStayFresh, SameFile
    <2>2. ASSUME NEW p \in Process, Compute(p) \/ WriteTrades(p) \/ StartVerify(p) \/ VerifyEnds(p)
          PROVE  SingleInv'
        <3>1. /\ lines' = lines /\ cut' = cut /\ acked' = acked /\ known' = known
              /\ \E place \in Places \ {"append"} : at' = [at EXCEPT ![p] = place]
            BY <2>2 DEF Compute, WriteTrades, StartVerify, VerifyEnds, Places
        <3>2. \A q \in Process : at'[q] = "append" => at[q] = "append"
            BY <3>1 DEF JournalInv, Maps
        <3> QED BY <3>1, <3>2, OtherStepsStayFresh, SameFile
    <2>3. ASSUME NEW p \in Process, ReadIds(p) PROVE SingleInv'
        BY <2>3, ReadIdsStaysFresh
    <2>4. ASSUME NEW p \in Process, AppendRun(p) PROVE SingleInv'
        BY <2>4, AppendRunStaysUnique
    <2>5. ASSUME NEW p \in Process, Crash(p) PROVE SingleInv'
        BY <2>5, CrashStaysUnique
    <2>6. ASSUME NEW p \in Process, VerifyOne(p) PROVE SingleInv'
        <3>1. /\ lines' = lines /\ acked' = acked /\ at' = at /\ known' = known
              /\ cut' = cut \ {"checks"}
            BY <2>6 DEF VerifyOne
        <3>2. ReadLast'
            BY <3>1, OtherStepsStayFresh
        <3>3. CutIsUntold'
            BY <3>1 DEF SingleInv, CutIsUntold
        <3> QED BY <3>1, <3>2, <3>3
            DEF SingleInv, IdsUnique, LossIsNoticed, Lost, Loadable, Readable
    <2> QED BY <2>1, <2>2, <2>3, <2>4, <2>5, <2>6 DEF JournalNext, CommandStep
<1> QED BY <1>1, <1>2, JournalInvariant, PTL DEF JournalSpec

\* With one command at a time no two entries get the same id, in whatever
\* second they are recorded and wherever a command is killed (append).
THEOREM IdsStayUnique ==
    ASSUME \A p, q \in Process : p = q PROVE JournalSpec => []IdsUnique
<1>1. SingleInv => IdsUnique
    BY DEF SingleInv
<1> QED BY <1>1, SingleInvariant, PTL

\* With one command at a time a run that was reported as journalized and is no
\* longer in the journal keeps the journal from loading, and it is the only
\* one: all of the journal is loaded before a line is written (append).
THEOREM LostRunIsNoticed ==
    ASSUME \A p, q \in Process : p = q PROVE JournalSpec => []LossIsNoticed
<1>1. SingleInv => LossIsNoticed
    BY DEF SingleInv
<1> QED BY <1>1, SingleInvariant, PTL

-----------------------------------------------------------------------------
(* The dashboard *)

(* How a program goes on *)

Follow ==
    [findStats |-> {"require"}, require |-> {"require", "stat"},
     stat |-> {"lookup"}, lookup |-> {"load"}, load |-> {"keep"},
     keep |-> {"reply", "source", "statsRow", "findIndex"},
     source |-> {"require"}, statsRow |-> {"keepStats"}, keepStats |-> {"reply"},
     findIndex |-> {"listing"}, listing |-> {"row"}, row |-> {"keepIndex"},
     keepIndex |-> {"reply", "statPage"},
     statPage |-> {"checkPage"}, checkPage |-> {"readPage"},
     readPage |-> {"takePage"}, takePage |-> {"reply"},
     reply |-> {}, replyHeld |-> {}]

Label == DOMAIN Follow
Linked(q) == \A i \in 1 .. Len(q) - 1 : q[i + 1] \in Follow[q[i]]
Ended(q) == q # <<>> => q[Len(q)] \in {"reply", "replyHeld"}
Sourced(q) ==
    \A i \in 1 .. Len(q) : q[i] = "source" =>
        /\ i + 6 <= Len(q) /\ q[i + 6] = "statsRow"
        /\ \A j \in i + 1 .. Len(q) : q[j] # "source"
Shaped(q) ==
    /\ q \in Seq(Label)
    /\ Linked(q) /\ Ended(q) /\ Sourced(q)

\* The first series a request reads is still the one it asked for.
SourceAhead(q) == \E i \in 1 .. Len(q) : q[i] = "source"
OnlyBars(q) ==
    \A i \in 1 .. Len(q) :
        q[i] \in {"require", "stat", "lookup", "load", "keep", "reply"}

\* A rest of a program is shaped as the program is.
LEMMA RestShaped ==
    ASSUME NEW q, Shaped(q), NEW n \in 1 .. Len(q)
    PROVE  LET rest == SubSeq(q, n + 1, Len(q)) IN
           /\ Shaped(rest)
           /\ Len(rest) = Len(q) - n
           /\ \A i \in 1 .. Len(rest) : rest[i] = q[i + n]
<1> DEFINE rest == SubSeq(q, n + 1, Len(q))
<1>1. /\ rest \in Seq(Label) /\ Len(rest) = Len(q) - n
      /\ \A i \in 1 .. Len(rest) : rest[i] = q[i + n]
    BY DEF Shaped
<1> HIDE DEF rest
<1>2. Linked(rest)
    BY <1>1, SMTT(30) DEF Shaped, Linked
<1>3. Ended(rest)
    BY <1>1 DEF Shaped, Ended
<1>4. Sourced(rest)
    <2> SUFFICES ASSUME NEW i \in 1 .. Len(rest), rest[i] = "source"
                 PROVE  /\ i + 6 <= Len(rest) /\ rest[i + 6] = "statsRow"
                        /\ \A j \in i + 1 .. Len(rest) : rest[j] # "source"
        BY DEF Sourced
    <2>1. i + n \in 1 .. Len(q) /\ q[i + n] = "source" /\ Len(q) \in Nat
        BY <1>1 DEF Shaped
    <2>2. /\ i + n + 6 <= Len(q) /\ q[i + n + 6] = "statsRow"
          /\ \A j \in i + n + 1 .. Len(q) : q[j] # "source"
        BY <2>1 DEF Shaped, Sourced
    <2>3. i + 6 \in 1 .. Len(rest) /\ (i + 6) + n = i + n + 6
        BY <1>1, <2>1, <2>2
    <2>4. rest[i + 6] = "statsRow"
        BY <1>1, <2>2, <2>3
    <2>5. ASSUME NEW j \in i + 1 .. Len(rest) PROVE rest[j] # "source"
        <3>1. j \in 1 .. Len(rest) /\ j + n \in i + n + 1 .. Len(q)
            BY <1>1, <2>1
        <3> QED BY <1>1, <2>2, <3>1
    <2> QED BY <2>3, <2>4, <2>5
<1> QED BY <1>1, <1>2, <1>3, <1>4 DEF Shaped, rest

LEMMA ProgramsShaped == \A route \in DOMAIN Program : Shaped(Program[route])
<1>1. Shaped(Program.page)
    <2>1. Program.page \in Seq(Label) /\ Linked(Program.page)
        BY DEF Program, Label, Follow, Linked
    <2>2. Ended(Program.page) /\ Sourced(Program.page)
        BY DEF Program, Ended, Sourced
    <2> QED BY <2>1, <2>2 DEF Shaped
<1>2. Shaped(Program.bars)
    <2>1. Program.bars \in Seq(Label) /\ Linked(Program.bars)
        BY DEF Program, Label, Follow, Linked
    <2>2. Ended(Program.bars) /\ Sourced(Program.bars)
        BY DEF Program, Ended, Sourced
    <2> QED BY <2>1, <2>2 DEF Shaped
<1>3. Shaped(Program.index)
    <2>1. Program.index \in Seq(Label) /\ Linked(Program.index)
        BY DEF Program, Label, Follow, Linked
    <2>2. Ended(Program.index) /\ Sourced(Program.index)
        BY DEF Program, Ended, Sourced
    <2> QED BY <2>1, <2>2 DEF Shaped
<1>4. Shaped(Program.stats)
    <2>1. Program.stats \in Seq(Label) /\ Linked(Program.stats)
        BY DEF Program, Label, Follow, Linked
    <2>2. Ended(Program.stats) /\ Sourced(Program.stats)
        BY DEF Program, Ended, Sourced
    <2> QED BY <2>1, <2>2 DEF Shaped
<1>5. Shaped(Program.export)
    <2>1. Program.export \in Seq(Label) /\ Linked(Program.export)
        BY DEF Program, Label, Follow, Linked
    <2>2. Ended(Program.export) /\ Sourced(Program.export)
        BY DEF Program, Ended, Sourced
    <2> QED BY <2>1, <2>2 DEF Shaped
<1>6. DOMAIN Program = {"page", "bars", "index", "stats", "export"}
    BY DEF Program
<1> QED BY <1>1, <1>2, <1>3, <1>4, <1>5, <1>6

LEMMA RepliesShaped == Shaped(<<"reply">>) /\ Shaped(<<"replyHeld">>)
BY DEF Shaped, Label, Linked, Ended, Sourced, Follow

-----------------------------------------------------------------------------
(* The invariant *)

Request ==
    [route : Entry(DOMAIN Program), series : Entry(Series), key : Entry(Series),
     listed : SUBSET Series, stamp : Version, bars : Version, own : Version,
     row : Version, rows : SUBSET (Series \X Version), text : Version,
     atDisk : Version, atAsset : Version, refused : Entry(Refusal)]

Typed ==
    /\ TypeOK
    /\ asset <= writes + 1 /\ \A s \in Series : disk[s] <= writes + 1
    /\ todo \in [Thread -> Seq(Label)]
    /\ req \in [Thread -> Request]
    /\ \A t \in Thread :
         todo[t] # <<>> => req[t].series \in Series /\ req[t].key \in Series

\* What is cached: the bars behind a stamp are the ones the stamp promises,
\* nothing is newer than the files, and a series that the listing or the walk
\* misses got its file after that walk began.
Misses(found, began) ==
    \A s \in Series \ found : disk[s] > 0 => born[s] >= began

CachesInv ==
    /\ \A s \in Series : kept[s] # None =>
         kept[s].bars >= kept[s].stamp /\ kept[s].bars <= disk[s]
    /\ PageMatchesStamp
    /\ RowNotBehindBars
    /\ \A s \in Series : born[s] <= now
    /\ symbols # None =>
         /\ symbols.began <= symbols.built /\ symbols.built <= now
         /\ Misses(symbols.value, symbols.began)
    /\ walk # None =>
         /\ walk.began <= now
         /\ Misses(walk.left \cup walk.found, walk.began)

\* What a request has in hand at each step, q being the steps it still has.
RequestInv(q, r) ==
    /\ Shaped(q)
    /\ q = <<>> => r.refused = None
    /\ q # <<>> =>
         /\ r.bars <= disk[r.key] /\ r.own <= disk[r.series]
         /\ SourceAhead(q) => r.key = r.series
         /\ q[1] \in {"lookup", "load"} => r.stamp <= disk[r.key]
         /\ q[1] = "keep" => r.bars >= r.stamp
         /\ q[1] = "keepStats" => r.row >= r.own
         /\ q[1] \in {"checkPage", "readPage"} => r.stamp <= asset
         /\ q[1] = "readPage" => r.text = 0 \/ r.text >= r.stamp
         /\ q[1] = "takePage" => page # None
         /\ r.refused # None =>
              /\ q = <<"reply">> /\ r.refused.at <= now
              /\ disk[r.key] = 0 \/ r.refused.at - born[r.key] < CacheSeconds + r.refused.took
         /\ r.route = "bars" =>
              /\ OnlyBars(q) /\ r.key = r.series /\ r.atDisk <= disk[r.key]
              /\ q[1] \in {"lookup", "load", "keep"} => r.atDisk <= r.stamp
              /\ q[1] = "reply" /\ r.refused = None => r.bars >= r.atDisk

DashboardInv ==
    /\ Typed
    /\ CachesInv
    /\ \A t \in Thread : RequestInv(todo[t], req[t])

-----------------------------------------------------------------------------
(* One step ahead in a program *)

LEMMA Skipped ==
    ASSUME NEW q, Shaped(q), NEW n \in 1 .. Len(q), n < Len(q)
    PROVE  LET rest == SubSeq(q, n + 1, Len(q)) IN
           /\ Shaped(rest) /\ rest # <<>> /\ rest \in Seq(Label)
           /\ rest[1] = q[n + 1] /\ rest[1] \in Follow[q[n]]
           /\ SourceAhead(rest) => SourceAhead(q)
           /\ q[1] = "source" => ~SourceAhead(rest)
           /\ OnlyBars(q) => OnlyBars(rest)
<1> DEFINE rest == SubSeq(q, n + 1, Len(q))
<1>1. /\ Shaped(rest) /\ Len(rest) = Len(q) - n
      /\ \A i \in 1 .. Len(rest) : rest[i] = q[i + n]
    BY RestShaped
<1> HIDE DEF rest
<1>2. /\ Len(q) \in Nat /\ q[n + 1] \in Follow[q[n]]
      /\ rest \in Seq(Label) /\ rest # <<>> /\ 1 \in 1 .. Len(rest)
    BY <1>1 DEF Shaped, Linked
<1>3. SourceAhead(rest) => SourceAhead(q)
    BY <1>1, <1>2 DEF SourceAhead
<1>4. q[1] = "source" => ~SourceAhead(rest)
    <2> SUFFICES ASSUME q[1] = "source", NEW i \in 1 .. Len(rest)
                 PROVE  rest[i] # "source"
        BY DEF SourceAhead
    <2>1. i + n \in 1 + 1 .. Len(q) /\ 1 \in 1 .. Len(q)
        BY <1>1, <1>2
    <2> QED BY <1>1, <2>1 DEF Shaped, Sourced
<1>5. OnlyBars(q) => OnlyBars(rest)
    <2> SUFFICES ASSUME OnlyBars(q), NEW i \in 1 .. Len(rest)
                 PROVE  rest[i] \in {"require", "stat", "lookup", "load", "keep", "reply"}
        BY DEF OnlyBars
    <2>1. i + n \in 1 .. Len(q)
        BY <1>1, <1>2
    <2> QED BY <1>1, <2>1 DEF OnlyBars
<1>6. rest[1] = q[n + 1] /\ rest[1] \in Follow[q[n]]
    BY <1>1, <1>2
<1> QED BY <1>1, <1>2, <1>3, <1>4, <1>5, <1>6 DEF rest

LEMMA Advanced ==
    ASSUME NEW q, Shaped(q), q # <<>>, q[1] \notin {"reply", "replyHeld"}
    PROVE  /\ Shaped(Tail(q)) /\ Tail(q) # <<>> /\ Tail(q) \in Seq(Label)
           /\ Tail(q)[1] \in Follow[q[1]]
           /\ SourceAhead(Tail(q)) => SourceAhead(q)
           /\ q[1] = "source" => ~SourceAhead(Tail(q))
           /\ OnlyBars(q) => OnlyBars(Tail(q))
<1>1. q \in Seq(Label) /\ 1 \in 1 .. Len(q) /\ 1 < Len(q)
    BY DEF Shaped, Ended
<1>2. Tail(q) = SubSeq(q, 1 + 1, Len(q))
    BY <1>1
<1>3. LET rest == SubSeq(q, 1 + 1, Len(q)) IN
      /\ Shaped(rest) /\ rest # <<>> /\ rest \in Seq(Label)
      /\ rest[1] = q[1 + 1] /\ rest[1] \in Follow[q[1]]
      /\ SourceAhead(rest) => SourceAhead(q)
      /\ q[1] = "source" => ~SourceAhead(rest)
      /\ OnlyBars(q) => OnlyBars(rest)
    BY <1>1, Skipped
<1> QED BY <1>2, <1>3

LEMMA LastStep ==
    ASSUME NEW q, Shaped(q), q # <<>>, q[1] \in {"reply", "replyHeld"}
    PROVE  Tail(q) = <<>> /\ Len(q) = 1
<1>1. q \in Seq(Label) /\ Len(q) \in Nat /\ Len(q) >= 1
    BY DEF Shaped
<1>2. Follow["reply"] = {} /\ Follow["replyHeld"] = {}
    BY DEF Follow
<1>3. ~ (Len(q) > 1)
    <2> SUFFICES ASSUME Len(q) > 1 PROVE FALSE
        OBVIOUS
    <2>1. q[1 + 1] \in Follow[q[1]]
        BY <1>1 DEF Shaped, Linked
    <2> QED BY <1>2, <2>1
<1>4. Len(q) = 1
    <2> DEFINE n == Len(q)
    <2>1. n \in Nat /\ n >= 1 /\ ~ (n > 1)
        BY <1>1, <1>3
    <2> HIDE DEF n
    <2>2. n = 1
        BY <2>1
    <2> QED BY <2>2 DEF n
<1>5. Tail(q) \in Seq(Label) /\ Len(Tail(q)) = 0
    BY <1>1, <1>4
<1> QED BY <1>4, <1>5, EmptySeq

\* Where the steps of more than one lead.
LEMMA LookupLeads ==
    ASSUME NEW q, Shaped(q), q # <<>>, q[1] = "lookup"
    PROVE  3 \in 1 .. Len(q) /\ 3 < Len(q) /\ q[3] = "keep"
<1>1. q \in Seq(Label) /\ Len(q) \in Nat /\ Len(q) >= 2
    BY DEF Shaped, Ended
<1>2. q[2] = "load" /\ Len(q) >= 3
    BY <1>1 DEF Shaped, Linked, Ended, Follow
<1>3. q[3] = "keep" /\ Len(q) >= 4
    BY <1>1, <1>2 DEF Shaped, Linked, Ended, Follow
<1> QED BY <1>1, <1>2, <1>3

LEMMA FindIndexLeads ==
    ASSUME NEW q, Shaped(q), q # <<>>, q[1] = "findIndex"
    PROVE  4 \in 1 .. Len(q) /\ 4 < Len(q) /\ q[4] = "keepIndex"
<1>1. q \in Seq(Label) /\ Len(q) \in Nat /\ Len(q) >= 2
    BY DEF Shaped, Ended
<1>2. q[2] = "listing" /\ Len(q) >= 3
    BY <1>1 DEF Shaped, Linked, Ended, Follow
<1>3. q[3] = "row" /\ Len(q) >= 4
    BY <1>1, <1>2 DEF Shaped, Linked, Ended, Follow
<1>4. q[4] = "keepIndex" /\ Len(q) >= 5
    BY <1>1, <1>3 DEF Shaped, Linked, Ended, Follow
<1> QED BY <1>1, <1>2, <1>3, <1>4

LEMMA SourceLeads ==
    ASSUME NEW q, Shaped(q), q # <<>>, q[1] = "source"
    PROVE  6 \in 1 .. Len(q) /\ 6 < Len(q) /\ q[7] = "statsRow"
<1>1. q \in Seq(Label) /\ Len(q) \in Nat /\ 1 \in 1 .. Len(q)
    BY DEF Shaped
<1> QED BY <1>1 DEF Shaped, Sourced

LEMMA CheckPageLeads ==
    ASSUME NEW q, Shaped(q), q # <<>>, q[1] = "checkPage"
    PROVE  2 \in 1 .. Len(q) /\ 2 < Len(q) /\ q[3] = "takePage"
<1>1. q \in Seq(Label) /\ Len(q) \in Nat /\ Len(q) >= 2
    BY DEF Shaped, Ended
<1>2. q[2] = "readPage" /\ Len(q) >= 3
    BY <1>1 DEF Shaped, Linked, Ended, Follow
<1> QED BY <1>1, <1>2 DEF Shaped, Linked, Follow

-----------------------------------------------------------------------------
(* What the other threads have in hand *)

\* Files grow, the clock goes on, and a file that appears is born now.
Outside ==
    /\ now' >= now /\ asset' >= asset
    /\ page # None => page' # None
    /\ \A s \in Series :
         /\ disk'[s] >= disk[s]
         /\ \/ born'[s] = born[s] /\ (disk[s] = 0 => disk'[s] = 0)
            \/ disk[s] = 0 /\ born'[s] = now

LEMMA OthersKeep ==
    ASSUME DashboardInv, Typed', Outside, NEW u \in Thread,
           todo'[u] = todo[u], req'[u] = req[u]
    PROVE  RequestInv(todo[u], req[u])'
<1> DEFINE q == todo[u]  r == req[u]
<1>1. RequestInv(q, r) /\ r \in Request
    BY DEF DashboardInv, Typed
<1>2. CASE q = <<>>
    BY <1>1, <1>2 DEF RequestInv
<1>3. CASE q # <<>>
    <2>1. /\ r.series \in Series /\ r.key \in Series
          /\ disk[r.key] \in Nat /\ disk'[r.key] \in Nat
          /\ disk[r.series] \in Nat /\ disk'[r.series] \in Nat
          /\ disk'[r.key] >= disk[r.key] /\ disk'[r.series] >= disk[r.series]
          /\ asset \in Nat /\ asset' \in Nat /\ now \in Nat /\ now' \in Nat
          /\ born[r.key] \in Nat
        BY <1>3, DashboardAssumption, SMTT(30) DEF DashboardInv, Typed, TypeOK, Outside, Version, Time
    <2>2. /\ r.bars \in Nat /\ r.own \in Nat /\ r.row \in Nat /\ r.stamp \in Nat
          /\ r.atDisk \in Nat
          /\ r.refused # None => r.refused.at \in Nat /\ r.refused.took \in Nat
        BY <1>1, DashboardAssumption DEF Request, Refusal, Version, Time, Entry
    <2>3. r.refused # None =>
             /\ q = <<"reply">> /\ r.refused.at <= now'
             /\ \/ disk'[r.key] = 0
                \/ r.refused.at - born'[r.key] < CacheSeconds + r.refused.took
        <3> SUFFICES ASSUME r.refused # None
                     PROVE  /\ q = <<"reply">> /\ r.refused.at <= now'
                            /\ \/ disk'[r.key] = 0
                               \/ r.refused.at - born'[r.key] < CacheSeconds + r.refused.took
            OBVIOUS
        <3>1. /\ q = <<"reply">> /\ r.refused.at <= now
              /\ disk[r.key] = 0 \/ r.refused.at - born[r.key] < CacheSeconds + r.refused.took
            BY <1>1, <1>3 DEF RequestInv
        <3>2. CASE born'[r.key] = born[r.key] /\ disk[r.key] # 0
            BY <2>1, <2>2, <3>1, <3>2 DEF Outside
        <3>3. CASE disk[r.key] = 0 /\ born'[r.key] = now
            BY <2>1, <2>2, <3>1, <3>3, DashboardAssumption DEF Outside
        <3>4. CASE disk[r.key] = 0 /\ disk'[r.key] = 0
            BY <2>1, <2>2, <3>1, <3>4 DEF Outside
        <3> QED BY <2>1, <3>2, <3>3, <3>4 DEF Outside
    <2>4. r.bars <= disk'[r.key] /\ r.own <= disk'[r.series]
        <3>1. r.bars <= disk[r.key] /\ r.own <= disk[r.series]
            BY <1>1, <1>3 DEF RequestInv
        <3> QED BY <2>1, <2>2, <3>1
    <2>5. /\ q[1] \in {"lookup", "load"} => r.stamp <= disk'[r.key]
          /\ q[1] \in {"checkPage", "readPage"} => r.stamp <= asset'
          /\ q[1] = "takePage" => page' # None
        BY <1>1, <1>3, <2>1, <2>2, SMTT(30) DEF RequestInv, Outside
    <2>6. r.route = "bars" => r.atDisk <= disk'[r.key]
        BY <1>1, <1>3, <2>1, <2>2 DEF RequestInv
    <2>7. RequestInv(q, r)'
        BY <1>1, <1>3, <2>3, <2>4, <2>5, <2>6 DEF RequestInv
    <2> QED BY <2>7
<1> QED BY <1>2, <1>3

LEMMA OneThread ==
    ASSUME DashboardInv, Typed', CachesInv', Outside, NEW t \in Thread,
           \A u \in Thread \ {t} : todo'[u] = todo[u] /\ req'[u] = req[u],
           RequestInv(todo[t], req[t])'
    PROVE  DashboardInv'
<1>1. ASSUME NEW u \in Thread PROVE RequestInv(todo[u], req[u])'
    <2>1. CASE u = t
        BY <2>1
    <2>2. CASE u # t
        BY <2>2, OthersKeep
    <2> QED BY <2>1, <2>2
<1> QED BY <1>1 DEF DashboardInv

\* What a listing misses, it misses for the same reason after any step.
LEMMA StillMisses ==
    ASSUME DashboardInv, Typed', Outside, NEW found, NEW began \in Nat, began <= now,
           Misses(found, began)
    PROVE  \A s \in Series \ found : disk'[s] > 0 => born'[s] >= began
<1> SUFFICES ASSUME NEW s \in Series \ found, disk'[s] > 0 PROVE born'[s] >= began
    OBVIOUS
<1>1. /\ disk[s] \in Nat /\ disk'[s] \in Nat /\ disk'[s] >= disk[s]
      /\ born[s] \in Nat /\ born'[s] \in Nat /\ now \in Nat
    BY DashboardAssumption DEF DashboardInv, Typed, TypeOK, Outside, Version, Time
<1>2. CASE born'[s] = born[s] /\ disk[s] # 0
    BY <1>1, <1>2 DEF Misses
<1>3. CASE disk[s] = 0 /\ born'[s] = now
    BY <1>3
<1> QED BY <1>1, <1>2, <1>3 DEF Outside

LEMMA CachesKeep ==
    ASSUME DashboardInv, Typed', Outside, UNCHANGED <<caches, page>>
    PROVE  CachesInv'
<1>1. ASSUME NEW s \in Series
      PROVE  /\ disk[s] \in Nat /\ disk'[s] \in Nat /\ disk'[s] >= disk[s]
             /\ born[s] \in Nat /\ born'[s] \in Nat /\ now \in Nat /\ now' \in Nat
    BY DashboardAssumption DEF DashboardInv, Typed, TypeOK, Outside, Version, Time
<1>2. ASSUME NEW s \in Series, kept'[s] # None
      PROVE  kept'[s].bars >= kept'[s].stamp /\ kept'[s].bars <= disk'[s]
    <2>1. kept[s].bars \in Nat /\ kept[s].bars <= disk[s] /\ kept[s].bars >= kept[s].stamp
        BY <1>2, DashboardAssumption
        DEF DashboardInv, Typed, TypeOK, CachesInv, Entry, Loaded, Version, caches
    <2> QED BY <1>1, <2>1 DEF caches
<1>3. PageMatchesStamp' /\ RowNotBehindBars'
    BY DEF DashboardInv, CachesInv, PageMatchesStamp, RowNotBehindBars, caches
<1>4. \A s \in Series : born'[s] <= now'
    BY <1>1 DEF DashboardInv, CachesInv, Outside
<1>5. now \in Nat /\ now' \in Nat /\ now <= now'
    BY DashboardAssumption DEF DashboardInv, Typed, TypeOK, Time, Outside
<1>6. symbols' # None =>
         /\ symbols'.began <= symbols'.built /\ symbols'.built <= now'
         /\ Misses(symbols.value, symbols.began)'
    <2> SUFFICES ASSUME symbols # None
                 PROVE  /\ symbols.began <= symbols.built /\ symbols.built <= now'
                        /\ Misses(symbols.value, symbols.began)'
        BY DEF caches
    <2>1. /\ symbols.built \in Nat /\ symbols.began \in Nat
          /\ symbols.began <= symbols.built /\ symbols.built <= now
          /\ Misses(symbols.value, symbols.began)
        BY DashboardAssumption
        DEF DashboardInv, CachesInv, Typed, TypeOK, Entry, Time
    <2>2. symbols.began <= now
        BY <1>5, <2>1
    <2>3. Misses(symbols.value, symbols.began)'
        BY <2>1, <2>2, StillMisses DEF Misses, caches
    <2> QED BY <1>5, <2>1, <2>3
<1>7. walk' # None => walk'.began <= now' /\ Misses(walk.left \cup walk.found, walk.began)'
    <2> SUFFICES ASSUME walk # None
                 PROVE  walk.began <= now' /\ Misses(walk.left \cup walk.found, walk.began)'
        BY DEF caches
    <2>1. /\ walk.began \in Nat /\ walk.began <= now
          /\ Misses(walk.left \cup walk.found, walk.began)
        BY DashboardAssumption
        DEF DashboardInv, CachesInv, Typed, TypeOK, Entry, Time
    <2>2. Misses(walk.left \cup walk.found, walk.began)'
        BY <2>1, StillMisses DEF Misses, caches
    <2> QED BY <1>5, <2>1, <2>2
<1> QED BY <1>2, <1>3, <1>4, <1>6, <1>7 DEF CachesInv

-----------------------------------------------------------------------------
(* The steps *)

LEMMA InitEstablishes == Init => DashboardInv
<1> SUFFICES ASSUME Init PROVE DashboardInv
    OBVIOUS
<1>1. Blank \in Request
    BY DashboardAssumption DEF Blank, Request, Entry, Version
<1>2. /\ 0 \in Version /\ 1 \in Version /\ 0 \in Time /\ <<>> \in Seq(Label)
    BY DashboardAssumption DEF Version, Time
<1>3. TypeOK
    BY <1>2, DashboardAssumption DEF Init, TypeOK, Entry
<1>4. Typed
    BY <1>1, <1>2, <1>3 DEF Init, Typed
<1>5. CachesInv
    BY DEF Init, CachesInv, PageMatchesStamp, RowNotBehindBars
<1>6. Shaped(<<>>)
    BY <1>2 DEF Shaped, Linked, Ended, Sourced
<1>7. \A t \in Thread : RequestInv(todo[t], req[t])
    BY <1>6 DEF Init, RequestInv, Blank
<1> QED BY <1>4, <1>5, <1>7 DEF DashboardInv

LEMMA OutsideKeeps ==
    ASSUME DashboardInv, Tick \/ EditPage \/ (\E s \in Series : Write(s))
    PROVE  DashboardInv'
<1>1. UNCHANGED <<caches, page, todo, req>>
    BY DEF Tick, EditPage, Write
<1>2. Typed'
    <2>1. CASE Tick
        <3>1. now' \in Time
            BY <2>1, DashboardAssumption DEF DashboardInv, Typed, TypeOK, Tick, Time
        <3> QED BY <2>1, <3>1 DEF DashboardInv, Typed, TypeOK, Tick, files, caches
    <2>2. CASE EditPage
        <3>1. asset' \in Version /\ asset' <= writes' + 1 /\ writes' \in 0 .. MaxWrites
            BY <2>2, DashboardAssumption DEF DashboardInv, Typed, TypeOK, EditPage, Version
        <3>2. \A s \in Series : disk'[s] <= writes' + 1
            BY <2>2, DashboardAssumption DEF DashboardInv, Typed, TypeOK, EditPage, Version
        <3> QED BY <2>2, <3>1, <3>2 DEF DashboardInv, Typed, TypeOK, EditPage, caches
    <2>3. ASSUME NEW s \in Series, Write(s) PROVE Typed'
        <3>1. asset' <= writes' + 1 /\ writes' \in 0 .. MaxWrites
            BY <2>3, DashboardAssumption DEF DashboardInv, Typed, TypeOK, Write, Version
        <3>2. /\ disk' \in [Series -> Version] /\ born' \in [Series -> Time]
              /\ \A u \in Series : disk'[u] <= writes' + 1
            BY <2>3, DashboardAssumption DEF DashboardInv, Typed, TypeOK, Write, Version
        <3> QED BY <2>3, <3>1, <3>2 DEF DashboardInv, Typed, TypeOK, Write, caches
    <2> QED BY <2>1, <2>2, <2>3
<1>3. Outside
    BY DashboardAssumption
    DEF DashboardInv, Typed, TypeOK, Outside, Tick, EditPage, Write, Version, Time, files
<1>4. CachesInv'
    BY <1>1, <1>2, <1>3, CachesKeep
<1>5. ASSUME NEW u \in Thread PROVE RequestInv(todo[u], req[u])'
    BY <1>1, <1>2, <1>3, OthersKeep
<1> QED BY <1>2, <1>4, <1>5 DEF DashboardInv

LEMMA AcceptKeeps ==
    ASSUME DashboardInv, NEW t \in Thread, Accept(t)
    PROVE  DashboardInv'
<1>1. PICK route \in Routes, s \in Asked :
        /\ todo' = [todo EXCEPT ![t] = Program[route]]
        /\ req' = [req EXCEPT ![t] =
             [Blank EXCEPT !.route = route, !.series = s, !.key = s,
                           !.atDisk = disk[s], !.atAsset = asset]]
    BY DEF Accept
<1>r. PICK r : r = [Blank EXCEPT !.route = route, !.series = s, !.key = s,
                                 !.atDisk = disk[s], !.atAsset = asset]
    OBVIOUS
<1>2. /\ route \in DOMAIN Program /\ s \in Series /\ Shaped(Program[route])
      /\ Program[route] \in Seq(Label)
    BY ProgramsShaped, DashboardAssumption DEF Shaped
<1>3. /\ disk[s] \in Version /\ asset \in Version /\ 0 \in Version
    BY <1>2, DashboardAssumption DEF DashboardInv, Typed, TypeOK, Version
<1>4. /\ r.route = route /\ r.series = s /\ r.key = s /\ r.refused = None
      /\ r.bars = 0 /\ r.own = 0 /\ r.stamp = 0 /\ r.row = 0 /\ r.text = 0
      /\ r.atDisk = disk[s] /\ r.listed = {} /\ r.rows = {} /\ r.atAsset = asset
    BY <1>r DEF Blank
<1>5. r \in Request
    BY <1>2, <1>3, <1>r DEF Blank, Request, Entry
<1>6. todo'[t] = Program[route] /\ req'[t] = r
    BY <1>1, <1>r DEF DashboardInv, Typed
<1>7. UNCHANGED <<disk, born, asset, writes, now, lock, caches, page>> /\ served' \in 0 .. MaxRequests
    BY DashboardAssumption DEF Accept, files, DashboardInv, Typed, TypeOK
<1>8. Typed'
    <2>1. TypeOK'
        BY <1>7 DEF DashboardInv, Typed, TypeOK, caches
    <2>2. todo' \in [Thread -> Seq(Label)] /\ req' \in [Thread -> Request]
        BY <1>1, <1>2, <1>5, <1>r DEF DashboardInv, Typed
    <2>3. ASSUME NEW u \in Thread, todo'[u] # <<>>
          PROVE  req'[u].series \in Series /\ req'[u].key \in Series
        <3>1. CASE u = t
            BY <1>2, <1>4, <1>6, <3>1
        <3>2. CASE u # t
            BY <1>1, <2>3, <3>2 DEF DashboardInv, Typed
        <3> QED BY <3>1, <3>2
    <2> QED BY <1>7, <2>1, <2>2, <2>3 DEF DashboardInv, Typed
<1>9. Outside
    BY <1>7, DashboardAssumption
    DEF DashboardInv, Typed, TypeOK, Outside, Version, Time
<1>10. CachesInv'
    BY <1>7, <1>8, <1>9, CachesKeep
<1>11. RequestInv(todo[t], req[t])'
    <2>1. /\ disk'[s] = disk[s] /\ disk[s] \in Nat /\ 0 <= disk[s]
        BY <1>3, <1>7 DEF Version
    <2>2. /\ Program[route][1] \in {"statPage", "require", "findIndex", "findStats"}
          /\ route = "bars" => OnlyBars(Program[route])
        BY <1>2 DEF Program, OnlyBars
    <2> QED BY <1>2, <1>4, <1>6, <2>1, <2>2 DEF RequestInv
<1>12. \A u \in Thread \ {t} : todo'[u] = todo[u] /\ req'[u] = req[u]
    BY <1>1 DEF DashboardInv, Typed
<1> QED BY <1>8, <1>9, <1>10, <1>11, <1>12, OneThread

\* A step of one thread, and one that touches no cache.
LEMMA StepKeeps ==
    ASSUME DashboardInv, NEW t \in Thread, NEW q \in Seq(Label), NEW r \in Request,
           q # <<>> => r.series \in Series /\ r.key \in Series,
           todo' = [todo EXCEPT ![t] = q], req' = [req EXCEPT ![t] = r],
           UNCHANGED <<files, now>>, page # None => page' # None,
           TypeOK', CachesInv', RequestInv(q, r)'
    PROVE  DashboardInv'
<1>1. /\ todo'[t] = q /\ req'[t] = r
      /\ \A u \in Thread \ {t} : todo'[u] = todo[u] /\ req'[u] = req[u]
    BY DEF DashboardInv, Typed
<1>2. todo' \in [Thread -> Seq(Label)] /\ req' \in [Thread -> Request]
    BY DEF DashboardInv, Typed
<1>3. ASSUME NEW u \in Thread, todo'[u] # <<>>
      PROVE  req'[u].series \in Series /\ req'[u].key \in Series
    <2>1. CASE u = t
        BY <1>1, <1>3, <2>1
    <2>2. CASE u # t
        BY <1>1, <1>3, <2>2 DEF DashboardInv, Typed
    <2> QED BY <2>1, <2>2
<1>4. Typed'
    BY <1>2, <1>3 DEF DashboardInv, Typed, files
<1>5. Outside
    BY DashboardAssumption
    DEF Outside, files, DashboardInv, Typed, TypeOK, Version, Time
<1>6. RequestInv(todo[t], req[t])'
    BY <1>1 DEF RequestInv
<1> QED BY <1>1, <1>4, <1>5, <1>6, OneThread

LEMMA QuietStep ==
    ASSUME DashboardInv, NEW t \in Thread, NEW q \in Seq(Label), NEW r \in Request,
           q # <<>> => r.series \in Series /\ r.key \in Series,
           todo' = [todo EXCEPT ![t] = q], req' = [req EXCEPT ![t] = r],
           UNCHANGED <<files, now, caches, page, served>>,
           lock' \in Entry(Thread), RequestInv(q, r)
    PROVE  DashboardInv'
<1>1. TypeOK'
    BY DEF DashboardInv, Typed, TypeOK, files, caches
<1>2. CachesInv'
    BY DEF DashboardInv, CachesInv, Misses, PageMatchesStamp, RowNotBehindBars, files, caches
<1>3. RequestInv(q, r)'
    BY DEF RequestInv, files
<1> QED BY <1>1, <1>2, <1>3, StepKeeps

\* What a thread at a step starts from.
LEMMA Here ==
    ASSUME DashboardInv, NEW t \in Thread, NEW x, At(t, x)
    PROVE  /\ todo[t] # <<>> /\ todo[t][1] = x /\ Shaped(todo[t])
           /\ todo[t] \in Seq(Label) /\ RequestInv(todo[t], req[t])
           /\ req[t] \in Request /\ req[t].series \in Series /\ req[t].key \in Series
           /\ disk[req[t].key] \in Version /\ disk[req[t].series] \in Version
           /\ asset \in Version /\ now \in Time /\ Version \subseteq Nat /\ Time \subseteq Nat
           /\ 0 \in Version
           /\ todo' = [todo EXCEPT ![t] = Tail(@)] => todo' = [todo EXCEPT ![t] = Tail(todo[t])]
           /\ UNCHANGED req => req' = [req EXCEPT ![t] = req[t]]
<1>1. todo[t] # <<>> /\ Head(todo[t]) = x /\ todo[t] \in Seq(Label)
    BY DEF At, DashboardInv, Typed
<1>2. todo[t][1] = x
    BY <1>1
<1>3. RequestInv(todo[t], req[t]) /\ Shaped(todo[t])
    BY DEF DashboardInv, RequestInv
<1>4. req[t] \in Request /\ req[t].series \in Series /\ req[t].key \in Series
    BY <1>1 DEF DashboardInv, Typed
<1>5. /\ disk[req[t].key] \in Version /\ disk[req[t].series] \in Version
      /\ asset \in Version /\ now \in Time /\ Version \subseteq Nat /\ Time \subseteq Nat
      /\ 0 \in Version
    BY <1>4, DashboardAssumption DEF DashboardInv, Typed, TypeOK, Version, Time
<1>6. UNCHANGED req => req' = [req EXCEPT ![t] = req[t]]
    BY DEF DashboardInv, Typed
<1> QED BY <1>1, <1>2, <1>3, <1>4, <1>5, <1>6

\* What a thread goes on with after a step.
LEMMA Onward ==
    ASSUME DashboardInv, NEW t \in Thread, NEW x, At(t, x), x \notin {"reply", "replyHeld"}
    PROVE  LET q == Tail(todo[t]) IN
           /\ Shaped(q) /\ q # <<>> /\ q \in Seq(Label) /\ q[1] \in Follow[x]
           /\ SourceAhead(q) => SourceAhead(todo[t])
           /\ x = "source" => ~SourceAhead(q)
           /\ OnlyBars(todo[t]) => OnlyBars(q)
<1>1. Shaped(todo[t]) /\ todo[t] # <<>> /\ todo[t][1] = x
    BY Here
<1> QED BY <1>1, Advanced

LEMMA StatKeeps ==
    ASSUME DashboardInv, NEW t \in Thread, Stat(t)
    PROVE  DashboardInv'
<1>1. PICK q, r : q = Tail(todo[t]) /\ r = [req[t] EXCEPT !.stamp = disk[req[t].key]]
    OBVIOUS
<1>2. At(t, "stat")
    BY DEF Stat
<1>3. /\ Shaped(q) /\ q # <<>> /\ q \in Seq(Label) /\ q[1] = "lookup"
      /\ SourceAhead(q) => SourceAhead(todo[t])
      /\ OnlyBars(todo[t]) => OnlyBars(q)
    BY <1>1, <1>2, Onward DEF Follow
<1>4. /\ r \in Request /\ r.stamp = disk[r.key]
      /\ r.key = req[t].key /\ r.series = req[t].series /\ r.bars = req[t].bars
      /\ r.own = req[t].own /\ r.atDisk = req[t].atDisk /\ r.route = req[t].route
      /\ r.refused = req[t].refused
    <2>1. req[t] \in Request /\ disk[req[t].key] \in Version
        BY <1>2, Here
    <2> QED BY <1>1, <2>1 DEF Request
<1>5. req[t].refused = None
    BY <1>2, Here DEF RequestInv
<1>6. RequestInv(q, r)
    BY <1>2, <1>3, <1>4, <1>5, Here DEF RequestInv
<1>7. todo' = [todo EXCEPT ![t] = q] /\ req' = [req EXCEPT ![t] = r]
    BY <1>1, <1>2, Here DEF Stat, Advance, Note
<1> QED BY <1>2, <1>3, <1>4, <1>6, <1>7, Here, QuietStep DEF Stat, DashboardInv, Typed, TypeOK

LEMMA LoadKeeps ==
    ASSUME DashboardInv, NEW t \in Thread, Load(t)
    PROVE  DashboardInv'
<1>1. PICK q, r : q = Tail(todo[t]) /\ r = [req[t] EXCEPT !.bars = disk[req[t].key]]
    OBVIOUS
<1>2. At(t, "load")
    BY DEF Load
<1>3. /\ Shaped(q) /\ q # <<>> /\ q \in Seq(Label) /\ q[1] = "keep"
      /\ SourceAhead(q) => SourceAhead(todo[t])
      /\ OnlyBars(todo[t]) => OnlyBars(q)
    BY <1>1, <1>2, Onward DEF Follow
<1>4. /\ r \in Request /\ r.bars = disk[r.key]
      /\ r.key = req[t].key /\ r.series = req[t].series /\ r.stamp = req[t].stamp
      /\ r.own = req[t].own /\ r.atDisk = req[t].atDisk /\ r.route = req[t].route
      /\ r.refused = req[t].refused
    <2>1. req[t] \in Request /\ disk[req[t].key] \in Version
        BY <1>2, Here
    <2> QED BY <1>1, <2>1 DEF Request
<1>5. req[t].refused = None
    BY <1>2, Here DEF RequestInv
<1>6. RequestInv(q, r)
    BY <1>2, <1>3, <1>4, <1>5, Here DEF RequestInv
<1>7. todo' = [todo EXCEPT ![t] = q] /\ req' = [req EXCEPT ![t] = r]
    BY <1>1, <1>2, Here DEF Load, Advance, Note
<1> QED BY <1>2, <1>3, <1>4, <1>6, <1>7, Here, QuietStep DEF Load, DashboardInv, Typed, TypeOK

LEMMA LookupKeeps ==
    ASSUME DashboardInv, NEW t \in Thread, Lookup(t)
    PROVE  DashboardInv'
<1>1. At(t, "lookup")
    BY DEF Lookup
<1>2. req[t].refused = None
    BY <1>1, Here DEF RequestInv
<1>3. CASE Hit(kept[req[t].key], req[t].stamp)
    <2>1. PICK q, r : /\ q = SubSeq(todo[t], 3 + 1, Len(todo[t]))
                      /\ r = [req[t] EXCEPT !.bars = kept[req[t].key].bars, !.stamp = 0]
        OBVIOUS
    <2>2. /\ Shaped(q) /\ q # <<>> /\ q \in Seq(Label)
          /\ q[1] \in {"reply", "source", "statsRow", "findIndex"}
          /\ SourceAhead(q) => SourceAhead(todo[t])
          /\ OnlyBars(todo[t]) => OnlyBars(q)
        <3>1. Shaped(todo[t]) /\ todo[t] # <<>> /\ todo[t][1] = "lookup"
            BY <1>1, Here
        <3>2. 3 \in 1 .. Len(todo[t]) /\ 3 < Len(todo[t]) /\ todo[t][3] = "keep"
            BY <3>1, LookupLeads
        <3>3. Follow["keep"] = {"reply", "source", "statsRow", "findIndex"}
            BY DEF Follow
        <3>4. /\ Shaped(q) /\ q # <<>> /\ q \in Seq(Label) /\ q[1] \in Follow[todo[t][3]]
              /\ SourceAhead(q) => SourceAhead(todo[t])
              /\ OnlyBars(todo[t]) => OnlyBars(q)
            BY <2>1, <3>1, <3>2, Skipped
        <3> QED BY <3>2, <3>3, <3>4
    <2>3. LET e == kept[req[t].key] IN
          /\ e \in Loaded /\ e.stamp = req[t].stamp
          /\ e.bars >= e.stamp /\ e.bars <= disk[req[t].key]
        <3>1. req[t].key \in Series
            BY <1>1, Here
        <3> QED BY <1>3, <3>1 DEF DashboardInv, Typed, TypeOK, CachesInv, Hit, Fresh, Entry
    <2>4. /\ r \in Request /\ r.bars <= disk[r.key] /\ r.bars >= req[t].stamp
          /\ r.key = req[t].key /\ r.series = req[t].series /\ r.stamp = 0
          /\ r.own = req[t].own /\ r.atDisk = req[t].atDisk /\ r.route = req[t].route
          /\ r.refused = req[t].refused /\ r.bars \in Nat /\ r.atDisk \in Nat
          /\ req[t].stamp \in Nat
        <3>1. req[t] \in Request /\ kept[req[t].key].bars \in Version /\ 0 \in Version
              /\ Version \subseteq Nat
            BY <1>1, <2>3, Here DEF Loaded
        <3> QED BY <2>1, <2>3, <3>1 DEF Request
    <2>5. r.route = "bars" => r.atDisk <= req[t].stamp
        BY <1>1, <2>4, Here DEF RequestInv
    <2>6. RequestInv(q, r)
        BY <1>1, <1>2, <2>2, <2>4, <2>5, Here DEF RequestInv
    <2>7. todo' = [todo EXCEPT ![t] = q] /\ req' = [req EXCEPT ![t] = r]
        BY <1>3, <2>1 DEF Lookup, Skip, Note
    <2> QED BY <1>1, <2>2, <2>4, <2>6, <2>7, Here, QuietStep
            DEF Lookup, DashboardInv, Typed, TypeOK
<1>4. CASE ~ Hit(kept[req[t].key], req[t].stamp)
    <2>1. PICK q, r : q = Tail(todo[t]) /\ r = req[t]
        OBVIOUS
    <2>2. /\ Shaped(q) /\ q # <<>> /\ q \in Seq(Label) /\ q[1] = "load"
          /\ SourceAhead(q) => SourceAhead(todo[t])
          /\ OnlyBars(todo[t]) => OnlyBars(q)
        BY <1>1, <2>1, Onward DEF Follow
    <2>3. RequestInv(q, r)
        BY <1>1, <1>2, <2>1, <2>2, Here DEF RequestInv
    <2>4. todo' = [todo EXCEPT ![t] = q] /\ req' = [req EXCEPT ![t] = r]
        BY <1>1, <1>4, <2>1, Here DEF Lookup, Advance
    <2> QED BY <1>1, <2>1, <2>2, <2>3, <2>4, Here, QuietStep
            DEF Lookup, DashboardInv, Typed, TypeOK
<1> QED BY <1>3, <1>4

LEMMA StatsRowKeeps ==
    ASSUME DashboardInv, NEW t \in Thread, StatsRow(t)
    PROVE  DashboardInv'
<1>1. PICK q, r : q = Tail(todo[t]) /\ r = [req[t] EXCEPT !.row = disk[req[t].series]]
    OBVIOUS
<1>2. At(t, "statsRow")
    BY DEF StatsRow
<1>3. /\ Shaped(q) /\ q # <<>> /\ q \in Seq(Label) /\ q[1] = "keepStats"
      /\ SourceAhead(q) => SourceAhead(todo[t])
      /\ OnlyBars(todo[t]) => OnlyBars(q)
    BY <1>1, <1>2, Onward DEF Follow
<1>4. /\ r \in Request /\ r.row = disk[r.series]
      /\ r.key = req[t].key /\ r.series = req[t].series /\ r.stamp = req[t].stamp
      /\ r.bars = req[t].bars /\ r.own = req[t].own /\ r.atDisk = req[t].atDisk
      /\ r.route = req[t].route /\ r.refused = req[t].refused /\ r.text = req[t].text
    <2>1. req[t] \in Request /\ disk[req[t].key] \in Version /\ 0 \in Version
          /\ disk[req[t].series] \in Version /\ asset \in Version
        BY <1>2, Here
    <2> QED BY <1>1, <2>1 DEF Request
<1>5. req[t].refused = None /\ (req[t].route = "bars" => OnlyBars(todo[t]))
    BY <1>2, Here DEF RequestInv
<1>6. RequestInv(q, r)
    BY <1>2, <1>3, <1>4, <1>5, Here DEF RequestInv
<1>7. todo' = [todo EXCEPT ![t] = q] /\ req' = [req EXCEPT ![t] = r]
    BY <1>1, <1>2, Here DEF StatsRow, Advance, Note
<1> QED BY <1>2, <1>3, <1>4, <1>6, <1>7, Here, QuietStep DEF StatsRow, DashboardInv, Typed, TypeOK

LEMMA StatPageKeeps ==
    ASSUME DashboardInv, NEW t \in Thread, StatPage(t)
    PROVE  DashboardInv'
<1>1. PICK q, r : q = Tail(todo[t]) /\ r = [req[t] EXCEPT !.stamp = asset]
    OBVIOUS
<1>2. At(t, "statPage")
    BY DEF StatPage
<1>3. /\ Shaped(q) /\ q # <<>> /\ q \in Seq(Label) /\ q[1] = "checkPage"
      /\ SourceAhead(q) => SourceAhead(todo[t])
      /\ OnlyBars(todo[t]) => OnlyBars(q)
    BY <1>1, <1>2, Onward DEF Follow
<1>4. /\ r \in Request /\ r.stamp = asset
      /\ r.key = req[t].key /\ r.series = req[t].series /\ r.bars = req[t].bars
      /\ r.own = req[t].own /\ r.row = req[t].row /\ r.atDisk = req[t].atDisk
      /\ r.route = req[t].route /\ r.refused = req[t].refused /\ r.text = req[t].text
    <2>1. req[t] \in Request /\ disk[req[t].key] \in Version /\ 0 \in Version
          /\ disk[req[t].series] \in Version /\ asset \in Version
        BY <1>2, Here
    <2> QED BY <1>1, <2>1 DEF Request
<1>5. req[t].refused = None /\ (req[t].route = "bars" => OnlyBars(todo[t]))
    BY <1>2, Here DEF RequestInv
<1>6. RequestInv(q, r)
    BY <1>2, <1>3, <1>4, <1>5, Here DEF RequestInv
<1>7. todo' = [todo EXCEPT ![t] = q] /\ req' = [req EXCEPT ![t] = r]
    BY <1>1, <1>2, Here DEF StatPage, Advance, Note
<1> QED BY <1>2, <1>3, <1>4, <1>6, <1>7, Here, QuietStep DEF StatPage, DashboardInv, Typed, TypeOK

LEMMA NotForBars ==
    ASSUME DashboardInv, NEW t \in Thread, NEW x, At(t, x),
           x \notin {"require", "stat", "lookup", "load", "keep", "reply"}
    PROVE  req[t].refused = None /\ req[t].route # "bars"
<1>1. /\ todo[t] # <<>> /\ todo[t][1] = x /\ 1 \in 1 .. Len(todo[t])
      /\ RequestInv(todo[t], req[t])
    BY Here
<1>2. req[t].refused = None
    BY <1>1 DEF RequestInv
<1>3. ~ OnlyBars(todo[t])
    BY <1>1 DEF OnlyBars
<1> QED BY <1>1, <1>2, <1>3 DEF RequestInv

LEMMA FindIndexKeeps ==
    ASSUME DashboardInv, NEW t \in Thread, FindIndex(t)
    PROVE  DashboardInv'
<1>1. At(t, "findIndex")
    BY DEF FindIndex
<1>2. Shaped(todo[t]) /\ todo[t] # <<>> /\ todo[t][1] = "findIndex"
    BY <1>1, Here
<1>3. PICK q, r :
        /\ r = req[t] /\ q \in {Tail(todo[t]), SubSeq(todo[t], 4 + 1, Len(todo[t]))}
        /\ todo' = [todo EXCEPT ![t] = q]
    BY DEF FindIndex, Advance, Skip
<1>4. /\ Shaped(q) /\ q # <<>> /\ q \in Seq(Label)
      /\ q[1] \in {"listing", "reply", "statPage"}
      /\ SourceAhead(q) => SourceAhead(todo[t])
      /\ OnlyBars(todo[t]) => OnlyBars(q)
    <2>1. CASE q = Tail(todo[t])
        BY <1>2, <2>1, Advanced DEF Follow
    <2>2. CASE q = SubSeq(todo[t], 4 + 1, Len(todo[t]))
        <3>1. 4 \in 1 .. Len(todo[t]) /\ 4 < Len(todo[t]) /\ todo[t][4] = "keepIndex"
            BY <1>2, FindIndexLeads
        <3>2. Follow["keepIndex"] = {"reply", "statPage"}
            BY DEF Follow
        <3>3. /\ Shaped(q) /\ q # <<>> /\ q \in Seq(Label) /\ q[1] \in Follow[todo[t][4]]
              /\ SourceAhead(q) => SourceAhead(todo[t])
              /\ OnlyBars(todo[t]) => OnlyBars(q)
            BY <1>2, <2>2, <3>1, Skipped
        <3> QED BY <3>1, <3>2, <3>3
    <2> QED BY <1>3, <2>1, <2>2
<1>5. r.refused = None /\ r.route # "bars"
    BY <1>1, <1>3, NotForBars
<1>6. RequestInv(q, r)
    BY <1>1, <1>3, <1>4, <1>5, Here DEF RequestInv
<1>7. req' = [req EXCEPT ![t] = r]
    BY <1>1, <1>3, Here DEF FindIndex
<1> QED BY <1>1, <1>3, <1>4, <1>6, <1>7, Here, QuietStep
        DEF FindIndex, DashboardInv, Typed, TypeOK

LEMMA RowKeeps ==
    ASSUME DashboardInv, NEW t \in Thread, Row(t)
    PROVE  DashboardInv'
<1>1. At(t, "row")
    BY DEF Row
<1>2. Shaped(todo[t]) /\ todo[t] # <<>> /\ todo[t][1] = "row" /\ req[t] \in Request
    BY <1>1, Here
<1>3. req[t].refused = None /\ req[t].route # "bars"
    BY <1>1, NotForBars
<1>4. CASE req[t].listed = {}
    <2>1. PICK q, r : q = Tail(todo[t]) /\ r = req[t]
        OBVIOUS
    <2>2. /\ Shaped(q) /\ q # <<>> /\ q \in Seq(Label) /\ q[1] = "keepIndex"
          /\ SourceAhead(q) => SourceAhead(todo[t])
        BY <1>2, <2>1, Advanced DEF Follow
    <2>3. RequestInv(q, r)
        BY <1>1, <1>3, <2>1, <2>2, Here DEF RequestInv
    <2>4. todo' = [todo EXCEPT ![t] = q] /\ req' = [req EXCEPT ![t] = r]
        BY <1>1, <1>4, <2>1, Here DEF Row, Advance
    <2> QED BY <1>1, <2>1, <2>2, <2>3, <2>4, Here, QuietStep
            DEF Row, DashboardInv, Typed, TypeOK
<1>5. CASE req[t].listed # {}
    <2>1. PICK s \in req[t].listed :
            req' = [req EXCEPT ![t] = [req[t] EXCEPT !.listed = @ \ {s},
                                                     !.rows = @ \cup {<<s, disk[s]>>}]]
        BY <1>5 DEF Row, Note
    <2>2. PICK q, r : /\ q = todo[t]
                      /\ r = [req[t] EXCEPT !.listed = @ \ {s},
                                            !.rows = @ \cup {<<s, disk[s]>>}]
        OBVIOUS
    <2>3. <<s, disk[s]>> \in Series \X Version
        <3>1. s \in Series
            BY <1>2, <2>1 DEF Request
        <3> QED BY <3>1 DEF DashboardInv, Typed, TypeOK
    <2>4. /\ r \in Request /\ r.key = req[t].key /\ r.series = req[t].series
          /\ r.bars = req[t].bars /\ r.own = req[t].own /\ r.route = req[t].route
          /\ r.refused = req[t].refused
        BY <1>2, <2>2, <2>3 DEF Request
    <2>5. RequestInv(q, r)
        BY <1>1, <1>2, <1>3, <2>2, <2>4, Here DEF RequestInv
    <2>6. todo' = [todo EXCEPT ![t] = q] /\ req' = [req EXCEPT ![t] = r]
        BY <1>5, <2>1, <2>2 DEF Row, DashboardInv, Typed
    <2>7. UNCHANGED <<files, now, caches, page, served>> /\ lock' \in Entry(Thread)
        BY DEF Row, DashboardInv, Typed, TypeOK
    <2>8. r.series \in Series /\ r.key \in Series /\ q \in Seq(Label)
        BY <1>1, <2>2, <2>4, Here
    <2> QED BY <2>4, <2>5, <2>6, <2>7, <2>8, QuietStep
<1> QED BY <1>4, <1>5

LEMMA FindStatsKeeps ==
    ASSUME DashboardInv, NEW t \in Thread, FindStats(t)
    PROVE  DashboardInv'
<1>1. At(t, "findStats")
    BY DEF FindStats
<1>2. Shaped(todo[t]) /\ todo[t] # <<>> /\ todo[t][1] = "findStats"
    BY <1>1, Here
<1>3. PICK q, r : /\ r = req[t] /\ q \in {Tail(todo[t]), <<"replyHeld">>}
                  /\ todo' = [todo EXCEPT ![t] = q]
    BY DEF FindStats, Advance
<1>4. lock' \in Entry(Thread)
    BY DEF FindStats, DashboardInv, Typed, TypeOK, Entry
<1>5. /\ Shaped(q) /\ q # <<>> /\ q \in Seq(Label) /\ q[1] \in {"require", "replyHeld"}
      /\ SourceAhead(q) => SourceAhead(todo[t])
    <2>1. CASE q = Tail(todo[t])
        BY <1>2, <2>1, Advanced DEF Follow
    <2>2. CASE q = <<"replyHeld">>
        BY <2>2, RepliesShaped DEF Shaped, SourceAhead
    <2> QED BY <1>3, <2>1, <2>2
<1>6. r.refused = None /\ r.route # "bars"
    BY <1>1, <1>3, NotForBars
<1>7. RequestInv(q, r)
    BY <1>1, <1>3, <1>5, <1>6, Here DEF RequestInv
<1>8. req' = [req EXCEPT ![t] = r]
    BY <1>1, <1>3, Here DEF FindStats
<1> QED BY <1>1, <1>3, <1>4, <1>5, <1>7, <1>8, Here, QuietStep DEF FindStats

LEMMA CheckPageKeeps ==
    ASSUME DashboardInv, NEW t \in Thread, CheckPage(t)
    PROVE  DashboardInv'
<1>1. At(t, "checkPage")
    BY DEF CheckPage
<1>2. Shaped(todo[t]) /\ todo[t] # <<>> /\ todo[t][1] = "checkPage"
    BY <1>1, Here
<1>3. PICK q, r :
        /\ r = [req[t] EXCEPT !.text = 0]
        /\ \/ page # None /\ q = SubSeq(todo[t], 2 + 1, Len(todo[t]))
           \/ q = Tail(todo[t])
        /\ todo' = [todo EXCEPT ![t] = q]
    BY DEF CheckPage, Advance, Skip
<1>4. /\ Shaped(q) /\ q # <<>> /\ q \in Seq(Label)
      /\ q[1] = "readPage" \/ (page # None /\ q[1] = "takePage")
      /\ SourceAhead(q) => SourceAhead(todo[t])
    <2>1. CASE q = Tail(todo[t])
        BY <1>2, <2>1, Advanced DEF Follow
    <2>2. CASE page # None /\ q = SubSeq(todo[t], 2 + 1, Len(todo[t]))
        BY <1>2, <2>2, CheckPageLeads, Skipped
    <2> QED BY <1>3, <2>1, <2>2
<1>5. req[t].refused = None /\ req[t].route # "bars"
    BY <1>1, NotForBars
<1>6. /\ r \in Request /\ r.text = 0
      /\ r.key = req[t].key /\ r.series = req[t].series /\ r.stamp = req[t].stamp
      /\ r.bars = req[t].bars /\ r.own = req[t].own /\ r.route = req[t].route
      /\ r.refused = req[t].refused
    <2>1. req[t] \in Request /\ 0 \in Version
        BY <1>1, Here
    <2> QED BY <1>3, <2>1 DEF Request
<1>7. RequestInv(q, r)
    BY <1>1, <1>2, <1>4, <1>5, <1>6, Here DEF RequestInv
<1>8. req' = [req EXCEPT ![t] = r]
    BY <1>3 DEF CheckPage, Note
<1>9. UNCHANGED <<files, now, caches, page, served>> /\ lock' \in Entry(Thread)
    BY DEF CheckPage, DashboardInv, Typed, TypeOK
<1>10. r.series \in Series /\ r.key \in Series
    BY <1>1, <1>6, Here
<1> QED BY <1>3, <1>4, <1>6, <1>7, <1>8, <1>9, <1>10, QuietStep

LEMMA TakePageKeeps ==
    ASSUME DashboardInv, NEW t \in Thread, TakePage(t)
    PROVE  DashboardInv'
<1>1. At(t, "takePage")
    BY DEF TakePage
<1>2. Shaped(todo[t]) /\ todo[t] # <<>> /\ todo[t][1] = "takePage"
    BY <1>1, Here
<1>3. PICK q, r : q = Tail(todo[t]) /\ r = [req[t] EXCEPT !.text = page.text]
    OBVIOUS
<1>4. /\ Shaped(q) /\ q # <<>> /\ q \in Seq(Label) /\ q[1] = "reply"
      /\ SourceAhead(q) => SourceAhead(todo[t])
    BY <1>2, <1>3, Advanced DEF Follow
<1>5. req[t].refused = None /\ req[t].route # "bars"
    BY <1>1, NotForBars
<1>6. page.text \in Version
    <2>1. page # None
        BY <1>1, <1>2, Here DEF RequestInv
    <2> QED BY <2>1 DEF DashboardInv, Typed, TypeOK, Entry, Texts
<1>7. /\ r \in Request
      /\ r.key = req[t].key /\ r.series = req[t].series /\ r.stamp = req[t].stamp
      /\ r.bars = req[t].bars /\ r.own = req[t].own /\ r.route = req[t].route
      /\ r.refused = req[t].refused
    <2>1. req[t] \in Request
        BY <1>1, Here
    <2> QED BY <1>3, <1>6, <2>1 DEF Request
<1>8. RequestInv(q, r)
    BY <1>1, <1>4, <1>5, <1>7, Here DEF RequestInv
<1>9. todo' = [todo EXCEPT ![t] = q] /\ req' = [req EXCEPT ![t] = r]
    BY <1>3 DEF TakePage, Note, Advance
<1> QED BY <1>1, <1>4, <1>7, <1>8, <1>9, Here, QuietStep
        DEF TakePage, DashboardInv, Typed, TypeOK

LEMMA ReplyKeeps ==
    ASSUME DashboardInv, NEW t \in Thread, Reply(t)
    PROVE  DashboardInv'
<1>1. PICK x \in {"reply", "replyHeld"} : At(t, x)
    BY DEF Reply
<1>2. Tail(todo[t]) = <<>>
    BY <1>1, Here, LastStep
<1>3. PICK q, r : q = <<>> /\ r = Blank
    OBVIOUS
<1>4. q \in Seq(Label) /\ r \in Request /\ r.refused = None
    BY <1>3, DashboardAssumption DEF Blank, Request, Entry, Version
<1>5. RequestInv(q, r)
    <2>1. Shaped(q)
        BY <1>3 DEF Shaped, Linked, Ended, Sourced
    <2> QED BY <1>3, <1>4, <2>1 DEF RequestInv
<1>6. todo' = [todo EXCEPT ![t] = q] /\ req' = [req EXCEPT ![t] = r]
    BY <1>2, <1>3 DEF Reply, Advance, Note
<1>7. lock' \in Entry(Thread)
    BY DEF Reply, DashboardInv, Typed, TypeOK, Entry
<1> QED BY <1>3, <1>4, <1>5, <1>6, <1>7, QuietStep DEF Reply

\* What series() returns is a listing that was begun before it was stamped, and
\* what it misses got its file since.
LEMMA ListingIs ==
    ASSUME DashboardInv, NEW t \in Thread, List(t)
    PROVE  /\ Listing \in [value : SUBSET Series, began : Time, built : Time]
           /\ Listing.began <= Listing.built /\ Listing.built <= now
           /\ now - Listing.built < CacheSeconds
           /\ Misses(Listing.value, Listing.began)
<1>1. now \in Time /\ now \in Nat
    BY DashboardAssumption DEF DashboardInv, Typed, TypeOK, Time
<1>2. CASE walk = None
    <2>1. Listing = symbols /\ Fresh(symbols)
        BY <1>2 DEF List, Listing
    <2> QED BY <2>1 DEF Fresh, DashboardInv, Typed, TypeOK, CachesInv, Entry
<1>3. CASE walk # None
    <2>1. /\ walk \in [left : SUBSET Series, found : SUBSET Series, began : Time]
          /\ walk.left = {} /\ walk.began <= now
          /\ Misses(walk.left \cup walk.found, walk.began)
        BY <1>3 DEF List, DashboardInv, Typed, TypeOK, CachesInv, Entry
    <2>2. Listing = [value |-> walk.found, began |-> walk.began, built |-> now]
        BY <1>3 DEF Listing
    <2>3. Misses(walk.found, walk.began)
        BY <2>1 DEF Misses
    <2> QED BY <1>1, <2>1, <2>2, <2>3, DashboardAssumption
<1> QED BY <1>2, <1>3

\* Who is missing in it has had no file for a cache window and the walk.
LEMMA ListingMisses ==
    ASSUME DashboardInv, NEW t \in Thread, List(t), NEW s \in Series, s \notin Listing.value
    PROVE  \/ disk[s] = 0
           \/ now - born[s] < CacheSeconds + (Listing.built - Listing.began)
<1>l. Listing \in [value : SUBSET Series, began : Time, built : Time]
    BY ListingIs
<1>1. /\ disk[s] \in Nat /\ now \in Nat /\ born[s] \in Nat /\ CacheSeconds \in Nat
      /\ Listing.built \in Nat /\ Listing.began \in Nat
    BY <1>l, DashboardAssumption DEF DashboardInv, Typed, TypeOK, Version, Time
<1>2. disk[s] > 0 => born[s] >= Listing.began
    BY ListingIs DEF Misses
<1>3. now - Listing.built < CacheSeconds
    BY ListingIs
<1> HIDE DEF Listing
<1> QED BY <1>1, <1>2, <1>3

LEMMA ListKeeps ==
    ASSUME DashboardInv, NEW t \in Thread, List(t),
           UNCHANGED <<files, now, kept, index, stats, page, served>>
    PROVE  TypeOK' /\ CachesInv'
<1>1. /\ symbols' \in [value : SUBSET Series, began : Time, built : Time]
      /\ symbols'.began <= symbols'.built /\ symbols'.built <= now
      /\ Misses(symbols'.value, symbols'.began)
    BY ListingIs DEF List
<1>2. walk' = None /\ lock' = None
    BY DEF List
<1>3. TypeOK'
    BY <1>1, <1>2 DEF DashboardInv, Typed, TypeOK, Entry, files
<1>4. CachesInv'
    BY <1>1, <1>2
    DEF DashboardInv, CachesInv, Misses, PageMatchesStamp, RowNotBehindBars, files
<1> QED BY <1>3, <1>4

\* The walk reads one series after the other; what it found missing and what
\* is born since is born after it began.
LEMMA WalkKeeps ==
    ASSUME DashboardInv, NEW t \in Thread, Walk(t)
    PROVE  DashboardInv'
<1>1. PICK x \in {"require", "listing", "source"} : At(t, x)
    BY DEF Walk
<1>2. UNCHANGED <<files, now, symbols, kept, index, stats, page, todo, req, served>>
    BY DEF Walk
<1>3. /\ walk' \in [left : SUBSET Series, found : SUBSET Series, began : Time]
      /\ lock' \in Entry(Thread) /\ walk'.began <= now
      /\ Misses(walk'.left \cup walk'.found, walk'.began)
    <2>1. now \in Time /\ now \in Nat
        BY DashboardAssumption DEF DashboardInv, Typed, TypeOK, Time
    <2>2. CASE walk' = [left |-> Series, found |-> {}, began |-> now] /\ lock' = t
        <3>1. Misses(walk'.left \cup walk'.found, walk'.began)
            BY <2>2 DEF Misses
        <3> QED BY <2>1, <2>2, <3>1 DEF Entry
    <2>3. ASSUME walk # None, NEW s \in walk.left, UNCHANGED lock,
                 walk' = [walk EXCEPT !.left = @ \ {s},
                                      !.found = @ \cup {u \in {s} : disk[u] > 0}]
          PROVE  /\ walk' \in [left : SUBSET Series, found : SUBSET Series, began : Time]
                 /\ lock' \in Entry(Thread) /\ walk'.began <= now
                 /\ Misses(walk'.left \cup walk'.found, walk'.began)
        <3>1. /\ walk \in [left : SUBSET Series, found : SUBSET Series, began : Time]
              /\ walk.began <= now /\ Misses(walk.left \cup walk.found, walk.began)
            BY <2>3 DEF DashboardInv, Typed, TypeOK, CachesInv, Entry
        <3>2. Misses(walk'.left \cup walk'.found, walk'.began)
            BY <2>3, <3>1 DEF Misses
        <3> QED BY <2>3, <3>1, <3>2 DEF DashboardInv, Typed, TypeOK
    <2> QED BY <2>2, <2>3 DEF Walk
<1>4. TypeOK'
    BY <1>2, <1>3 DEF DashboardInv, Typed, TypeOK, Entry, files
<1>5. CachesInv'
    BY <1>2, <1>3 DEF DashboardInv, CachesInv, Misses, PageMatchesStamp, RowNotBehindBars, files
<1>6. RequestInv(todo[t], req[t])'
    BY <1>1, <1>2, Here DEF RequestInv, files
<1>7. todo' = [todo EXCEPT ![t] = todo[t]] /\ req' = [req EXCEPT ![t] = req[t]]
    BY <1>2 DEF DashboardInv, Typed
<1> QED BY <1>1, <1>2, <1>4, <1>5, <1>6, <1>7, Here, StepKeeps

LEMMA RequireKeeps ==
    ASSUME DashboardInv, NEW t \in Thread, Require(t)
    PROVE  DashboardInv'
<1>1. At(t, "require")
    BY DEF Require
<1>l. List(t)
    BY DEF Require
<1>2. TypeOK' /\ CachesInv'
    BY <1>l, ListKeeps DEF Require
<1>3. req[t].refused = None
    BY <1>1, Here DEF RequestInv
<1>4. CASE req[t].key \in Listing.value
    <2>1. PICK q, r : q = Tail(todo[t]) /\ r = req[t]
        OBVIOUS
    <2>2. /\ Shaped(q) /\ q # <<>> /\ q \in Seq(Label) /\ q[1] \in {"require", "stat"}
          /\ SourceAhead(q) => SourceAhead(todo[t])
          /\ OnlyBars(todo[t]) => OnlyBars(q)
        BY <1>1, <2>1, Onward DEF Follow
    <2>3. RequestInv(q, r)
        BY <1>1, <1>3, <2>1, <2>2, Here DEF RequestInv
    <2>4. todo' = [todo EXCEPT ![t] = q] /\ req' = [req EXCEPT ![t] = r]
        BY <1>1, <1>4, <2>1, Here DEF Require, Advance
    <2>5. RequestInv(q, r)'
        BY <2>3 DEF RequestInv, Require, files
    <2> QED BY <1>1, <1>2, <2>1, <2>2, <2>4, <2>5, Here, StepKeeps DEF Require
<1>5. CASE req[t].key \notin Listing.value
    <2>1. PICK q, r, no :
            /\ no = [at |-> now, took |-> Listing.built - Listing.began]
            /\ q = <<"reply">> /\ r = [req[t] EXCEPT !.refused = no]
        OBVIOUS
    <2>2. /\ Shaped(q) /\ q # <<>> /\ q \in Seq(Label) /\ q[1] = "reply"
          /\ ~ SourceAhead(q) /\ OnlyBars(q)
        BY <2>1, RepliesShaped DEF Shaped, SourceAhead, OnlyBars
    <2>n. no \in Refusal /\ no # None /\ no.at = now /\ now \in Nat
        <3>1. now \in Time /\ Listing.built \in Time /\ Listing.began \in Time
              /\ Listing.began <= Listing.built
            BY <1>1, <1>l, Here, ListingIs
        <3>2. Listing.built - Listing.began \in Time
            <4> HIDE DEF Listing
            <4> QED BY <3>1, DashboardAssumption DEF Time
        <3>3. no \in Refusal /\ no.at = now
            BY <2>1, <3>1, <3>2 DEF Refusal
        <3> QED BY <3>1, <3>3, DashboardAssumption DEF Time
    <2>3. /\ r \in Request /\ r.refused = no
          /\ r.key = req[t].key /\ r.series = req[t].series /\ r.stamp = req[t].stamp
          /\ r.bars = req[t].bars /\ r.own = req[t].own /\ r.route = req[t].route
          /\ r.atDisk = req[t].atDisk
        <3>1. req[t] \in Request
            BY <1>1, Here
        <3> QED BY <2>1, <2>n, <3>1 DEF Request, Entry
    <2>4. disk[r.key] = 0 \/ r.refused.at - born[r.key] < CacheSeconds + r.refused.took
        BY <1>1, <1>5, <1>l, <2>1, <2>3, Here, ListingMisses
    <2>5. r.refused # None /\ r.refused.at <= now
        BY <2>n, <2>3
    <2>6. RequestInv(q, r)
        BY <1>1, <2>1, <2>2, <2>3, <2>4, <2>5, Here DEF RequestInv
    <2>7. RequestInv(q, r)'
        BY <2>6 DEF RequestInv, Require, files
    <2>8. todo' = [todo EXCEPT ![t] = q] /\ req' = [req EXCEPT ![t] = r]
        BY <1>5, <2>1 DEF Require, Refuse, Note
    <2> QED BY <1>1, <1>2, <2>2, <2>3, <2>7, <2>8, Here, StepKeeps DEF Require
<1> QED BY <1>4, <1>5

LEMMA ListIndexKeeps ==
    ASSUME DashboardInv, NEW t \in Thread, ListIndex(t)
    PROVE  DashboardInv'
<1>1. At(t, "listing")
    BY DEF ListIndex
<1>2. TypeOK' /\ CachesInv'
    BY ListKeeps DEF ListIndex
<1>3. PICK q, r : /\ q = Tail(todo[t])
                  /\ r = [req[t] EXCEPT
                       !.listed = {s \in Listing.value : Timeframe[s] = Timeframe[req[t].series]},
                       !.rows = {}]
    OBVIOUS
<1>4. /\ Shaped(q) /\ q # <<>> /\ q \in Seq(Label) /\ q[1] = "row"
      /\ SourceAhead(q) => SourceAhead(todo[t])
    BY <1>1, <1>3, Onward DEF Follow
<1>5. req[t].refused = None /\ req[t].route # "bars"
    BY <1>1, NotForBars
<1>6. /\ r \in Request
      /\ r.key = req[t].key /\ r.series = req[t].series
      /\ r.bars = req[t].bars /\ r.own = req[t].own /\ r.route = req[t].route
      /\ r.refused = req[t].refused
    <2>1. Listing.value \subseteq Series
        BY ListingIs DEF ListIndex
    <2>2. req[t] \in Request
        BY <1>1, Here
    <2> QED BY <1>3, <2>1, <2>2 DEF Request
<1>7. RequestInv(q, r)
    BY <1>1, <1>4, <1>5, <1>6, Here DEF RequestInv
<1>8. RequestInv(q, r)'
    BY <1>7 DEF RequestInv, ListIndex, files
<1>9. todo' = [todo EXCEPT ![t] = q] /\ req' = [req EXCEPT ![t] = r]
    BY <1>3 DEF ListIndex, Advance, Note
<1> QED BY <1>1, <1>2, <1>4, <1>6, <1>8, <1>9, Here, StepKeeps DEF ListIndex

LEMMA SourceKeeps ==
    ASSUME DashboardInv, NEW t \in Thread, Source(t)
    PROVE  DashboardInv'
<1>1. At(t, "source")
    BY DEF Source
<1>2. TypeOK' /\ CachesInv'
    BY ListKeeps DEF Source
<1>3. Shaped(todo[t]) /\ todo[t] # <<>> /\ todo[t][1] = "source" /\ req[t] \in Request
    BY <1>1, Here
<1>4. PICK hit \in BOOLEAN :
        hit = (HourlyOf[req[t].key] \in Listing.value /\ HourlyOf[req[t].key] # req[t].key)
    OBVIOUS
<1>4a. PICK q, r, key :
        /\ q = IF hit THEN Tail(todo[t]) ELSE SubSeq(todo[t], 6 + 1, Len(todo[t]))
        /\ r = IF hit THEN [req[t] EXCEPT !.own = req[t].bars, !.bars = 0,
                                          !.key = HourlyOf[req[t].key]]
               ELSE [req[t] EXCEPT !.own = req[t].bars, !.bars = 0]
        /\ key = IF hit THEN HourlyOf[req[t].key] ELSE req[t].key
    OBVIOUS
<1>4b. todo' = [todo EXCEPT ![t] = q] /\ req' = [req EXCEPT ![t] = r]
    BY <1>4, <1>4a DEF Source, Advance, Skip, Note
<1>4c. key \in Series
    BY <1>1, <1>4a, Here, DashboardAssumption
<1>5. /\ Shaped(q) /\ q # <<>> /\ q \in Seq(Label) /\ q[1] \in {"require", "statsRow"}
      /\ ~ SourceAhead(q)
    <2>1. CASE q = Tail(todo[t])
        BY <1>3, <2>1, Advanced DEF Follow
    <2>2. CASE q = SubSeq(todo[t], 6 + 1, Len(todo[t]))
        <3>1. 6 \in 1 .. Len(todo[t]) /\ 6 < Len(todo[t]) /\ todo[t][6 + 1] = "statsRow"
            BY <1>3, SourceLeads
        <3> QED BY <1>3, <2>2, <3>1, Skipped
    <2> QED BY <1>4a, <2>1, <2>2
<1>6. req[t].refused = None /\ req[t].route # "bars"
    BY <1>1, NotForBars
<1>7. /\ r \in Request /\ r.key = key /\ r.series = req[t].series
      /\ r.bars = 0 /\ r.own = req[t].bars /\ r.route = req[t].route
      /\ r.refused = req[t].refused
    <2>1. 0 \in Version
        BY <1>1, Here
    <2> QED BY <1>3, <1>4a, <1>4c, <2>1 DEF Request, Entry
<1>8. disk[key] >= 0 /\ disk[req[t].series] >= r.own
    <2>1. req[t].key = req[t].series
        <3>1. SourceAhead(todo[t])
            BY <1>3 DEF SourceAhead, Shaped
        <3> QED BY <1>1, <3>1, Here DEF RequestInv
    <2>2. req[t].bars <= disk[req[t].key]
        BY <1>1, Here DEF RequestInv
    <2>3. /\ disk[key] \in Nat /\ disk[req[t].key] \in Nat /\ req[t].bars \in Nat
        BY <1>1, <1>3, <1>4c, Here, DashboardAssumption
        DEF DashboardInv, Typed, TypeOK, Version, Request
    <2> QED BY <1>7, <2>1, <2>2, <2>3
<1>9. RequestInv(q, r)
    <2>1. disk[r.series] >= r.own /\ disk[r.key] >= r.bars
        BY <1>7, <1>8
    <2>2. /\ disk[r.series] \in Nat /\ disk[r.key] \in Nat /\ r.own \in Nat /\ r.bars \in Nat
        <3>1. r.own \in Version /\ r.bars \in Version /\ Version \subseteq Nat
            BY <1>7, DashboardAssumption DEF Request, Version
        <3>2. r.series \in Series /\ r.key \in Series /\ disk \in [Series -> Version]
            BY <1>1, <1>7, <1>4c, Here DEF DashboardInv, Typed, TypeOK
        <3> QED BY <3>1, <3>2
    <2>3. r.own <= disk[r.series] /\ r.bars <= disk[r.key]
        BY <2>1, <2>2
    <2> QED BY <1>5, <1>6, <1>7, <2>3 DEF RequestInv
<1>10. RequestInv(q, r)'
    BY <1>9 DEF RequestInv, Source, files
<1>11. r.series \in Series /\ r.key \in Series
    BY <1>1, <1>7, <1>4c, Here
<1> QED BY <1>2, <1>4b, <1>5, <1>7, <1>10, <1>11, StepKeeps DEF Source

LEMMA KeepKeeps ==
    ASSUME DashboardInv, NEW t \in Thread, Keep(t)
    PROVE  DashboardInv'
<1>1. At(t, "keep")
    BY DEF Keep
<1>2. PICK q, r : q = Tail(todo[t]) /\ r = [req[t] EXCEPT !.stamp = 0]
    OBVIOUS
<1>3. /\ Shaped(q) /\ q # <<>> /\ q \in Seq(Label)
      /\ q[1] \in {"reply", "source", "statsRow", "findIndex"}
      /\ SourceAhead(q) => SourceAhead(todo[t])
      /\ OnlyBars(todo[t]) => OnlyBars(q)
    BY <1>1, <1>2, Onward DEF Follow
<1>4. /\ r \in Request /\ r.stamp = 0
      /\ r.key = req[t].key /\ r.series = req[t].series /\ r.bars = req[t].bars
      /\ r.own = req[t].own /\ r.atDisk = req[t].atDisk /\ r.route = req[t].route
      /\ r.refused = req[t].refused
    <2>1. req[t] \in Request /\ 0 \in Version
        BY <1>1, Here
    <2> QED BY <1>2, <2>1 DEF Request
<1>5. req[t].refused = None
    BY <1>1, Here DEF RequestInv
<1>6. /\ req[t].bars >= req[t].stamp /\ req[t].bars <= disk[req[t].key]
      /\ req[t].route = "bars" => req[t].atDisk <= req[t].stamp
    BY <1>1, Here DEF RequestInv
<1>7. req[t].route = "bars" => req[t].bars >= req[t].atDisk
    <2>1. req[t].bars \in Nat /\ req[t].stamp \in Nat /\ req[t].atDisk \in Nat
        BY <1>1, Here DEF Request
    <2> QED BY <1>6, <2>1
<1>8. RequestInv(q, r)
    BY <1>1, <1>3, <1>4, <1>5, <1>7, Here DEF RequestInv
<1>9. RequestInv(q, r)'
    BY <1>8 DEF RequestInv, Keep, files
<1>10. /\ req[t].key \in Series /\ now \in Time
       /\ req[t].stamp \in Version /\ req[t].bars \in Version
    BY <1>1, Here DEF Request
<1>11. kept' = [kept EXCEPT ![req[t].key] =
                  [stamp |-> req[t].stamp, bars |-> req[t].bars, built |-> now]]
    BY DEF Keep
<1>12. kept' \in [Series -> Entry(Loaded)]
    BY <1>10, <1>11 DEF DashboardInv, Typed, TypeOK, Entry, Loaded
<1>13. TypeOK'
    BY <1>12 DEF Keep, DashboardInv, Typed, TypeOK, files
<1>14. ASSUME NEW s \in Series, kept'[s] # None
       PROVE  kept'[s].bars >= kept'[s].stamp /\ kept'[s].bars <= disk'[s]
    <2>1. disk' = disk
        BY DEF Keep, files
    <2>2. CASE s = req[t].key
        <3>1. kept'[s] = [stamp |-> req[t].stamp, bars |-> req[t].bars, built |-> now]
            BY <1>11, <2>2 DEF DashboardInv, Typed, TypeOK
        <3> QED BY <1>6, <2>1, <2>2, <3>1
    <2>3. CASE s # req[t].key
        <3>1. kept'[s] = kept[s]
            BY <1>11, <2>3 DEF DashboardInv, Typed, TypeOK
        <3> QED BY <1>14, <2>1, <3>1 DEF DashboardInv, CachesInv
    <2> QED BY <2>2, <2>3
<1>15. CachesInv'
    BY <1>14 DEF Keep, DashboardInv, CachesInv, Misses, PageMatchesStamp, RowNotBehindBars, files
<1>16. todo' = [todo EXCEPT ![t] = q] /\ req' = [req EXCEPT ![t] = r]
    BY <1>2 DEF Keep, Advance, Note
<1> QED BY <1>1, <1>3, <1>4, <1>9, <1>13, <1>15, <1>16, Here, StepKeeps DEF Keep

LEMMA KeepIndexKeeps ==
    ASSUME DashboardInv, NEW t \in Thread, KeepIndex(t)
    PROVE  DashboardInv'
<1>1. At(t, "keepIndex")
    BY DEF KeepIndex
<1>2. PICK q, r : q = Tail(todo[t]) /\ r = [req[t] EXCEPT !.rows = {}]
    OBVIOUS
<1>3. /\ Shaped(q) /\ q # <<>> /\ q \in Seq(Label) /\ q[1] \in {"reply", "statPage"}
      /\ SourceAhead(q) => SourceAhead(todo[t])
    BY <1>1, <1>2, Onward DEF Follow
<1>4. req[t].refused = None /\ req[t].route # "bars"
    BY <1>1, NotForBars
<1>5. /\ r \in Request
      /\ r.key = req[t].key /\ r.series = req[t].series /\ r.bars = req[t].bars
      /\ r.own = req[t].own /\ r.route = req[t].route /\ r.refused = req[t].refused
    <2>1. req[t] \in Request
        BY <1>1, Here
    <2> QED BY <1>2, <2>1 DEF Request
<1>6. RequestInv(q, r)
    BY <1>1, <1>3, <1>4, <1>5, Here DEF RequestInv
<1>7. RequestInv(q, r)'
    BY <1>6 DEF RequestInv, KeepIndex, files
<1>8. index' \in [Frames -> Entry([rows : SUBSET (Series \X Version), built : Time])]
    <2>1. now \in Time /\ req[t].rows \in SUBSET (Series \X Version)
        BY <1>1, Here DEF Request
    <2> QED BY <2>1 DEF KeepIndex, DashboardInv, Typed, TypeOK, Entry
<1>9. TypeOK'
    BY <1>8 DEF KeepIndex, DashboardInv, Typed, TypeOK, files
<1>10. CachesInv'
    BY DEF KeepIndex, DashboardInv, CachesInv, Misses, PageMatchesStamp, RowNotBehindBars, files
<1>11. todo' = [todo EXCEPT ![t] = q] /\ req' = [req EXCEPT ![t] = r]
    BY <1>2 DEF KeepIndex, Advance, Note
<1> QED BY <1>1, <1>3, <1>5, <1>7, <1>9, <1>10, <1>11, Here, StepKeeps DEF KeepIndex

LEMMA KeepStatsKeeps ==
    ASSUME DashboardInv, NEW t \in Thread, KeepStats(t)
    PROVE  DashboardInv'
<1>1. At(t, "keepStats")
    BY DEF KeepStats
<1>2. PICK q, r : q = Tail(todo[t]) /\ r = [req[t] EXCEPT !.bars = 0, !.own = 0, !.row = 0]
    OBVIOUS
<1>3. /\ Shaped(q) /\ q # <<>> /\ q \in Seq(Label) /\ q[1] = "reply"
      /\ SourceAhead(q) => SourceAhead(todo[t])
    BY <1>1, <1>2, Onward DEF Follow
<1>4. req[t].refused = None /\ req[t].route # "bars"
    BY <1>1, NotForBars
<1>5. /\ r \in Request
      /\ r.key = req[t].key /\ r.series = req[t].series /\ r.bars = 0
      /\ r.own = 0 /\ r.route = req[t].route /\ r.refused = req[t].refused
    <2>1. req[t] \in Request /\ 0 \in Version
        BY <1>1, Here
    <2> QED BY <1>2, <2>1 DEF Request
<1>6. disk[r.key] >= 0 /\ disk[r.series] >= 0
    BY <1>1, <1>5, Here
<1>7. RequestInv(q, r)
    BY <1>1, <1>3, <1>4, <1>5, <1>6, Here DEF RequestInv
<1>8. RequestInv(q, r)'
    BY <1>7 DEF RequestInv, KeepStats, files
<1>9. /\ now \in Time /\ req[t].own \in Version /\ req[t].row \in Version
      /\ req[t].row >= req[t].own /\ req[t].series \in Series
    BY <1>1, Here DEF Request, RequestInv
<1>10. stats' = [stats EXCEPT ![req[t].series] =
                   [bars |-> req[t].own, row |-> req[t].row, built |-> now]]
    BY DEF KeepStats
<1>11. stats' \in [Series -> Entry([bars : Version, row : Version, built : Time])]
    BY <1>9, <1>10 DEF DashboardInv, Typed, TypeOK, Entry
<1>12. TypeOK'
    BY <1>11 DEF KeepStats, DashboardInv, Typed, TypeOK, files
<1>13. RowNotBehindBars'
    <2> SUFFICES ASSUME NEW s \in Series, stats'[s] # None
                 PROVE  stats'[s].row >= stats'[s].bars
        BY DEF RowNotBehindBars
    <2>1. CASE s = req[t].series
        <3>1. stats'[s] = [bars |-> req[t].own, row |-> req[t].row, built |-> now]
            BY <1>10, <2>1 DEF DashboardInv, Typed, TypeOK
        <3> QED BY <1>9, <3>1
    <2>2. CASE s # req[t].series
        <3>1. stats'[s] = stats[s]
            BY <1>10, <2>2 DEF DashboardInv, Typed, TypeOK
        <3> QED BY <3>1 DEF DashboardInv, CachesInv, RowNotBehindBars
    <2> QED BY <2>1, <2>2
<1>14. CachesInv'
    BY <1>13 DEF KeepStats, DashboardInv, CachesInv, Misses, PageMatchesStamp, files
<1>15. todo' = [todo EXCEPT ![t] = q] /\ req' = [req EXCEPT ![t] = r]
    BY <1>2 DEF KeepStats, Advance, Note
<1> QED BY <1>1, <1>3, <1>5, <1>8, <1>12, <1>14, <1>15, Here, StepKeeps DEF KeepStats

LEMMA ReadPageKeeps ==
    ASSUME DashboardInv, NEW t \in Thread, ReadPage(t)
    PROVE  DashboardInv'
<1>1. At(t, "readPage")
    BY DEF ReadPage
<1>2. req[t].refused = None /\ req[t].route # "bars"
    BY <1>1, NotForBars
<1>3. /\ req[t] \in Request /\ 0 \in Version /\ asset \in Version /\ Version \subseteq Nat
      /\ todo[t] # <<>> /\ todo[t][1] = "readPage" /\ Shaped(todo[t])
      /\ todo[t] \in Seq(Label)
    BY <1>1, Here
<1>4. req[t].stamp <= asset /\ (req[t].text = 0 \/ req[t].text >= req[t].stamp)
    BY <1>1, Here DEF RequestInv
<1>5. CASE req[t].text = 0
    <2>1. PICK q, r : q = todo[t] /\ r = [req[t] EXCEPT !.text = asset]
        OBVIOUS
    <2>2. /\ r \in Request /\ r.text = asset /\ r.stamp = req[t].stamp
          /\ r.key = req[t].key /\ r.series = req[t].series /\ r.bars = req[t].bars
          /\ r.own = req[t].own /\ r.route = req[t].route /\ r.refused = req[t].refused
          /\ asset >= r.stamp
        <3>1. req[t].stamp \in Nat /\ asset \in Nat
            BY <1>3 DEF Request
        <3> QED BY <1>3, <1>4, <2>1, <3>1 DEF Request
    <2>3. RequestInv(q, r)
        BY <1>1, <1>2, <1>3, <2>1, <2>2, Here DEF RequestInv
    <2>4. todo' = [todo EXCEPT ![t] = q] /\ req' = [req EXCEPT ![t] = r]
        BY <1>5, <2>1 DEF ReadPage, Note, DashboardInv, Typed
    <2>5. UNCHANGED <<files, now, caches, page, served>> /\ lock' \in Entry(Thread)
        BY <1>5 DEF ReadPage, DashboardInv, Typed, TypeOK
    <2>6. r.series \in Series /\ r.key \in Series /\ q \in Seq(Label)
        BY <1>1, <2>1, <2>2, Here
    <2> QED BY <2>2, <2>3, <2>4, <2>5, <2>6, QuietStep
<1>6. CASE req[t].text # 0
    <2>1. PICK q, r : q = Tail(todo[t]) /\ r = [req[t] EXCEPT !.stamp = 0]
        OBVIOUS
    <2>2. /\ Shaped(q) /\ q # <<>> /\ q \in Seq(Label) /\ q[1] = "takePage"
          /\ SourceAhead(q) => SourceAhead(todo[t])
        BY <1>3, <2>1, Advanced DEF Follow
    <2>3. /\ r \in Request
          /\ r.key = req[t].key /\ r.series = req[t].series /\ r.bars = req[t].bars
          /\ r.own = req[t].own /\ r.route = req[t].route /\ r.refused = req[t].refused
        BY <1>3, <2>1 DEF Request
    <2>4. page' = [stamp |-> req[t].stamp, text |-> req[t].text]
        BY <1>6 DEF ReadPage
    <2>5. page' \in Texts /\ page' # None
        <3>1. page' \in Texts
            BY <1>3, <2>4 DEF Request, Texts
        <3> QED BY <3>1, DashboardAssumption
    <2>6. UNCHANGED <<files, now, lock, caches, served>>
        BY DEF ReadPage
    <2>7. TypeOK'
        BY <2>5, <2>6 DEF DashboardInv, Typed, TypeOK, Entry, files, caches
    <2>8. CachesInv'
        BY <1>4, <1>6, <2>4, <2>6
        DEF DashboardInv, CachesInv, Misses, PageMatchesStamp, RowNotBehindBars, files, caches
    <2>9. RequestInv(q, r)'
        BY <1>1, <1>2, <2>2, <2>3, <2>5, <2>6, Here DEF RequestInv, files
    <2>10. todo' = [todo EXCEPT ![t] = q] /\ req' = [req EXCEPT ![t] = r]
        BY <1>6, <2>1 DEF ReadPage, Advance, Note
    <2>11. r.series \in Series /\ r.key \in Series
        BY <1>1, <2>3, Here
    <2> QED BY <2>2, <2>3, <2>5, <2>6, <2>7, <2>8, <2>9, <2>10, <2>11, StepKeeps
<1> QED BY <1>5, <1>6

-----------------------------------------------------------------------------
(* The theorems *)

LEMMA DashboardStep == DashboardInv /\ [Next]_vars => DashboardInv'
<1> SUFFICES ASSUME DashboardInv, [Next]_vars PROVE DashboardInv'
    OBVIOUS
<1>1. CASE Tick \/ EditPage \/ \E s \in Series : Write(s)
    BY <1>1, OutsideKeeps
<1>2. ASSUME NEW t \in Thread, Accept(t) PROVE DashboardInv'
    BY <1>2, AcceptKeeps
<1>3. ASSUME NEW t \in Thread, Step(t) PROVE DashboardInv'
    BY <1>3, WalkKeeps, RequireKeeps, StatKeeps, LookupKeeps, LoadKeeps, KeepKeeps,
       FindIndexKeeps, ListIndexKeeps, RowKeeps, KeepIndexKeeps, FindStatsKeeps,
       SourceKeeps, StatsRowKeeps, KeepStatsKeeps, StatPageKeeps, CheckPageKeeps,
       ReadPageKeeps, TakePageKeeps, ReplyKeeps
    DEF Step
<1>4. CASE UNCHANGED vars
    <2>1. Typed'
        BY <1>4 DEF vars, files, caches, DashboardInv, Typed, TypeOK
    <2>2. CachesInv'
        BY <1>4 DEF vars, files, caches, DashboardInv, CachesInv, Misses, PageMatchesStamp,
                    RowNotBehindBars
    <2>3. ASSUME NEW t \in Thread PROVE RequestInv(todo[t], req[t])'
        <3>1. Outside
            BY <1>4, DashboardAssumption
            DEF Outside, vars, files, DashboardInv, Typed, TypeOK, Version, Time
        <3> QED BY <1>4, <2>1, <3>1, OthersKeep DEF vars
    <2> QED BY <2>1, <2>2, <2>3 DEF DashboardInv
<1> QED BY <1>1, <1>2, <1>3, <1>4 DEF Next

LEMMA DashboardInvariant == Spec => []DashboardInv
BY InitEstablishes, DashboardStep, PTL DEF Spec

\* The bars of an answer are at least as new as the files were when the
\* request came in, whatever reloads and rewrites overlap (Archive.bars).
THEOREM AnswersAreCurrent == Spec => []BarsAreCurrent
<1>1. DashboardInv => BarsAreCurrent
    <2> SUFFICES ASSUME DashboardInv, NEW t \in Thread, At(t, "reply"),
                        req[t].route = "bars", req[t].refused = None
                 PROVE  req[t].bars >= req[t].atDisk
        BY DEF BarsAreCurrent
    <2> QED BY Here DEF RequestInv
<1> QED BY <1>1, DashboardInvariant, PTL

\* What the caches keep together fits together: a page and its timestamp, a
\* row and its bars (Asset.text, Archive.stats).
THEOREM CachesStayFit == Spec => []CachesFit
<1>1. DashboardInv => CachesFit
    BY DEF DashboardInv, Typed, CachesInv, CachesFit
<1> QED BY <1>1, DashboardInvariant, PTL

\* No series that had a file for a cache window and as long as the directory
\* walk behind the listing took is refused (Archive.require).
THEOREM NobodyTurnedAway == Spec => []ListedIsServed
<1>1. DashboardInv => ListedIsServed
    <2> SUFFICES ASSUME DashboardInv, NEW t \in Thread, req[t].refused # None
                 PROVE  \/ disk[req[t].key] = 0
                        \/ req[t].refused.at - born[req[t].key]
                               < CacheSeconds + req[t].refused.took
        BY DEF ListedIsServed
    <2>1. RequestInv(todo[t], req[t])
        BY DEF DashboardInv
    <2> QED BY <2>1 DEF RequestInv
<1> QED BY <1>1, DashboardInvariant, PTL

=============================================================================
