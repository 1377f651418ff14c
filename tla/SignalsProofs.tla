---------------------------- MODULE SignalsProofs ----------------------------
(***************************************************************************)
(* Proofs about what is read from a stored series, for any series that     *)
(* collecting and backfilling can make.                                    *)
(***************************************************************************)
EXTENDS Signals, RatioProofs

\* What the loop of a scan leaves behind: its states after each index, the
\* i-th of them in May[i].
Passed(r, n, U, May, start, G) ==
    /\ r \in Seq(U) /\ Len(r) = n
    /\ \A i \in 1 .. n :
         /\ r[i] \in May[i]
         /\ r[i] = G[<<IF i = 1 THEN start ELSE r[i - 1], i>>]

\* A loop that begins in May[0] and steps from May[i - 1] to May[i].
Loops(n, U, May, start, G) ==
    /\ May \in [0 .. n -> SUBSET U] /\ start \in May[0]
    /\ \A i \in 1 .. n : \A x \in May[i - 1] : G[<<x, i>>] \in May[i]

\* The sequences of states such a loop goes through.
Runs(F, n, U, May, start, G) ==
    /\ F = [i \in 0 .. n |-> F[i]] /\ F[0] = <<start>>
    /\ \A i \in 1 .. n :
         /\ F[i - 1] \in Seq(U) /\ Len(F[i - 1]) = i /\ F[i - 1][i] \in May[i - 1]
         /\ F[i] = Append(F[i - 1], G[<<F[i - 1][i], i>>])

\* What repeating a step makes of c.
Repeats(F, C, c, step) ==
    F \in [Nat -> C] /\ F[0] = c /\ \A k \in Nat \ {0} : F[k] = step[F[k - 1]]

LEMMA ChainRuns ==
    ASSUME NEW C, NEW c \in C, NEW step \in [C -> C]
    PROVE  \E F : Repeats(F, C, c, step)
BY Iteration DEF Repeats

\* The same without May.
Walked(F, n, U, start, G) ==
    /\ F = [i \in 0 .. n |-> F[i]] /\ F[0] = <<start>>
    /\ \A i \in 1 .. n :
         /\ F[i - 1] \in Seq(U) /\ Len(F[i - 1]) = i /\ F[i - 1][i] \in U
         /\ F[i] = Append(F[i - 1], G[<<F[i - 1][i], i>>])

\* The sequences of states a loop goes through, while it is in 0 .. n.
LEMMA ScanExists ==
    ASSUME NEW n \in Nat, NEW State, NEW start \in State,
           NEW G \in [State \X (1 .. n) -> State]
    PROVE  \E F : Walked(F, n, State, start, G)
<1> DEFINE Chain == {x \in Seq(State) : x # <<>>}
           H == [x \in Chain |-> IF Len(x) <= n THEN Append(x, G[<<x[Len(x)], Len(x)>>]) ELSE x]
           first == <<start>>
<1>1. first \in Chain
    OBVIOUS
<1>2. ASSUME NEW x \in Chain PROVE H[x] \in Chain /\ Len(x) \in Nat \ {0} /\ x[Len(x)] \in State
    <2>1. x \in Seq(State) /\ Len(x) \in Nat \ {0} /\ x[Len(x)] \in State
        OBVIOUS
    <2>2. ASSUME Len(x) <= n PROVE Append(x, G[<<x[Len(x)], Len(x)>>]) \in Chain
        <3>1. <<x[Len(x)], Len(x)>> \in State \X (1 .. n)
            BY <2>1, <2>2
        <3>2. G[<<x[Len(x)], Len(x)>>] \in State
            BY <3>1
        <3> QED BY <2>1, <3>2
    <2> QED BY <2>1, <2>2
<1>3. H \in [Chain -> Chain]
    <2>1. \A x \in Chain : H[x] \in Chain
        BY <1>2
    <2> QED BY <2>1
<1>0. ASSUME NEW x \in Chain, Len(x) <= n
      PROVE  /\ H[x] = Append(x, G[<<x[Len(x)], Len(x)>>])
             /\ Len(H[x]) = Len(x) + 1 /\ x \in Seq(State) /\ Len(x) \in Nat
    <2>1. H[x] = Append(x, G[<<x[Len(x)], Len(x)>>]) /\ x \in Seq(State)
        BY <1>0
    <2> HIDE DEF H
    <2> QED BY <2>1
<1> HIDE DEF Chain, H, first
<1>4. PICK F : F \in [Nat -> Chain] /\ F[0] = first /\ \A k \in Nat \ {0} : F[k] = H[F[k - 1]]
    <2>1. \E F : Repeats(F, Chain, first, H)
        BY <1>1, <1>3, ChainRuns
    <2> QED BY <2>1, Zenon DEF Repeats
<1> DEFINE short == {i \in Nat : i <= n /\ Len(F[i]) # i + 1}
<1>5. ASSUME NEW i \in Nat, i <= n PROVE Len(F[i]) = i + 1
    <2> SUFFICES ASSUME short # {} PROVE FALSE
        BY <1>5
    <2>1. PICK m \in short : \A k \in short : m <= k
        BY LeastNumber
    <2>2. m # 0
        <3>1. Len(F[0]) = 1
            BY <1>4 DEF first
        <3>2. m \in Nat /\ Len(F[m]) # m + 1
            BY <2>1
        <3>3. ASSUME m = 0 PROVE Len(F[0]) # 0 + 1
            BY <3>2, <3>3
        <3> HIDE DEF short
        <3> QED BY <3>1, <3>3
    <2>3. m - 1 \in Nat /\ m - 1 \notin short /\ m - 1 <= n /\ m \in Nat \ {0}
        BY <2>1, <2>2
    <2>4. Len(F[m - 1]) = m /\ F[m - 1] \in Chain
        BY <1>4, <2>3
    <2>5. Len(F[m]) = m + 1
        <3>1. F[m] = H[F[m - 1]]
            BY <1>4, <2>3
        <3>2. Len(F[m - 1]) <= n
            BY <2>1, <2>4
        <3> QED BY <1>0, <2>4, <3>1, <3>2
    <2> QED BY <2>1, <2>5
<1> DEFINE E == [i \in 0 .. n |-> F[i]]
<1>6. E = [i \in 0 .. n |-> E[i]] /\ E[0] = <<start>>
    BY <1>4 DEF first
<1>7. ASSUME NEW i \in 1 .. n
      PROVE  /\ E[i - 1] \in Seq(State) /\ Len(E[i - 1]) = i /\ E[i - 1][i] \in State
             /\ E[i] = Append(E[i - 1], G[<<E[i - 1][i], i>>])
    <2>1. i - 1 \in Nat /\ i - 1 <= n /\ i \in Nat \ {0} /\ E[i] = F[i] /\ E[i - 1] = F[i - 1]
        OBVIOUS
    <2>2. Len(F[i - 1]) = i /\ F[i - 1] \in Chain
        BY <1>4, <1>5, <2>1
    <2>3. F[i] = H[F[i - 1]]
        BY <1>4, <2>1
    <2>4. H[F[i - 1]] = Append(F[i - 1], G[<<F[i - 1][i], i>>]) /\ F[i - 1] \in Seq(State)
        BY <1>0, <2>2
    <2>5. F[i - 1][i] \in State
        BY <1>2, <2>2
    <2> QED BY <2>1, <2>2, <2>3, <2>4, <2>5
<1> HIDE DEF E
<1>8. Walked(E, n, State, start, G)
    BY <1>6, <1>7 DEF Walked
<1> QED BY <1>8

\* Every loop has them.
LEMMA LoopExists ==
    ASSUME NEW n \in Nat, NEW U, NEW May, NEW start, NEW G, Loops(n, U, May, start, G)
    PROVE  \E F : Runs(F, n, U, May, start, G)
<1> DEFINE H == [y \in U \X (1 .. n) |-> IF y[1] \in May[y[2] - 1] THEN G[y] ELSE start]
<1>1. /\ May \in [0 .. n -> SUBSET U] /\ start \in May[0] /\ start \in U
      /\ \A i \in 1 .. n : \A x \in May[i - 1] : G[<<x, i>>] \in May[i]
    BY DEF Loops
<1>2. H \in [U \X (1 .. n) -> U]
    <2>1. ASSUME NEW x \in U, NEW i \in 1 .. n, x \in May[i - 1] PROVE G[<<x, i>>] \in U
        BY <1>1, <2>1
    <2>2. ASSUME NEW y \in U \X (1 .. n)
          PROVE  (IF y[1] \in May[y[2] - 1] THEN G[y] ELSE start) \in U
        <3>1. y[1] \in U /\ y[2] \in 1 .. n /\ y = <<y[1], y[2]>>
            OBVIOUS
        <3> QED BY <1>1, <2>1, <3>1
    <2> QED BY <2>2
<1>3. ASSUME NEW i \in 1 .. n, NEW x \in May[i - 1] PROVE H[<<x, i>>] = G[<<x, i>>]
    <2>1. <<x, i>> \in U \X (1 .. n)
        BY <1>1
    <2> QED BY <2>1
<1> HIDE DEF H
<1>4. PICK F : /\ F = [i \in 0 .. n |-> F[i]] /\ F[0] = <<start>>
               /\ \A i \in 1 .. n :
                    /\ F[i - 1] \in Seq(U) /\ Len(F[i - 1]) = i /\ F[i - 1][i] \in U
                    /\ F[i] = Append(F[i - 1], H[<<F[i - 1][i], i>>])
    <2>1. \E F : Walked(F, n, U, start, H)
        BY <1>1, <1>2, ScanExists
    <2> QED BY <2>1, Zenon DEF Walked
<1> DEFINE wrong == {i \in Nat : i < n /\ F[i][i + 1] \notin May[i]}
<1>5. wrong = {}
    <2> SUFFICES ASSUME wrong # {} PROVE FALSE
        OBVIOUS
    <2>1. PICK m \in wrong : \A k \in wrong : m <= k
        BY LeastNumber
    <2>2. m \in Nat /\ m < n /\ F[m][m + 1] \notin May[m]
        BY <2>1
    <2>3. CASE m = 0
        BY <1>1, <1>4, <2>2, <2>3
    <2>4. CASE m # 0
        <3>1. m - 1 \in Nat /\ m - 1 < n /\ m - 1 \notin wrong /\ (m - 1) + 1 = m /\ m \in 1 .. n
            BY <2>1, <2>2, <2>4
        <3>2. F[m - 1][m] \in May[m - 1]
            BY <3>1
        <3>3. F[m] = Append(F[m - 1], G[<<F[m - 1][m], m>>])
              /\ F[m - 1] \in Seq(U) /\ Len(F[m - 1]) = m
            BY <1>3, <1>4, <3>1, <3>2
        <3>4. F[m][m + 1] = G[<<F[m - 1][m], m>>]
            BY <3>3
        <3> QED BY <1>1, <2>2, <3>1, <3>2, <3>4
    <2> QED BY <2>3, <2>4
<1>6. ASSUME NEW i \in 1 .. n
      PROVE  /\ F[i - 1] \in Seq(U) /\ Len(F[i - 1]) = i /\ F[i - 1][i] \in May[i - 1]
             /\ F[i] = Append(F[i - 1], G[<<F[i - 1][i], i>>])
    <2>1. i - 1 \in Nat /\ i - 1 < n /\ (i - 1) + 1 = i /\ i - 1 \notin wrong
        BY <1>5
    <2>2. F[i - 1][i] \in May[i - 1]
        BY <2>1
    <2> HIDE DEF wrong
    <2> QED BY <1>3, <1>4, <2>2
<1>7. Runs(F, n, U, May, start, G)
    BY <1>4, <1>6 DEF Runs
<1> QED BY <1>7

\* What a loop returns, without the state it began in.
LEMMA LoopIs ==
    ASSUME NEW n \in Nat, NEW U, NEW May, NEW start, NEW G, Loops(n, U, May, start, G),
           NEW f, f[0] = <<start>>,
           \A i \in 1 .. n, x \in Seq(U) :
              f[i - 1] = x /\ Len(x) = i /\ x[i] \in May[i - 1] =>
                f[i] = Append(x, G[<<x[i], i>>])
    PROVE  Passed(Tail(f[n]), n, U, May, start, G)
<1> DEFINE Holds(k) == /\ f[k] \in Seq(U) /\ Len(f[k]) = k + 1 /\ f[k][1] = start
                       /\ f[k][k + 1] \in May[k]
                       /\ \A i \in 1 .. k : /\ f[k][i + 1] = G[<<f[k][i], i>>]
                                            /\ f[k][i + 1] \in May[i]
           wrong == {k \in Nat : k <= n /\ ~Holds(k)}
<1>0. /\ May \in [0 .. n -> SUBSET U] /\ start \in May[0] /\ start \in U
      /\ \A i \in 1 .. n : \A x \in May[i - 1] : G[<<x, i>>] \in May[i]
    BY DEF Loops
<1>1. ASSUME wrong # {} PROVE FALSE
    <2>1. PICK m \in wrong : \A k \in wrong : m <= k
        BY <1>1, LeastNumber
    <2>2. m # 0
        <3>1. Holds(0)
            BY <1>0
        <3>2. ~ Holds(m)
            BY <2>1
        <3> HIDE DEF wrong, Holds
        <3> QED BY <3>1, <3>2
    <2>3. m - 1 \in Nat /\ m - 1 \notin wrong /\ m - 1 <= n /\ m \in 1 .. n /\ (m - 1) + 1 = m
        <3>1. m \in Nat /\ m <= n
            OBVIOUS
        <3> HIDE DEF wrong
        <3> QED BY <2>1, <2>2, <3>1
    <2>4. Holds(m - 1)
        BY <2>3
    <2> DEFINE x == f[m - 1]
               y == G[<<x[m], m>>]
    <2>5. x \in Seq(U) /\ Len(x) = m /\ x[1] = start /\ x[m] \in May[m - 1]
          /\ \A i \in 1 .. m - 1 : x[i + 1] = G[<<x[i], i>>] /\ x[i + 1] \in May[i]
        BY <2>3, <2>4
    <2>6. f[m] = Append(x, y)
        BY <2>3, <2>5
    <2> HIDE DEF x
    <2>7. y \in May[m] /\ y \in U
        <3>1. y \in May[m]
            BY <1>0, <2>3, <2>5
        <3> HIDE DEF y
        <3> QED BY <1>0, <2>3, <3>1
    <2>8. f[m] \in Seq(U) /\ Len(f[m]) = m + 1 /\ f[m][1] = start /\ f[m][m + 1] \in May[m]
        <3>1. m >= 1
            BY <2>3
        <3> HIDE DEF y, wrong, Holds
        <3> QED BY <2>5, <2>6, <2>7, <3>1
    <2>9. ASSUME NEW i \in 1 .. m
          PROVE  f[m][i + 1] = G[<<f[m][i], i>>] /\ f[m][i + 1] \in May[i]
        <3>1. f[m][i] = x[i]
            BY <2>5, <2>6
        <3>2. CASE i = m
            BY <2>5, <2>6, <2>7, <3>1, <3>2
        <3>3. CASE i # m
            <4>1. i \in 1 .. m - 1 /\ i + 1 \in 1 .. m
                BY <2>3, <3>3
            <4>2. f[m][i + 1] = x[i + 1]
                BY <2>5, <2>6, <4>1
            <4> QED BY <2>5, <3>1, <4>1, <4>2
        <3> QED BY <3>2, <3>3
    <2>10. Holds(m)
        BY <2>8, <2>9
    <2> QED BY <2>1, <2>10
<1> HIDE DEF Holds
<1>5. Holds(n)
    BY <1>1
<1> DEFINE g == f[n]
           r == Tail(g)
<1>2. g \in Seq(U) /\ Len(g) = n + 1 /\ g[1] = start
      /\ \A i \in 1 .. n : g[i + 1] = G[<<g[i], i>>] /\ g[i + 1] \in May[i]
    BY <1>5 DEF Holds
<1> HIDE DEF g
<1>3. r \in Seq(U) /\ Len(r) = n /\ \A i \in 1 .. n : r[i] = g[i + 1]
    BY <1>2
<1>4. ASSUME NEW i \in 1 .. n
      PROVE  r[i] \in May[i] /\ r[i] = G[<<IF i = 1 THEN start ELSE r[i - 1], i>>]
    <2>1. r[i] = G[<<g[i], i>>] /\ r[i] \in May[i]
        BY <1>2, <1>3
    <2>2. g[i] = IF i = 1 THEN start ELSE r[i - 1]
        <3>1. CASE i = 1
            BY <1>2, <3>1
        <3>2. CASE i # 1
            <4>1. i - 1 \in 1 .. n /\ (i - 1) + 1 = i
                BY <3>2
            <4> QED BY <1>3, <3>2, <4>1
        <3> QED BY <3>1, <3>2
    <2> QED BY <2>1, <2>2
<1> QED BY <1>3, <1>4 DEF Passed, g

-----------------------------------------------------------------------------
(* Sums and averages *)

\* F are the sums of the first members of s.
Adds(F, s) ==
    /\ F \in [0 .. Len(s) -> Rational] /\ F[0] = Zero
    /\ \A k \in 1 .. Len(s) : F[k] = F[k - 1] ++ s[k]

LEMMA SumOfIs ==
    ASSUME NEW s \in Seq(Rational)
    PROVE  \E F : Adds(F, s) /\ SumOf(s) = F[Len(s)]
<1> DEFINE n == Len(s)
           May == [i \in 0 .. n |-> Rational]
           G == [y \in Rational \X (1 .. n) |-> y[1] ++ s[y[2]]]
           body(f) == [k \in 0 .. n |-> IF k = 0 THEN Zero ELSE f[k - 1] ++ s[k]]
           f == CHOOSE g : g = body(g)
<1>1. n \in Nat /\ \A k \in 1 .. n : s[k] \in Rational
    OBVIOUS
<1>2. Zero \in Rational
    BY Constants
<1>3. ASSUME NEW i \in 1 .. n, NEW x \in Rational
      PROVE  G[<<x, i>>] = x ++ s[i] /\ G[<<x, i>>] \in Rational
    <2>1. <<x, i>> \in Rational \X (1 .. n)
        OBVIOUS
    <2>2. G[<<x, i>>] = x ++ s[i]
        BY <2>1
    <2> QED BY <1>1, <2>2, SumType
<1> HIDE DEF G, n
<1>4. Loops(n, Rational, May, Zero, G)
    BY <1>1, <1>2, <1>3 DEF Loops
<1>5. PICK F : Runs(F, n, Rational, May, Zero, G)
    <2> HIDE DEF May
    <2> QED BY <1>1, <1>4, LoopExists
<1> DEFINE P == [i \in 0 .. n |-> F[i][i + 1]]
<1>6. P = body(P)
    <2>1. ASSUME NEW k \in 0 .. n PROVE P[k] = IF k = 0 THEN Zero ELSE P[k - 1] ++ s[k]
        <3>1. CASE k = 0
            BY <1>5, <3>1 DEF Runs
        <3>2. CASE k # 0
            <4>1. k \in 1 .. n /\ k - 1 \in 0 .. n /\ (k - 1) + 1 = k
                BY <1>1, <3>2
            <4>2. F[k - 1] \in Seq(Rational) /\ Len(F[k - 1]) = k /\ F[k - 1][k] \in May[k - 1]
                  /\ F[k] = Append(F[k - 1], G[<<F[k - 1][k], k>>])
                BY <1>5, <4>1 DEF Runs
            <4>3. F[k][k + 1] = G[<<F[k - 1][k], k>>] /\ F[k - 1][k] \in Rational
                BY <4>1, <4>2
            <4>4. F[k][k + 1] = F[k - 1][k] ++ s[k]
                BY <1>3, <4>1, <4>3
            <4> QED BY <3>2, <4>1, <4>4
        <3> QED BY <3>1, <3>2
    <2> HIDE DEF P
    <2>2. P = [k \in 0 .. n |-> P[k]]
        BY DEF P
    <2> QED BY <2>1, <2>2
<1>7. f = body(f)
    BY <1>6, Zenon
<1>8. SumOf(s) = f[n]
    BY Zenon DEF SumOf, n
<1> HIDE DEF f
<1>9. f = [k \in 0 .. n |-> f[k]] /\ f[0] = Zero /\ \A k \in 1 .. n : f[k] = f[k - 1] ++ s[k]
    <2>1. f[0] = Zero
        <3>1. f[0] = body(f)[0]
            BY <1>7
        <3> QED BY <1>1, <3>1
    <2>2. f = [k \in 0 .. n |-> f[k]]
        BY <1>7, Zenon
    <2>3. ASSUME NEW k \in 1 .. n PROVE f[k] = f[k - 1] ++ s[k]
        <3>1. f[k] = body(f)[k]
            BY <1>7
        <3>2. k \in 0 .. n /\ k # 0
            BY <1>1
        <3>3. body(f)[k] = f[k - 1] ++ s[k]
            BY <3>2
        <3> HIDE DEF body
        <3> QED BY <3>1, <3>3
    <2> QED BY <2>1, <2>2, <2>3
<1>10. ASSUME NEW k \in 0 .. n PROVE f[k] \in Rational
    <2> DEFINE wrong == {j \in Nat : j <= n /\ f[j] \notin Rational}
    <2> SUFFICES ASSUME wrong # {} PROVE FALSE
        BY <1>1
    <2>1. PICK m \in wrong : \A j \in wrong : m <= j
        BY LeastNumber
    <2>2. m \in Nat /\ m <= n /\ f[m] \notin Rational /\ m # 0
        BY <1>2, <1>9, <2>1
    <2>3. m - 1 \in Nat /\ m - 1 \notin wrong /\ m \in 1 .. n
        BY <1>1, <2>1, <2>2
    <2>4. f[m - 1] \in Rational
        BY <1>1, <2>3
    <2> QED BY <1>1, <1>9, <2>2, <2>3, <2>4, SumType
<1>11. Adds(f, s)
    <2>1. f \in [0 .. n -> Rational]
        BY <1>9, <1>10
    <2> QED BY <1>9, <2>1 DEF Adds, n
<1> QED BY <1>8, <1>11 DEF n

\* The sum of a stretch is what the sums grow by over it.
LEMMA StretchSum ==
    ASSUME NEW s \in Seq(Rational), NEW P, Adds(P, s),
           NEW a \in 0 .. Len(s), NEW b \in a .. Len(s)
    PROVE  /\ SumOf(SubSeq(s, a + 1, b)) \in Rational
           /\ SumOf(SubSeq(s, a + 1, b)) = P[b] -- P[a]
           /\ Len(SubSeq(s, a + 1, b)) = b - a
<1> DEFINE t == SubSeq(s, a + 1, b)
<1>1. t \in Seq(Rational) /\ Len(t) = b - a /\ \A k \in 1 .. b - a : t[k] = s[a + k]
    OBVIOUS
<1>2. b - a \in Nat /\ a \in Nat /\ b \in Nat /\ Len(s) \in Nat
    OBVIOUS
<1> HIDE DEF t
<1>3. PICK F : Adds(F, t) /\ SumOf(t) = F[Len(t)]
    BY <1>1, SumOfIs
<1>4. F \in [0 .. b - a -> Rational] /\ F[0] = Zero
      /\ \A k \in 1 .. b - a : F[k] = F[k - 1] ++ t[k]
    BY <1>1, <1>3 DEF Adds
<1>5. P \in [0 .. Len(s) -> Rational] /\ \A k \in 1 .. Len(s) : P[k] = P[k - 1] ++ s[k]
    BY DEF Adds
<1>6. ASSUME NEW k \in 0 .. b - a PROVE F[k] ++ P[a] = P[a + k]
    <2> DEFINE wrong == {j \in Nat : j <= b - a /\ F[j] ++ P[a] # P[a + j]}
    <2> SUFFICES ASSUME wrong # {} PROVE FALSE
        BY <1>2
    <2>1. PICK m \in wrong : \A j \in wrong : m <= j
        BY LeastNumber
    <2>2. m \in Nat /\ m <= b - a /\ F[m] ++ P[a] # P[a + m]
        BY <2>1
    <2>3. m # 0
        <3>1. F[0] ++ P[a] = P[a + 0]
            <4>1. P[a] \in Rational /\ a + 0 = a
                BY <1>2, <1>5
            <4> QED BY <1>4, <4>1, Neutral
        <3> HIDE DEF wrong
        <3> QED BY <2>2, <3>1
    <2>4. m - 1 \in Nat /\ m - 1 \notin wrong /\ m \in 1 .. b - a /\ a + m \in 1 .. Len(s)
          /\ (a + m) - 1 = a + (m - 1) /\ m - 1 \in 0 .. b - a
        BY <1>2, <2>1, <2>2, <2>3
    <2>5. F[m - 1] ++ P[a] = P[a + (m - 1)]
        BY <1>2, <2>4
    <2> HIDE DEF wrong
    <2>6. F[m - 1] \in Rational /\ P[a] \in Rational /\ s[a + m] \in Rational
        <3>1. F[m - 1] \in Rational
            BY <1>4, <2>4
        <3>2. P[a] \in Rational
            BY <1>2, <1>5
        <3> QED BY <2>4, <3>1, <3>2
    <2>7. F[m] = F[m - 1] ++ s[a + m] /\ P[a + m] = P[a + (m - 1)] ++ s[a + m]
        <3>1. F[m] = F[m - 1] ++ s[a + m]
            BY <1>1, <1>4, <2>4
        <3>2. P[a + m] = P[(a + m) - 1] ++ s[a + m]
            BY <1>5, <2>4
        <3> QED BY <2>4, <3>1, <3>2
    <2>8. (F[m - 1] ++ s[a + m]) ++ P[a] = (F[m - 1] ++ P[a]) ++ s[a + m]
        BY <2>6, SumAssociates, SumCommutes
    <2> QED BY <2>2, <2>5, <2>7, <2>8
<1>7. F[b - a] ++ P[a] = P[b] /\ F[b - a] \in Rational /\ P[a] \in Rational /\ P[b] \in Rational
    <2>1. b - a \in 0 .. b - a /\ a + (b - a) = b /\ b \in 0 .. Len(s)
        BY <1>2
    <2>2. F[b - a] \in Rational /\ P[a] \in Rational /\ P[b] \in Rational
        BY <1>4, <1>5, <2>1
    <2>3. F[b - a] ++ P[a] = P[a + (b - a)]
        BY <1>6, <2>1
    <2> QED BY <2>1, <2>2, <2>3
<1>8. F[b - a] = P[b] -- P[a]
    BY <1>7, DifferenceIs
<1> QED BY <1>1, <1>3, <1>7, <1>8 DEF t

\* Taking a value in and another one out.
LEMMA MovesOn ==
    ASSUME NEW a \in Rational, NEW b \in Rational, NEW v \in Rational, NEW l \in Rational
    PROVE  /\ ((a -- b) ++ v) -- l = (a ++ v) -- (b ++ l)
           /\ ((a -- b) ++ v) -- l \in Rational
<1> DEFINE d == a -- b
           x == (d ++ v) -- l
<1>1. d \in Rational /\ d ++ b = a
    BY Difference
<1> HIDE DEF d
<1>2. d ++ v \in Rational /\ x \in Rational /\ x ++ l = d ++ v
    BY <1>1, SumType, Difference
<1> HIDE DEF x
<1>3. x ++ (b ++ l) = (x ++ l) ++ b
    BY <1>2, SumAssociates, SumCommutes
<1>4. (d ++ v) ++ b = (d ++ b) ++ v
    BY <1>1, SumAssociates, SumCommutes
<1>5. x ++ (b ++ l) = a ++ v /\ b ++ l \in Rational /\ a ++ v \in Rational
    BY <1>1, <1>2, <1>3, <1>4, SumType
<1>6. (a ++ v) -- (b ++ l) = x
    BY <1>2, <1>5, DifferenceIs
<1> QED BY <1>2, <1>6 DEF x, d

\* The running sum is the sum of the window.
LEMMA SmaIs ==
    ASSUME NEW values \in Seq(Rational), NEW window \in Nat \ {0}, NEW i \in 1 .. Len(values)
    PROVE  Sma(values, window)[i] =
             IF i < window THEN None ELSE Mean(SubSeq(values, (i - window) + 1, i))
<1> DEFINE n == Len(values)
           left(k) == IF k > window THEN values[k - window] ELSE Zero
           step(x, k) == (x ++ values[k]) -- left(k)
           body(g) == [k \in 0 .. n |->
                         IF k = 0 THEN <<Zero>> ELSE Append(g[k - 1], step(g[k - 1][k], k))]
           f == CHOOSE g : g = body(g)
           G == [y \in Rational \X (1 .. n) |-> step(y[1], y[2])]
           gone(k) == IF k > window THEN k - window ELSE 0
<1>1. n \in Nat /\ window \in Nat /\ window > 0 /\ i \in 1 .. n
      /\ \A k \in 1 .. n : values[k] \in Rational
    OBVIOUS
<1>2. PICK P : Adds(P, values)
    BY SumOfIs
<1>3. P \in [0 .. n -> Rational] /\ P[0] = Zero /\ \A k \in 1 .. n : P[k] = P[k - 1] ++ values[k]
    BY <1>2 DEF Adds
<1> DEFINE May == [k \in 0 .. n |-> {P[k] -- P[gone(k)]}]
<1> HIDE DEF n
<1>4. ASSUME NEW k \in 0 .. n
      PROVE  P[k] \in Rational /\ P[gone(k)] \in Rational /\ P[k] -- P[gone(k)] \in Rational
    <2>1. k \in 0 .. n /\ gone(k) \in 0 .. n
        BY <1>1
    <2> HIDE DEF gone
    <2>2. P[k] \in Rational /\ P[gone(k)] \in Rational
        BY <1>3, <2>1
    <2> QED BY <2>2, Difference
<1>5. Zero \in May[0]
    <2>1. P[0] -- P[gone(0)] = Zero
        <3>1. gone(0) = 0
            BY <1>1
        <3>2. Zero -- Zero = Zero
            BY Constants, NoDifference
        <3> HIDE DEF gone
        <3> QED BY <1>3, <3>1, <3>2
    <2> HIDE DEF gone
    <2> QED BY <1>1, <2>1
<1>6. ASSUME NEW k \in 1 .. n, NEW x \in Rational
      PROVE  left(k) \in Rational /\ G[<<x, k>>] = step(x, k)
    <2>1. left(k) \in Rational
        <3>1. CASE k > window
            <4>1. k - window \in 1 .. n
                BY <1>1, <3>1
            <4> QED BY <1>1, <3>1, <4>1
        <3>2. CASE ~(k > window)
            BY <3>2, Constants
        <3> QED BY <3>1, <3>2
    <2>2. <<x, k>> \in Rational \X (1 .. n)
        OBVIOUS
    <2> HIDE DEF step
    <2>3. G[<<x, k>>] = step(x, k)
        BY <2>2
    <2> QED BY <2>1, <2>3
<1>7. ASSUME NEW k \in 1 .. n
      PROVE  step(P[k - 1] -- P[gone(k - 1)], k) = P[k] -- P[gone(k)]
    <2>1. k - 1 \in 0 .. n /\ k \in 0 .. n
        BY <1>1
    <2>2. P[k - 1] \in Rational /\ P[gone(k - 1)] \in Rational /\ values[k] \in Rational
        BY <1>1, <1>4, <2>1
    <2>3. left(k) \in Rational
        BY <1>6, Constants
    <2>4. P[gone(k - 1)] ++ left(k) = P[gone(k)]
        <3>1. CASE k > window
            <4>1. gone(k - 1) = (k - window) - 1 /\ gone(k) = k - window /\ k - window \in 1 .. n
                BY <1>1, <3>1
            <4>2. left(k) = values[k - window]
                BY <3>1
            <4>3. P[k - window] = P[(k - window) - 1] ++ values[k - window]
                BY <1>3, <4>1
            <4> HIDE DEF gone, left
            <4> QED BY <4>1, <4>2, <4>3
        <3>2. CASE ~(k > window)
            <4>1. gone(k - 1) = 0 /\ gone(k) = 0 /\ left(k) = Zero
                BY <1>1, <3>2
            <4> HIDE DEF gone, left
            <4> QED BY <1>3, <4>1, Neutral, Constants
        <3> QED BY <3>1, <3>2
    <2>5. P[k] = P[k - 1] ++ values[k]
        BY <1>3
    <2> HIDE DEF gone, left
    <2>6. ((P[k - 1] -- P[gone(k - 1)]) ++ values[k]) -- left(k)
             = (P[k - 1] ++ values[k]) -- (P[gone(k - 1)] ++ left(k))
        <3> DEFINE a == P[k - 1]
                   b == P[gone(k - 1)]
                   v == values[k]
                   l == left(k)
        <3>1. a \in Rational /\ b \in Rational /\ v \in Rational /\ l \in Rational
            BY <2>2, <2>3
        <3> HIDE DEF a, b, v, l
        <3>2. ((a -- b) ++ v) -- l = (a ++ v) -- (b ++ l)
            BY <3>1, MovesOn
        <3> QED BY <3>2 DEF a, b, v, l
    <2> QED BY <2>4, <2>5, <2>6
<1>8. Loops(n, Rational, May, Zero, G)
    <2>1. ASSUME NEW k \in 0 .. n PROVE {P[k] -- P[gone(k)]} \in SUBSET Rational
        <3>1. P[k] -- P[gone(k)] \in Rational
            BY <1>4
        <3> HIDE DEF gone
        <3> QED BY <3>1
    <2>2. May \in [0 .. n -> SUBSET Rational]
        BY <2>1
    <2>3. ASSUME NEW k \in 1 .. n, NEW x \in May[k - 1] PROVE G[<<x, k>>] \in May[k]
        <3>1. k - 1 \in 0 .. n /\ k \in 0 .. n
            BY <1>1
        <3> HIDE DEF gone
        <3>2. x = P[k - 1] -- P[gone(k - 1)]
            BY <3>1
        <3>3. x \in Rational
            BY <1>4, <3>1, <3>2
        <3>4. G[<<x, k>>] = P[k] -- P[gone(k)]
            <4> HIDE DEF step, G
            <4> QED BY <1>6, <1>7, <3>2, <3>3
        <3> QED BY <3>1, <3>4
    <2> HIDE DEF May, G
    <2> QED BY <1>5, <2>2, <2>3 DEF Loops
<1>9. PICK F : Runs(F, n, Rational, May, Zero, G)
    <2> HIDE DEF May, G
    <2> QED BY <1>1, <1>8, LoopExists
<1>10. F = body(F)
    <2>1. ASSUME NEW k \in 0 .. n
          PROVE  F[k] = IF k = 0 THEN <<Zero>> ELSE Append(F[k - 1], step(F[k - 1][k], k))
        <3> HIDE DEF May, G, step
        <3>1. CASE k = 0
            BY <1>9, <3>1 DEF Runs
        <3>2. CASE k # 0
            <4>1. k \in 1 .. n
                BY <1>1, <3>2
            <4>2. F[k - 1] \in Seq(Rational) /\ Len(F[k - 1]) = k
                  /\ F[k] = Append(F[k - 1], G[<<F[k - 1][k], k>>])
                BY <1>9, <4>1 DEF Runs
            <4>3. F[k - 1][k] \in Rational
                BY <4>1, <4>2
            <4>4. G[<<F[k - 1][k], k>>] = step(F[k - 1][k], k)
                BY <1>6, <4>1, <4>3
            <4> QED BY <3>2, <4>2, <4>4
        <3> QED BY <3>1, <3>2
    <2>2. F = [k \in 0 .. n |-> F[k]]
        BY <1>9 DEF Runs
    <2> HIDE DEF step
    <2> QED BY <2>1, <2>2
<1>11. f = body(f)
    BY <1>10, Zenon
<1> DEFINE sums == Tail(f[n])
<1>12. Sma(values, window) =
         [k \in DOMAIN values |-> IF k < window THEN None ELSE sums[k] // R(window)]
    BY Zenon DEF Sma, Scan, n
<1> HIDE DEF f
<1>13. ASSUME NEW k \in 0 .. n
       PROVE  f[k] = IF k = 0 THEN <<Zero>> ELSE Append(f[k - 1], step(f[k - 1][k], k))
    <2>1. f[k] = body(f)[k]
        BY <1>11, Zenon
    <2> HIDE DEF step
    <2>2. body(f)[k] = IF k = 0 THEN <<Zero>> ELSE Append(f[k - 1], step(f[k - 1][k], k))
        OBVIOUS
    <2> HIDE DEF body
    <2> QED BY <2>1, <2>2
<1>14. Passed(sums, n, Rational, May, Zero, G)
    <2> HIDE DEF May, G, step
    <2>1. f[0] = <<Zero>>
        BY <1>1, <1>13
    <2>2. ASSUME NEW k \in 1 .. n, NEW x \in Seq(Rational),
                 f[k - 1] = x, Len(x) = k, x[k] \in May[k - 1]
          PROVE  f[k] = Append(x, G[<<x[k], k>>])
        <3>1. k \in 0 .. n /\ k # 0 /\ x[k] \in Rational
            BY <1>1, <2>2
        <3>2. f[k] = Append(x, step(x[k], k))
            BY <1>13, <2>2, <3>1
        <3> QED BY <1>6, <3>1, <3>2
    <2> QED BY <1>1, <1>8, <2>1, <2>2, LoopIs
<1>15. sums[i] = P[i] -- P[gone(i)]
    <2> HIDE DEF sums, gone, G
    <2>1. sums[i] \in May[i]
        <3> HIDE DEF May
        <3> QED BY <1>1, <1>14, Zenon DEF Passed
    <2>2. i \in 0 .. n
        BY <1>1
    <2> QED BY <2>1, <2>2
<1> HIDE DEF sums
<1>16. CASE i < window
    BY <1>1, <1>12, <1>16 DEF n
<1>17. CASE ~(i < window)
    <2>1. i - window \in 0 .. Len(values) /\ i \in i - window .. Len(values)
          /\ i - (i - window) = window
        BY <1>1, <1>17 DEF n
    <2>2. gone(i) = i - window
        <3>1. CASE i = window
            BY <1>1, <3>1
        <3>2. CASE i > window
            BY <3>2
        <3> QED BY <1>1, <1>17, <3>1, <3>2
    <2> DEFINE part == SubSeq(values, (i - window) + 1, i)
    <2>3. SumOf(part) = P[i] -- P[i - window] /\ Len(part) = window
        BY <1>2, <2>1, StretchSum
    <2>4. Mean(part) = sums[i] // R(window)
        <3> HIDE DEF part, gone
        <3> QED BY <1>15, <2>2, <2>3 DEF Mean
    <2>5. Sma(values, window)[i] = sums[i] // R(window)
        BY <1>1, <1>12, <1>17 DEF n
    <2> QED BY <1>17, <2>4, <2>5
<1> QED BY <1>16, <1>17

-----------------------------------------------------------------------------
(* The range of an average *)

\* Some of the first k values are at most x, and some at least.
InRange(x, s, k) ==
    /\ x \in Rational
    /\ \E j \in 1 .. k : s[j] \preceq x
    /\ \E j \in 1 .. k : x \preceq s[j]

\* The smallest and the largest of the first k values.
Spans(lo, hi, s, k) ==
    /\ lo \in 1 .. k /\ hi \in 1 .. k
    /\ \A j \in 1 .. k : s[lo] \preceq s[j] /\ s[j] \preceq s[hi]

LEMMA Extremes ==
    ASSUME NEW s \in Seq(Rational), NEW k \in 1 .. Len(s)
    PROVE  \E lo, hi : Spans(lo, hi, s, k)
<1> DEFINE wrong == {m \in Nat : m \in 1 .. Len(s) /\ ~ \E lo, hi : Spans(lo, hi, s, m)}
<1>0. Len(s) \in Nat /\ \A j \in 1 .. Len(s) : s[j] \in Rational
    OBVIOUS
<1> SUFFICES ASSUME wrong # {} PROVE FALSE
    BY <1>0
<1>1. PICK m \in wrong : \A j \in wrong : m <= j
    BY LeastNumber
<1>2. m \in Nat /\ m \in 1 .. Len(s)
    BY <1>1
<1>3. ASSUME NEW lo, NEW hi, Spans(lo, hi, s, m) PROVE FALSE
    BY <1>1, <1>3
<1>4. CASE m = 1
    <2>1. s[1] \in Rational /\ s[1] \preceq s[1]
        BY <1>0, <1>2, <1>4, Ordered
    <2>2. Spans(1, 1, s, m)
        BY <1>4, <2>1 DEF Spans
    <2> QED BY <1>3, <2>2
<1>5. CASE m # 1
    <2>1. m - 1 \in 1 .. Len(s) /\ m - 1 \in Nat /\ m - 1 \notin wrong
        <3>1. m - 1 \in 1 .. Len(s) /\ m - 1 \in Nat /\ ~(m <= m - 1)
            BY <1>0, <1>2, <1>5
        <3> HIDE DEF wrong
        <3> QED BY <1>1, <3>1
    <2>2. PICK lo, hi : Spans(lo, hi, s, m - 1)
        BY <2>1
    <2> HIDE DEF wrong
    <2> DEFINE low == IF s[lo] \preceq s[m] THEN lo ELSE m
               high == IF s[m] \preceq s[hi] THEN hi ELSE m
    <2>3. lo \in 1 .. m /\ hi \in 1 .. m /\ m \in 1 .. m
          /\ \A j \in 1 .. m - 1 : s[lo] \preceq s[j] /\ s[j] \preceq s[hi]
        BY <1>2, <2>1, <2>2 DEF Spans
    <2>4. \A j \in 1 .. m : s[j] \in Rational
        BY <1>0, <1>2
    <2>5. low \in 1 .. m /\ s[low] \preceq s[lo] /\ s[low] \preceq s[m]
        BY <2>3, <2>4, Ordered
    <2>6. high \in 1 .. m /\ s[hi] \preceq s[high] /\ s[m] \preceq s[high]
        BY <2>3, <2>4, Ordered
    <2> HIDE DEF low, high
    <2>7. ASSUME NEW j \in 1 .. m PROVE s[low] \preceq s[j] /\ s[j] \preceq s[high]
        <3>1. CASE j = m
            BY <2>5, <2>6, <3>1
        <3>2. CASE j # m
            <4>1. j \in 1 .. m - 1
                BY <1>2, <3>2
            <4>2. s[lo] \preceq s[j] /\ s[j] \preceq s[hi]
                BY <2>3, <4>1
            <4>3. /\ s[lo] \in Rational /\ s[hi] \in Rational /\ s[low] \in Rational
                  /\ s[high] \in Rational /\ s[j] \in Rational
                BY <2>3, <2>4, <2>5, <2>6
            <4>4. s[low] \preceq s[j]
                BY <2>5, <4>2, <4>3, OrderedSteps
            <4>5. s[j] \preceq s[high]
                BY <2>6, <4>2, <4>3, OrderedSteps
            <4> QED BY <4>4, <4>5
        <3> QED BY <3>1, <3>2
    <2>8. Spans(low, high, s, m)
        BY <2>5, <2>6, <2>7 DEF Spans
    <2> QED BY <1>3, <2>8
<1> QED BY <1>4, <1>5

LEMMA SumsGrow ==
    ASSUME NEW a \in Rational, NEW b \in Rational, NEW c \in Rational, NEW d \in Rational,
           a \preceq b, c \preceq d
    PROVE  a ++ c \preceq b ++ d
<1>1. a ++ c \preceq b ++ c
    BY SumOrder
<1>2. c ++ b \preceq d ++ b
    BY SumOrder
<1>3. a ++ c \in Rational /\ b ++ c \in Rational /\ b ++ d \in Rational
      /\ c ++ b = b ++ c /\ d ++ b = b ++ d
    BY SumType, SumCommutes
<1> QED BY <1>1, <1>2, <1>3, OrderedSteps

LEMMA WholesOrder ==
    ASSUME NEW m \in Int, NEW n \in Int
    PROVE  R(m) \preceq R(n) <=> m <= n
<1> DEFINE a == R(m)
           b == R(n)
<1>1. a \in Rational /\ a[1] = m /\ a[2] = 1 /\ b \in Rational /\ b[1] = n /\ b[2] = 1
    BY WholeIsRational
<1> HIDE DEF a, b
<1>2. a \preceq b <=> a[1] * b[2] <= b[1] * a[2]
    BY <1>1, Comparison
<1>3. a \preceq b <=> m <= n
    BY <1>1, <1>2
<1> QED BY <1>3 DEF a, b

\* A sum of k numbers from c on is at least k times c.
LEMMA SumAbove ==
    ASSUME NEW s \in Seq(Rational), NEW c \in Rational, NEW up \in BOOLEAN,
           \A j \in 1 .. Len(s) : IF up THEN c \preceq s[j] ELSE s[j] \preceq c
    PROVE  /\ SumOf(s) \in Rational
           /\ IF up THEN c ** R(Len(s)) \preceq SumOf(s) ELSE SumOf(s) \preceq c ** R(Len(s))
<1>1. PICK F : Adds(F, s) /\ SumOf(s) = F[Len(s)]
    BY SumOfIs
<1>2. F \in [0 .. Len(s) -> Rational] /\ F[0] = Zero
      /\ \A k \in 1 .. Len(s) : F[k] = F[k - 1] ++ s[k]
    BY <1>1 DEF Adds
<1>3. Len(s) \in Nat /\ \A j \in 1 .. Len(s) : s[j] \in Rational
    OBVIOUS
<1> DEFINE Holds(k) == IF up THEN c ** R(k) \preceq F[k] ELSE F[k] \preceq c ** R(k)
           wrong == {k \in Nat : k <= Len(s) /\ ~Holds(k)}
<1>4. Holds(Len(s))
    <2> SUFFICES ASSUME wrong # {} PROVE FALSE
        BY <1>3
    <2>1. PICK m \in wrong : \A k \in wrong : m <= k
        BY LeastNumber
    <2>2. m \in Nat /\ m <= Len(s) /\ ~Holds(m)
        BY <2>1
    <2>3. m # 0
        <3>1. c ** Zero = Zero /\ Zero \preceq Zero
            BY Neutral, Ordered, Constants
        <3>2. c ** R(0) = Zero
            BY <3>1 DEF Zero
        <3>3. Holds(0)
            BY <1>2, <3>1, <3>2
        <3> HIDE DEF Holds
        <3> QED BY <2>2, <3>3
    <2>4. m - 1 \in Nat /\ m - 1 \notin wrong /\ m - 1 <= Len(s) /\ m \in 1 .. Len(s)
          /\ m - 1 \in 0 .. Len(s) /\ (m - 1) + 1 = m
        BY <1>3, <2>1, <2>2, <2>3
    <2>5. Holds(m - 1)
        BY <2>4
    <2> HIDE DEF wrong
    <2> DEFINE less == c ** R(m - 1)
               sum == F[m - 1]
               x == s[m]
    <2>6. sum \in Rational /\ x \in Rational /\ F[m] = sum ++ x
        BY <1>2, <1>3, <2>4
    <2>7. less \in Rational /\ c ** R(m) = less ++ c
        <3>1. R(m) = R(m - 1) ++ R(1) /\ R(m - 1) \in Rational /\ R(1) \in Rational
            BY <2>4, WholesAdd, WholeIsRational
        <3>2. c ** (R(m - 1) ++ R(1)) = (c ** R(m - 1)) ++ (c ** R(1))
            BY <3>1, ProductDistributes
        <3>3. c ** R(1) = c
            BY Neutral DEF One
        <3> QED BY <3>1, <3>2, <3>3, ProductType
    <2>8. CASE up
        <3>1. less \preceq sum /\ c \preceq x
            BY <2>4, <2>5, <2>8
        <3> HIDE DEF less, sum, x
        <3>2. less ++ c \preceq sum ++ x
            BY <2>6, <2>7, <3>1, SumsGrow
        <3> QED BY <2>2, <2>6, <2>7, <2>8, <3>2
    <2>9. CASE ~up
        <3>1. sum \preceq less /\ x \preceq c
            BY <2>4, <2>5, <2>9
        <3> HIDE DEF less, sum, x
        <3>2. sum ++ x \preceq less ++ c
            BY <2>6, <2>7, <3>1, SumsGrow
        <3> QED BY <2>2, <2>6, <2>7, <2>9, <3>2
    <2> QED BY <2>8, <2>9
<1>5. F[Len(s)] \in Rational
    BY <1>2, <1>3
<1> QED BY <1>1, <1>4, <1>5

\* A mean is between any two numbers its values are between.
LEMMA MeanBetween ==
    ASSUME NEW s \in Seq(Rational), Len(s) > 0, NEW lo \in Rational, NEW hi \in Rational,
           \A j \in 1 .. Len(s) : lo \preceq s[j] /\ s[j] \preceq hi
    PROVE  Mean(s) \in Rational /\ lo \preceq Mean(s) /\ Mean(s) \preceq hi
<1> DEFINE n == Len(s)
           sum == SumOf(s)
           mean == sum // R(n)
<1>1. n \in Nat \ {0}
    OBVIOUS
<1>2. R(n) \in Rational /\ Positive(R(n)) /\ R(n) # Zero
    BY <1>1, CloseIsPositive
<1>3. sum \in Rational /\ lo ** R(n) \preceq sum
    BY SumAbove
<1>4. sum \preceq hi ** R(n)
    BY SumAbove
<1> HIDE DEF sum, n
<1>5. mean \in Rational /\ mean ** R(n) = sum
    BY <1>2, <1>3, Quotient
<1> HIDE DEF mean
<1>6. lo \preceq mean /\ mean \preceq hi
    BY <1>2, <1>3, <1>4, <1>5, ScaledBack
<1>7. Mean(s) = mean
    BY DEF Mean, mean, sum, n
<1> QED BY <1>5, <1>6, <1>7

LEMMA MeanInRange ==
    ASSUME NEW s \in Seq(Rational), NEW k \in 1 .. Len(s)
    PROVE  InRange(Mean(SubSeq(s, 1, k)), s, k)
<1> DEFINE t == SubSeq(s, 1, k)
           mean == Mean(t)
<1>1. t \in Seq(Rational) /\ Len(t) = k /\ \A j \in 1 .. k : t[j] = s[j]
    OBVIOUS
<1>2. PICK lo, hi : Spans(lo, hi, s, k)
    BY Extremes
<1>3. lo \in 1 .. k /\ hi \in 1 .. k /\ s[lo] \in Rational /\ s[hi] \in Rational
      /\ \A j \in 1 .. k : s[lo] \preceq s[j] /\ s[j] \preceq s[hi]
    BY <1>2 DEF Spans
<1> HIDE DEF t
<1>4. mean \in Rational /\ s[lo] \preceq mean /\ mean \preceq s[hi]
    <2> DEFINE a == s[lo]
               b == s[hi]
    <2>1. a \in Rational /\ b \in Rational /\ Len(t) > 0
          /\ \A j \in 1 .. Len(t) : a \preceq t[j] /\ t[j] \preceq b
        BY <1>1, <1>3
    <2> HIDE DEF a, b
    <2>2. Mean(t) \in Rational /\ a \preceq Mean(t) /\ Mean(t) \preceq b
        BY <1>1, <2>1, MeanBetween
    <2> QED BY <2>2 DEF a, b
<1> HIDE DEF mean
<1>5. InRange(mean, s, k)
    BY <1>3, <1>4 DEF InRange
<1> QED BY <1>5 DEF mean, t

\* A weighted mean of two numbers is between any two they are between.
LEMMA WeightedBetween ==
    ASSUME NEW w \in Rational, Zero \preceq w, w \preceq One, NEW x \in Rational,
           NEW y \in Rational, NEW lo \in Rational, NEW hi \in Rational,
           lo \preceq x, x \preceq hi, lo \preceq y, y \preceq hi
    PROVE  LET mix == (w ** x) ++ ((One -- w) ** y)
           IN  mix \in Rational /\ lo \preceq mix /\ mix \preceq hi
<1> DEFINE u == One -- w
           mix(a, b) == (w ** a) ++ (u ** b)
<1>1. u \in Rational /\ Zero \preceq u /\ u ++ w = One
    <2>1. u \in Rational /\ u ++ w = One
        BY Constants, Difference
    <2> HIDE DEF u
    <2>2. Zero ++ w \preceq u ++ w
        BY <2>1, Neutral
    <2>3. Zero \preceq u
        BY <2>1, <2>2, Constants, SumOrder
    <2> QED BY <2>1, <2>3
<1> HIDE DEF u
<1>2. ASSUME NEW a \in Rational, NEW b \in Rational PROVE mix(a, b) \in Rational
    BY <1>1, SumType, ProductType
<1>3. ASSUME NEW c \in Rational PROVE mix(c, c) = c
    <2>1. c ** (w ++ u) = (c ** w) ++ (c ** u)
        BY <1>1, ProductDistributes
    <2>2. w ++ u = One /\ c ** One = c /\ c ** w = w ** c /\ c ** u = u ** c
        BY <1>1, SumCommutes, ProductCommutes, Neutral
    <2> QED BY <2>1, <2>2
<1>4. ASSUME NEW a \in Rational, NEW b \in Rational, NEW c \in Rational, NEW d \in Rational,
             a \preceq b, c \preceq d
      PROVE  mix(a, c) \preceq mix(b, d)
    <2>1. a ** w \preceq b ** w
        BY <1>4, ProductOrder
    <2>2. c ** u \preceq d ** u
        BY <1>1, <1>4, ProductOrder
    <2>3. a ** w = w ** a /\ b ** w = w ** b /\ c ** u = u ** c /\ d ** u = u ** d
          /\ w ** a \in Rational /\ w ** b \in Rational /\ u ** c \in Rational
          /\ u ** d \in Rational
        BY <1>1, ProductCommutes, ProductType
    <2> QED BY <2>1, <2>2, <2>3, SumsGrow
<1>5. lo \preceq mix(x, y)
    <2>1. mix(lo, lo) \preceq mix(x, y)
        BY <1>4
    <2> HIDE DEF mix
    <2> QED BY <1>3, <2>1
<1>6. mix(x, y) \preceq hi
    <2>1. mix(x, y) \preceq mix(hi, hi)
        BY <1>4
    <2> HIDE DEF mix
    <2> QED BY <1>3, <2>1
<1> QED BY <1>2, <1>5, <1>6 DEF u

\* Moving part of the way to the next value stays in the range.
LEMMA RangeStep ==
    ASSUME NEW s \in Seq(Rational), NEW k \in 1 .. Len(s), k > 1, NEW e,
           InRange(e, s, k - 1), NEW w \in Rational, Zero \preceq w, w \preceq One
    PROVE  InRange((w ** s[k]) ++ ((One -- w) ** e), s, k)
<1>1. PICK lo, hi : Spans(lo, hi, s, k)
    BY Extremes
<1>2. /\ lo \in 1 .. k /\ hi \in 1 .. k
      /\ \A j \in 1 .. k : s[lo] \preceq s[j] /\ s[j] \preceq s[hi] /\ s[j] \in Rational
    BY <1>1 DEF Spans
<1> DEFINE a == s[lo]
           b == s[hi]
           x == s[k]
<1>3. a \in Rational /\ b \in Rational /\ x \in Rational /\ e \in Rational
      /\ a \preceq x /\ x \preceq b
    BY <1>2 DEF InRange
<1>4. a \preceq e
    <2>1. PICK j \in 1 .. k - 1 : s[j] \preceq e
        BY DEF InRange
    <2>2. s[j] \in Rational /\ a \preceq s[j]
        BY <1>2
    <2> HIDE DEF a
    <2> QED BY <1>3, <2>1, <2>2, OrderedSteps
<1>5. e \preceq b
    <2>1. PICK j \in 1 .. k - 1 : e \preceq s[j]
        BY DEF InRange
    <2>2. s[j] \in Rational /\ s[j] \preceq b
        BY <1>2
    <2> HIDE DEF b
    <2> QED BY <1>3, <2>1, <2>2, OrderedSteps
<1> DEFINE mix == (w ** x) ++ ((One -- w) ** e)
<1>6. mix \in Rational /\ a \preceq mix /\ mix \preceq b
    <2> HIDE DEF a, b, x
    <2> QED BY <1>3, <1>4, <1>5, WeightedBetween
<1> HIDE DEF mix
<1>7. InRange(mix, s, k)
    BY <1>2, <1>6 DEF InRange
<1> QED BY <1>7 DEF mix

\* The weight of the newest value is a share of one.
LEMMA AlphaIs ==
    ASSUME NEW window \in Nat \ {0}
    PROVE  LET alpha == Q(2, window + 1)
           IN  alpha \in Rational /\ Zero \preceq alpha /\ alpha \preceq One
<1> DEFINE alpha == Q(2, window + 1)
           r == R(window + 1)
<1>1. window + 1 \in Nat \ {0} /\ 2 \in Nat \ {0} /\ 2 <= window + 1 /\ 2 \in Int
      /\ window + 1 \in Int
    OBVIOUS
<1>2. /\ alpha \in Rational /\ Positive(alpha) /\ r ** alpha = R(2)
      /\ r \in Rational /\ Positive(r)
    BY <1>1, CloseIsPositive
<1>3. R(2) \preceq r
    BY <1>1, WholesOrder
<1> HIDE DEF alpha, r
<1>4. alpha ** r \preceq One ** r
    BY <1>2, <1>3, ProductCommutes, Neutral
<1>5. alpha \preceq One
    BY <1>2, <1>4, Constants, ScaledBack
<1>6. Zero \preceq alpha
    BY <1>2, Signs DEF Positive
<1> QED BY <1>2, <1>5, <1>6 DEF alpha

\* A smoothed average is none before its window is full, and then stays in the
\* range of what it has seen.
LEMMA EmaIs ==
    ASSUME NEW values \in Seq(Rational), NEW window \in Nat \ {0}, None \notin Rational,
           NEW i \in 1 .. Len(values)
    PROVE  IF i < window THEN Ema(values, window)[i] = None
           ELSE InRange(Ema(values, window)[i], values, i)
<1> DEFINE n == Len(values)
           start == FirstKnown(values)
           seed == start + window - 1
           alpha == Q(2, window + 1)
           step(e, k) == IF k < seed THEN None
                         ELSE IF k = seed THEN Mean(SubSeq(values, start, seed))
                         ELSE IF values[k] = None THEN e
                         ELSE (alpha ** values[k]) ++ ((One -- alpha) ** e)
           body(g) == [k \in 0 .. n |->
                         IF k = 0 THEN <<None>> ELSE Append(g[k - 1], step(g[k - 1][k], k))]
           f == CHOOSE g : g = body(g)
           U == Rational \cup {None}
           G == [y \in U \X (1 .. n) |-> step(y[1], y[2])]
           May == [k \in 0 .. n |->
                   IF k < window THEN {None} ELSE {x \in Rational : InRange(x, values, k)}]
<1>1. /\ n \in Nat /\ n > 0 /\ window \in Nat /\ window > 0 /\ i \in 1 .. n
      /\ DOMAIN values = 1 .. n
      /\ \A k \in 1 .. n : values[k] \in Rational /\ values[k] # None
    OBVIOUS
<1>2. start = 1
    <2> DEFINE known == {k \in DOMAIN values : values[k] # None}
               first == CHOOSE k \in known : \A j \in known : k <= j
    <2>1. known = 1 .. n
        BY <1>1
    <2>2. start = first
        <3>1. known # {}
            BY <1>1, <2>1
        <3> QED BY <3>1 DEF FirstKnown
    <2> HIDE DEF known
    <2>3. 1 \in known /\ \A j \in known : 1 <= j
        BY <1>1, <2>1
    <2>4. first \in known /\ \A j \in known : first <= j
        BY <2>3
    <2>5. first \in 1 .. n /\ first <= 1
        BY <2>1, <2>3, <2>4
    <2> HIDE DEF first
    <2> QED BY <1>1, <2>2, <2>5
<1> DEFINE whole == Tail(f[n])
<1>3. Ema(values, window) =
        IF start = 0 \/ n - start + 1 < window THEN [k \in DOMAIN values |-> None] ELSE whole
    BY Zenon DEF Ema, Scan
<1> HIDE DEF start, n
<1>4. seed = window
    BY <1>1, <1>2
<1> HIDE DEF seed
<1>5. alpha \in Rational /\ Zero \preceq alpha /\ alpha \preceq One
    BY AlphaIs
<1> HIDE DEF alpha
<1>6. CASE n < window
    <2>1. n - start + 1 < window
        BY <1>1, <1>2, <1>6
    <2>2. Ema(values, window) = [k \in DOMAIN values |-> None]
        BY <1>3, <2>1
    <2> QED BY <1>1, <1>6, <2>2
<1>7. CASE ~(n < window)
    <2>1. Ema(values, window) = whole
        <3>1. start # 0 /\ ~(n - start + 1 < window)
            BY <1>1, <1>2, <1>7
        <3> HIDE DEF whole
        <3> QED BY <1>3, <3>1
    <2>2. ASSUME NEW k \in 1 .. n, NEW x \in May[k - 1]
          PROVE  x \in U /\ G[<<x, k>>] = step(x, k) /\ step(x, k) \in May[k]
        <3>1. k - 1 \in 0 .. n /\ k \in 0 .. n
            BY <1>1
        <3>2. x \in U
            BY <3>1
        <3>3. G[<<x, k>>] = step(x, k)
            <4>1. <<x, k>> \in U \X (1 .. n)
                BY <3>2
            <4> HIDE DEF step
            <4> QED BY <4>1
        <3>4. CASE k < window
            BY <1>4, <3>1, <3>4
        <3>5. CASE k = window
            <4> DEFINE part == SubSeq(values, 1, k)
            <4>1. step(x, k) = Mean(part)
                BY <1>1, <1>2, <1>4, <3>5
            <4>2. InRange(Mean(part), values, k)
                BY MeanInRange DEF n
            <4> HIDE DEF part, step
            <4>3. Mean(part) \in Rational
                BY <4>2 DEF InRange
            <4>4. May[k] = {y \in Rational : InRange(y, values, k)}
                BY <1>1, <3>1, <3>5
            <4> HIDE DEF May
            <4> QED BY <3>2, <3>3, <4>1, <4>2, <4>3, <4>4
        <3>6. CASE k > window
            <4> DEFINE mix == (alpha ** values[k]) ++ ((One -- alpha) ** x)
            <4>1. step(x, k) = mix
                BY <1>1, <1>4, <3>6
            <4>2. May[k - 1] = {y \in Rational : InRange(y, values, k - 1)}
                  /\ May[k] = {y \in Rational : InRange(y, values, k)}
                BY <1>1, <3>1, <3>6
            <4> HIDE DEF May, step
            <4>3. InRange(x, values, k - 1) /\ k > 1
                BY <1>1, <3>6, <4>2
            <4>4. InRange(mix, values, k)
                BY <1>5, <4>3, RangeStep DEF n
            <4> HIDE DEF mix
            <4>5. mix \in Rational
                BY <4>4 DEF InRange
            <4> QED BY <3>2, <3>3, <4>1, <4>2, <4>4, <4>5
        <3> QED BY <1>1, <3>2, <3>3, <3>4, <3>5, <3>6
    <2>3. Loops(n, U, May, None, G)
        <3>1. May \in [0 .. n -> SUBSET U]
            OBVIOUS
        <3>2. None \in May[0]
            BY <1>1
        <3> HIDE DEF May, G, U, step
        <3> QED BY <2>2, <3>1, <3>2 DEF Loops
    <2>4. PICK F : Runs(F, n, U, May, None, G)
        <3> HIDE DEF May, G, U
        <3> QED BY <1>1, <2>3, LoopExists
    <2>5. F = body(F)
        <3> HIDE DEF May, G, U, step
        <3>1. ASSUME NEW k \in 0 .. n
              PROVE  F[k] = IF k = 0 THEN <<None>> ELSE Append(F[k - 1], step(F[k - 1][k], k))
            <4>1. CASE k = 0
                BY <2>4, <4>1 DEF Runs
            <4>2. CASE k # 0
                <5>1. k \in 1 .. n
                    BY <1>1, <4>2
                <5>2. F[k - 1][k] \in May[k - 1]
                      /\ F[k] = Append(F[k - 1], G[<<F[k - 1][k], k>>])
                    BY <2>4, <5>1 DEF Runs
                <5>3. G[<<F[k - 1][k], k>>] = step(F[k - 1][k], k)
                    BY <2>2, <5>1, <5>2
                <5> QED BY <4>2, <5>2, <5>3
            <4> QED BY <4>1, <4>2
        <3>2. F = [k \in 0 .. n |-> F[k]]
            BY <2>4 DEF Runs
        <3> QED BY <3>1, <3>2
    <2>6. f = body(f)
        BY <2>5, Zenon
    <2> HIDE DEF f
    <2>7. ASSUME NEW k \in 0 .. n
          PROVE  f[k] = IF k = 0 THEN <<None>> ELSE Append(f[k - 1], step(f[k - 1][k], k))
        <3>1. f[k] = body(f)[k]
            BY <2>6, Zenon
        <3> HIDE DEF step
        <3>2. body(f)[k] = IF k = 0 THEN <<None>> ELSE Append(f[k - 1], step(f[k - 1][k], k))
            OBVIOUS
        <3> HIDE DEF body
        <3> QED BY <3>1, <3>2
    <2>8. Passed(whole, n, U, May, None, G)
        <3> HIDE DEF May, G, U, step
        <3>1. f[0] = <<None>>
            BY <1>1, <2>7
        <3>2. ASSUME NEW k \in 1 .. n, NEW x \in Seq(U),
                     f[k - 1] = x, Len(x) = k, x[k] \in May[k - 1]
              PROVE  f[k] = Append(x, G[<<x[k], k>>])
            <4>1. k \in 0 .. n /\ k # 0
                BY <1>1
            <4>2. f[k] = Append(x, step(x[k], k))
                BY <2>7, <3>2, <4>1
            <4> QED BY <2>2, <3>2, <4>2
        <3> QED BY <1>1, <2>3, <3>1, <3>2, LoopIs
    <2>9. whole[i] \in May[i]
        <3> HIDE DEF May, G, U, step, whole
        <3> QED BY <1>1, <2>8, Zenon DEF Passed
    <2>10. i \in 0 .. n
        BY <1>1
    <2> HIDE DEF whole
    <2> QED BY <1>1, <2>1, <2>9, <2>10
<1> QED BY <1>1, <1>6, <1>7

-----------------------------------------------------------------------------
(* The oscillator *)

AtLeastZero == {x \in Rational : Zero \preceq x}

LEMMA AboveZero ==
    ASSUME NEW a \in AtLeastZero, NEW b \in AtLeastZero
    PROVE  /\ a ++ b \in AtLeastZero /\ a ** b \in AtLeastZero
           /\ Positive(b) => a // b \in AtLeastZero /\ (a // b) ** b = a
<1>1. a \in Rational /\ b \in Rational /\ Zero \preceq a /\ Zero \preceq b /\ Zero \in Rational
    BY Constants DEF AtLeastZero
<1>2. a ++ b \in AtLeastZero
    <2>1. Zero ++ Zero \preceq a ++ b
        BY <1>1, SumsGrow
    <2> QED BY <1>1, <2>1, Neutral, SumType DEF AtLeastZero
<1>3. a ** b \in AtLeastZero
    <2>1. Zero ** b \preceq a ** b
        BY <1>1, ProductOrder
    <2> QED BY <1>1, <2>1, Neutral, ProductType DEF AtLeastZero
<1>4. ASSUME Positive(b) PROVE a // b \in AtLeastZero /\ (a // b) ** b = a
    <2> DEFINE q == a // b
    <2>1. b # Zero
        BY <1>1, <1>4, Signs DEF Positive
    <2>2. q \in Rational /\ q ** b = a
        BY <1>1, <2>1, Quotient
    <2> HIDE DEF q
    <2>3. Zero ** b \preceq q ** b
        BY <1>1, <2>2, Neutral
    <2>4. Zero \preceq q
        BY <1>1, <1>4, <2>2, <2>3, ScaledBack
    <2>5. q \in AtLeastZero
        BY <2>2, <2>4 DEF AtLeastZero
    <2> QED BY <2>2, <2>5 DEF q
<1> QED BY <1>2, <1>3, <1>4

LEMMA WholeAboveZero ==
    ASSUME NEW m \in Nat
    PROVE  R(m) \in AtLeastZero /\ (m > 0 => Positive(R(m)))
<1>1. R(m) \in Rational /\ R(m)[1] = m
    BY WholeIsRational
<1> DEFINE r == R(m)
<1> HIDE DEF r
<1>2. r \in Rational /\ r[1] = m
    BY <1>1 DEF r
<1>3. Zero \preceq r /\ (m > 0 => Positive(r))
    BY <1>2, Signs DEF Positive
<1> QED BY <1>2, <1>3 DEF r, AtLeastZero

LEMMA MeanAboveZero ==
    ASSUME NEW s \in Seq(AtLeastZero), Len(s) > 0
    PROVE  Mean(s) \in AtLeastZero
<1>1. s \in Seq(Rational) /\ Len(s) \in Nat /\ \A j \in 1 .. Len(s) : Zero \preceq s[j]
    BY DEF AtLeastZero
<1> DEFINE sum == SumOf(s)
           n == Len(s)
<1>2. sum \in Rational /\ Zero ** R(n) \preceq sum
    BY <1>1, Constants, SumAbove
<1>3. R(n) \in AtLeastZero /\ Positive(R(n)) /\ R(n) \in Rational
    BY <1>1, WholeAboveZero DEF AtLeastZero
<1>4. sum \in AtLeastZero
    BY <1>2, <1>3, Neutral DEF AtLeastZero
<1> HIDE DEF sum, n
<1>5. sum // R(n) \in AtLeastZero
    BY <1>3, <1>4, AboveZero
<1> QED BY <1>5 DEF Mean, sum, n

LEMMA GainsAndLosses ==
    ASSUME NEW a \in Rational, NEW b \in Rational
    PROVE  Gain(a -- b) \in AtLeastZero /\ Loss(a -- b) \in AtLeastZero
<1> DEFINE change == a -- b
           back == Zero -- change
<1>1. change \in Rational
    BY Difference
<1> HIDE DEF change
<1>2. back \in Rational /\ Zero \in Rational
    BY <1>1, Constants, Difference
<1> HIDE DEF back
<1>3. Greatest(change, Zero) \in AtLeastZero /\ Greatest(back, Zero) \in AtLeastZero
    BY <1>1, <1>2, Ordered DEF Greatest, AtLeastZero
<1> QED BY <1>3 DEF Gain, Loss, change, back

\* A relative strength is a share of 100.
LEMMA ShareOfHundred ==
    ASSUME NEW gain \in AtLeastZero, NEW loss \in AtLeastZero
    PROVE  /\ RsiFrom(gain, loss) \in Rational
           /\ Zero \preceq RsiFrom(gain, loss) /\ RsiFrom(gain, loss) \preceq R(100)
<1> DEFINE hundred == R(100)
           fifty == R(50)
<1>1. hundred \in AtLeastZero /\ fifty \in AtLeastZero /\ Zero \in AtLeastZero
      /\ One \in AtLeastZero /\ Positive(One)
    BY WholeAboveZero DEF Zero, One
<1>2. fifty \preceq hundred
    BY WholesOrder
<1>3. hundred \preceq hundred /\ Zero \preceq hundred /\ Zero \preceq fifty
      /\ hundred \in Rational /\ fifty \in Rational /\ Zero \in Rational /\ One \in Rational
    BY <1>1, Ordered DEF AtLeastZero
<1>4. CASE loss = Zero
    BY <1>2, <1>3, <1>4 DEF RsiFrom
<1>5. CASE loss # Zero
    <2> DEFINE ratio == gain // loss
               d == One ++ ratio
               x == hundred // d
    <2>1. loss \in Rational /\ Positive(loss)
        BY <1>5, Signs DEF AtLeastZero, Positive
    <2>2. ratio \in AtLeastZero
        BY <2>1, AboveZero
    <2> HIDE DEF ratio, hundred, fifty
    <2>3. d \in AtLeastZero /\ One \preceq d
        <3>1. d \in AtLeastZero
            BY <1>1, <2>2, AboveZero
        <3>2. One ++ Zero \preceq One ++ ratio
            BY <1>3, <2>2, Ordered, SumsGrow DEF AtLeastZero
        <3> QED BY <1>3, <3>1, <3>2, Neutral
    <2>4. d \in Rational
        BY <2>3 DEF AtLeastZero
    <2> HIDE DEF d
    <2>5. Positive(d)
        BY <1>1, <1>3, <2>3, <2>4, PositiveAbove
    <2>6. x \in AtLeastZero /\ x ** d = hundred
        BY <1>1, <2>3, <2>5, AboveZero
    <2> HIDE DEF x
    <2>7. x \in Rational /\ Zero \preceq x
        BY <2>6 DEF AtLeastZero
    <2>8. x \preceq hundred
        <3>1. One ** x \preceq d ** x
            BY <1>3, <2>3, <2>4, <2>7, ProductOrder
        <3>2. One ** x = x /\ d ** x = x ** d
            BY <2>4, <2>7, Neutral, ProductCommutes
        <3> QED BY <2>6, <3>1, <3>2
    <2> DEFINE rest == hundred -- x
    <2>9. rest \in Rational /\ rest ++ x = hundred
        BY <1>3, <2>7, Difference
    <2> HIDE DEF rest
    <2>10. Zero \preceq rest
        <3>1. Zero ++ x \preceq rest ++ x
            BY <2>7, <2>8, <2>9, Neutral
        <3> QED BY <1>3, <2>7, <2>9, <3>1, SumOrder
    <2>11. rest \preceq hundred
        <3>1. rest ++ Zero \preceq rest ++ x
            BY <1>3, <2>7, <2>9, Ordered, SumsGrow
        <3> QED BY <2>9, <3>1, Neutral
    <2>12. RsiFrom(gain, loss) = rest
        BY <1>5 DEF RsiFrom, rest, x, d, ratio, hundred
    <2> QED BY <2>9, <2>10, <2>11, <2>12 DEF hundred
<1> QED BY <1>4, <1>5

\* Wilder's averages are of gains and of losses, so the RSI is such a share.
LEMMA RsiIs ==
    ASSUME NEW values \in Seq(Rational), NEW window \in Nat \ {0},
           NEW i \in 1 .. Len(values), i > window
    PROVE  /\ Rsi(values, window)[i] \in Rational
           /\ Zero \preceq Rsi(values, window)[i] /\ Rsi(values, window)[i] \preceq R(100)
<1> DEFINE n == Len(values)
           change(k) == values[k] -- values[k - 1]
           gains == Mean([k \in 1 .. window |-> Gain(change(k + 1))])
           losses == Mean([k \in 1 .. window |-> Loss(change(k + 1))])
           smooth(old, new) == ((old ** R(window - 1)) ++ new) // R(window)
           step(a, k) ==
              IF k <= window THEN None
              ELSE IF k = window + 1 THEN [gain |-> gains, loss |-> losses]
              ELSE [gain |-> smooth(a.gain, Gain(change(k))),
                    loss |-> smooth(a.loss, Loss(change(k)))]
           body(g) == [k \in 0 .. n |->
                         IF k = 0 THEN <<None>> ELSE Append(g[k - 1], step(g[k - 1][k], k))]
           f == CHOOSE g : g = body(g)
           whole == Tail(f[n])
           Averages == [gain : AtLeastZero, loss : AtLeastZero]
           U == Averages \cup {None}
           G == [y \in U \X (1 .. n) |-> step(y[1], y[2])]
           May == [k \in 0 .. n |-> IF k <= window THEN {None} ELSE Averages]
<1>1. /\ n \in Nat /\ window \in Nat /\ window > 0 /\ i \in 1 .. n /\ window < n
      /\ DOMAIN values = 1 .. n
      /\ \A k \in 1 .. n : values[k] \in Rational
    OBVIOUS
<1>2. Rsi(values, window) =
        [k \in DOMAIN values |-> IF k <= window THEN None
                                 ELSE RsiFrom(whole[k].gain, whole[k].loss)]
    BY Zenon DEF Rsi, Scan
<1> HIDE DEF n
<1>3. ASSUME NEW k \in 2 .. n
      PROVE  Gain(change(k)) \in AtLeastZero /\ Loss(change(k)) \in AtLeastZero
    <2>1. k \in 1 .. n /\ k - 1 \in 1 .. n
        BY <1>1
    <2>2. values[k] \in Rational /\ values[k - 1] \in Rational
        BY <1>1, <2>1
    <2> QED BY <2>2, GainsAndLosses
<1>4. gains \in AtLeastZero /\ losses \in AtLeastZero
    <2> DEFINE up == [k \in 1 .. window |-> Gain(change(k + 1))]
               down == [k \in 1 .. window |-> Loss(change(k + 1))]
    <2>1. ASSUME NEW k \in 1 .. window
          PROVE  Gain(change(k + 1)) \in AtLeastZero /\ Loss(change(k + 1)) \in AtLeastZero
        <3>1. k + 1 \in 2 .. n
            BY <1>1
        <3> HIDE DEF change
        <3> QED BY <1>3, <3>1
    <2> HIDE DEF change
    <2>2. up \in Seq(AtLeastZero) /\ Len(up) = window
        <3>1. up \in [1 .. window -> AtLeastZero]
            BY <2>1
        <3> HIDE DEF up
        <3> QED BY <1>1, <3>1
    <2>3. down \in Seq(AtLeastZero) /\ Len(down) = window
        <3>1. down \in [1 .. window -> AtLeastZero]
            BY <2>1
        <3> HIDE DEF down
        <3> QED BY <1>1, <3>1
    <2> HIDE DEF up, down
    <2>4. Mean(up) \in AtLeastZero /\ Mean(down) \in AtLeastZero
        BY <1>1, <2>2, <2>3, MeanAboveZero
    <2> QED BY <2>4 DEF up, down
<1>5. ASSUME NEW old \in AtLeastZero, NEW new \in AtLeastZero
      PROVE  smooth(old, new) \in AtLeastZero
    <2>1. window - 1 \in Nat
        BY <1>1
    <2>2. R(window - 1) \in AtLeastZero /\ R(window) \in AtLeastZero /\ Positive(R(window))
        BY <1>1, <2>1, WholeAboveZero
    <2>3. old ** R(window - 1) \in AtLeastZero
        BY <2>2, AboveZero
    <2>4. (old ** R(window - 1)) ++ new \in AtLeastZero
        BY <2>3, AboveZero
    <2> QED BY <2>2, <2>4, AboveZero
<1>6. ASSUME NEW k \in 1 .. n, NEW x \in May[k - 1]
      PROVE  G[<<x, k>>] = step(x, k) /\ step(x, k) \in May[k]
    <2>1. k - 1 \in 0 .. n /\ k \in 0 .. n
        BY <1>1
    <2>2. x \in U
        BY <2>1
    <2>3. G[<<x, k>>] = step(x, k)
        <3>1. <<x, k>> \in U \X (1 .. n)
            BY <2>2
        <3> HIDE DEF step
        <3> QED BY <3>1
    <2>4. CASE k <= window
        BY <2>1, <2>3, <2>4
    <2>5. CASE k = window + 1
        <3>1. May[k] = Averages
            <4> HIDE DEF Averages
            <4> QED BY <1>1, <2>1, <2>5
        <3> HIDE DEF gains, losses, May, smooth
        <3>2. step(x, k) = [gain |-> gains, loss |-> losses]
            <4>1. ~(k <= window)
                BY <1>1, <2>5
            <4> QED BY <2>5, <4>1
        <3> HIDE DEF step
        <3> QED BY <1>4, <2>3, <3>1, <3>2
    <2>6. CASE k > window + 1
        <3>1. May[k - 1] = Averages /\ May[k] = Averages
            <4> HIDE DEF Averages
            <4> QED BY <1>1, <2>1, <2>6
        <3> DEFINE g == smooth(x.gain, Gain(change(k)))
                   l == smooth(x.loss, Loss(change(k)))
        <3>2. step(x, k) = [gain |-> g, loss |-> l]
            BY <1>1, <2>6
        <3> HIDE DEF step, May, smooth, change
        <3>3. x.gain \in AtLeastZero /\ x.loss \in AtLeastZero
            BY <3>1
        <3>4. k \in 2 .. n
            BY <1>1, <2>6
        <3>5. g \in AtLeastZero /\ l \in AtLeastZero
            BY <1>3, <1>5, <3>3, <3>4
        <3> HIDE DEF g, l
        <3> QED BY <2>3, <3>1, <3>2, <3>5
    <2> HIDE DEF May, step, G
    <2> QED BY <1>1, <2>4, <2>5, <2>6
<1>7. Loops(n, U, May, None, G)
    <2>1. May \in [0 .. n -> SUBSET U]
        <3> HIDE DEF Averages
        <3> QED OBVIOUS
    <2>2. None \in May[0]
        BY <1>1
    <2> HIDE DEF May, G, U, step
    <2> QED BY <1>6, <2>1, <2>2 DEF Loops
<1>8. PICK F : Runs(F, n, U, May, None, G)
    <2> HIDE DEF May, G, U
    <2> QED BY <1>1, <1>7, LoopExists
<1>9. F = body(F)
    <2> HIDE DEF May, G, U, step
    <2>1. ASSUME NEW k \in 0 .. n
          PROVE  F[k] = IF k = 0 THEN <<None>> ELSE Append(F[k - 1], step(F[k - 1][k], k))
        <3>1. CASE k = 0
            BY <1>8, <3>1 DEF Runs
        <3>2. CASE k # 0
            <4>1. k \in 1 .. n
                BY <1>1, <3>2
            <4>2. F[k - 1][k] \in May[k - 1]
                  /\ F[k] = Append(F[k - 1], G[<<F[k - 1][k], k>>])
                BY <1>8, <4>1 DEF Runs
            <4>3. G[<<F[k - 1][k], k>>] = step(F[k - 1][k], k)
                BY <1>6, <4>1, <4>2
            <4> QED BY <3>2, <4>2, <4>3
        <3> QED BY <3>1, <3>2
    <2>2. F = [k \in 0 .. n |-> F[k]]
        BY <1>8 DEF Runs
    <2> QED BY <2>1, <2>2
<1>10. f = body(f)
    BY <1>9, Zenon
<1> HIDE DEF f
<1>11. ASSUME NEW k \in 0 .. n
       PROVE  f[k] = IF k = 0 THEN <<None>> ELSE Append(f[k - 1], step(f[k - 1][k], k))
    <2>1. f[k] = body(f)[k]
        BY <1>10, Zenon
    <2> HIDE DEF step
    <2>2. body(f)[k] = IF k = 0 THEN <<None>> ELSE Append(f[k - 1], step(f[k - 1][k], k))
        OBVIOUS
    <2> HIDE DEF body
    <2> QED BY <2>1, <2>2
<1>12. Passed(whole, n, U, May, None, G)
    <2> HIDE DEF May, G, U, step
    <2>1. f[0] = <<None>>
        BY <1>1, <1>11
    <2>2. ASSUME NEW k \in 1 .. n, NEW x \in Seq(U),
                 f[k - 1] = x, Len(x) = k, x[k] \in May[k - 1]
          PROVE  f[k] = Append(x, G[<<x[k], k>>])
        <3>1. k \in 0 .. n /\ k # 0
            BY <1>1
        <3>2. f[k] = Append(x, step(x[k], k))
            BY <1>11, <2>2, <3>1
        <3> QED BY <1>6, <2>2, <3>2
    <2> QED BY <1>1, <1>7, <2>1, <2>2, LoopIs
<1>13. whole[i] \in May[i]
    <2> HIDE DEF May, G, U, step, whole
    <2> QED BY <1>1, <1>12, Zenon DEF Passed
<1> HIDE DEF whole
<1>14. whole[i].gain \in AtLeastZero /\ whole[i].loss \in AtLeastZero
    <2>1. May[i] = Averages
        <3> HIDE DEF Averages
        <3> QED BY <1>1
    <2> HIDE DEF May
    <2> QED BY <1>13, <2>1
<1>15. Rsi(values, window)[i] = RsiFrom(whole[i].gain, whole[i].loss)
    BY <1>1, <1>2
<1> QED BY <1>14, <1>15, ShareOfHundred

-----------------------------------------------------------------------------
(* The worst fall *)

PositiveNumbers == {x \in Rational : Positive(x)}
FallTo(x, peak) == (x // peak) -- One

LEMMA FallIs ==
    ASSUME NEW x \in PositiveNumbers, NEW peak \in PositiveNumbers
    PROVE  FallTo(x, peak) \in Rational
<1>1. x // peak \in Rational /\ One \in Rational
    BY PositiveProduct, Constants DEF PositiveNumbers
<1> QED BY <1>1, Difference DEF FallTo

\* From a higher value the same value is a deeper fall.
LEMMA FallsDeeper ==
    ASSUME NEW x \in PositiveNumbers, NEW a \in PositiveNumbers, NEW b \in PositiveNumbers,
           a \preceq b
    PROVE  FallTo(x, b) \preceq FallTo(x, a)
<1> DEFINE p == x // b
           q == x // a
<1>1. /\ a \in Rational /\ b \in Rational /\ x \in Rational
      /\ Positive(a) /\ Positive(b) /\ Positive(x)
    BY DEF PositiveNumbers
<1>2. a # Zero /\ b # Zero
    BY <1>1, Signs DEF Positive
<1>3. p \in Rational /\ p ** b = x /\ q \in Rational /\ q ** a = x /\ Positive(q)
    BY <1>1, <1>2, Quotient, PositiveProduct
<1> HIDE DEF p, q
<1>4. Zero \preceq q
    BY <1>3, Signs DEF Positive
<1>5. a ** q \preceq b ** q /\ a ** q = q ** a /\ b ** q = q ** b
    BY <1>1, <1>3, <1>4, ProductOrder, ProductCommutes
<1>6. p \preceq q
    BY <1>1, <1>3, <1>5, ScaledBack
<1> DEFINE c == p -- One
           d == q -- One
<1>7. c \in Rational /\ c ++ One = p /\ d \in Rational /\ d ++ One = q /\ One \in Rational
    BY <1>3, Constants, Difference
<1> HIDE DEF c, d
<1>8. c \preceq d
    BY <1>6, <1>7, SumOrder
<1> QED BY <1>8 DEF c, d, p, q, FallTo

\* What the pass knows of the first k values: their peak and where it is, and
\* a fall, from one to a later one or the same, that is as bad as any.
Fallen(s, e, k, seen) ==
    /\ s \in [peak : PositiveNumbers, at : Nat, worst : Rational, span : Nat \X Nat]
    /\ s.at \in 1 .. seen /\ s.peak = e[s.at]
    /\ \A j \in 1 .. k : e[j] \preceq s.peak
    /\ s.span[1] \in 1 .. seen /\ s.span[2] \in 1 .. seen
    /\ s.worst = FallTo(e[s.span[2]], e[s.span[1]])
    /\ \A i \in 1 .. k : \A j \in i .. k : s.worst \preceq FallTo(e[j], e[i])

\* The first value counts as seen before the pass begins.
Seen(k) == IF k = 0 THEN 1 ELSE k

\* One step of the pass.
Falls(s, x, k) ==
    LET peak == PeakOf(s.peak, x)
        at == IF s.peak \prec x THEN k ELSE s.at
        d == IF Positive(peak) THEN (x // peak) -- One ELSE Zero
    IN  IF d \prec s.worst THEN [peak |-> peak, at |-> at, worst |-> d, span |-> <<at, k>>]
        ELSE [s EXCEPT !.peak = peak, !.at = at]

LEMMA FallsStep ==
    ASSUME NEW e \in Seq(PositiveNumbers), NEW k \in 1 .. Len(e), NEW s,
           Fallen(s, e, k - 1, Seen(k - 1))
    PROVE  Fallen(Falls(s, e[k], k), e, k, Seen(k))
<1> DEFINE x == e[k]
           peak == PeakOf(s.peak, x)
           at == IF s.peak \prec x THEN k ELSE s.at
           d == FallTo(x, peak)
           new == Falls(s, e[k], k)
           seen == Seen(k - 1)
<1>1. k \in Nat /\ k > 0 /\ Len(e) \in Nat /\ x \in PositiveNumbers
      /\ (\A j \in 1 .. Len(e) : e[j] \in PositiveNumbers)
      /\ seen \in 1 .. k /\ Seen(k) = k
    BY DEF Seen
<1> HIDE DEF seen
<1>2. /\ s \in [peak : PositiveNumbers, at : Nat, worst : Rational, span : Nat \X Nat]
      /\ s.at \in 1 .. seen /\ s.peak = e[s.at]
      /\ \A j \in 1 .. k - 1 : e[j] \preceq s.peak
      /\ s.span[1] \in 1 .. seen /\ s.span[2] \in 1 .. seen
      /\ s.worst = FallTo(e[s.span[2]], e[s.span[1]])
      /\ \A i \in 1 .. k - 1 : \A j \in i .. k - 1 : s.worst \preceq FallTo(e[j], e[i])
    BY DEF Fallen, seen
<1>3. s.peak \in PositiveNumbers /\ s.worst \in Rational /\ s.at \in 1 .. k
      /\ s.span[1] \in 1 .. k /\ s.span[2] \in 1 .. k /\ s.span \in Nat \X Nat
    BY <1>1, <1>2
<1> HIDE DEF x
<1>4. /\ peak \in PositiveNumbers /\ at \in 1 .. k /\ at \in Nat /\ peak = e[at]
      /\ s.peak \preceq peak /\ x \preceq peak
    <2>1. s.peak \in Rational /\ x \in Rational
        BY <1>1, <1>3 DEF PositiveNumbers
    <2>2. CASE s.peak \prec x
        <3>1. ~(x \preceq s.peak) /\ s.peak \preceq x /\ x \preceq x
            BY <2>1, <2>2, Ordered
        <3>2. peak = x /\ at = k
            BY <2>2, <3>1 DEF PeakOf, Greatest
        <3> HIDE DEF peak, at
        <3> QED BY <1>1, <3>1, <3>2 DEF x
    <2>3. CASE ~(s.peak \prec x)
        <3>1. x \preceq s.peak /\ s.peak \preceq s.peak
              /\ (s.peak \preceq x => s.peak = x)
            BY <2>1, <2>3, Ordered
        <3>2. peak = s.peak
            BY <3>1 DEF PeakOf, Greatest
        <3>3. at = s.at
            BY <2>3
        <3> HIDE DEF peak, at
        <3> QED BY <1>1, <1>2, <1>3, <3>1, <3>2, <3>3
    <2> QED BY <2>2, <2>3
<1>5. new = IF d \prec s.worst
              THEN [peak |-> peak, at |-> at, worst |-> d, span |-> <<at, k>>]
              ELSE [s EXCEPT !.peak = peak, !.at = at]
    <2>1. Positive(peak)
        BY <1>4 DEF PositiveNumbers
    <2> QED BY <2>1 DEF Falls, x, FallTo
<1> HIDE DEF new, peak, at
<1>6. d \in Rational
    BY <1>1, <1>4, FallIs
<1>7. /\ new \in [peak : PositiveNumbers, at : Nat, worst : Rational, span : Nat \X Nat]
      /\ new.peak = peak /\ new.at = at /\ new.worst \preceq d /\ new.worst \preceq s.worst
      /\ new.span[1] \in 1 .. k /\ new.span[2] \in 1 .. k
      /\ new.worst = FallTo(e[new.span[2]], e[new.span[1]])
    <2> HIDE DEF d
    <2>1. CASE d \prec s.worst
        <3>1. new = [peak |-> peak, at |-> at, worst |-> d, span |-> <<at, k>>]
            BY <1>5, <2>1
        <3>2. d \preceq d /\ d \preceq s.worst
            BY <1>3, <1>6, <2>1, Ordered
        <3>3. d = FallTo(e[k], e[at])
            BY <1>4 DEF d, x
        <3>4. new.worst = d /\ new.span = <<at, k>> /\ new.peak = peak /\ new.at = at
            BY <3>1
        <3>5. new \in [peak : PositiveNumbers, at : Nat, worst : Rational, span : Nat \X Nat]
            BY <1>1, <1>4, <1>6, <3>1
        <3>6. new.span[1] = at /\ new.span[2] = k /\ k \in 1 .. k
            BY <1>1, <3>4
        <3> QED BY <1>4, <3>2, <3>3, <3>4, <3>5, <3>6
    <2>2. CASE ~(d \prec s.worst)
        <3>1. new = [s EXCEPT !.peak = peak, !.at = at]
            BY <1>5, <2>2
        <3>2. s.worst \preceq d /\ s.worst \preceq s.worst
            BY <1>3, <1>6, <2>2, Ordered
        <3>3. new.peak = peak /\ new.at = at /\ new.worst = s.worst /\ new.span = s.span
              /\ new \in [peak : PositiveNumbers, at : Nat, worst : Rational, span : Nat \X Nat]
            BY <1>2, <1>4, <3>1
        <3> QED BY <1>2, <1>3, <3>2, <3>3
    <2> QED BY <2>1, <2>2
<1>8. ASSUME NEW j \in 1 .. k PROVE e[j] \preceq peak /\ e[j] \in PositiveNumbers
    <2>1. e[j] \in PositiveNumbers
        BY <1>1
    <2>2. CASE j = k
        BY <1>4, <2>1, <2>2 DEF x
    <2>3. CASE j # k
        <3>1. j \in 1 .. k - 1
            BY <1>1, <2>3
        <3>2. e[j] \preceq s.peak
            BY <1>2, <3>1
        <3>3. e[j] \in Rational /\ s.peak \in Rational /\ peak \in Rational
            BY <1>3, <1>4, <2>1 DEF PositiveNumbers
        <3> QED BY <1>4, <2>1, <3>2, <3>3, OrderedSteps
    <2> QED BY <2>2, <2>3
<1>9. ASSUME NEW i \in 1 .. k, NEW j \in i .. k PROVE new.worst \preceq FallTo(e[j], e[i])
    <2> DEFINE fall == FallTo(e[j], e[i])
               worst == new.worst
    <2>1. j \in 1 .. k
        BY <1>1
    <2>2. e[i] \in PositiveNumbers /\ e[j] \in PositiveNumbers /\ e[i] \preceq peak
        BY <1>8, <2>1
    <2>3. fall \in Rational
        BY <2>2, FallIs
    <2>4. worst \in Rational /\ worst \preceq d /\ worst \preceq s.worst
        BY <1>7
    <2>5. CASE j = k
        <3>1. FallTo(e[j], peak) \preceq fall
            BY <1>4, <2>2, FallsDeeper
        <3>2. d \preceq fall
            BY <2>5, <3>1 DEF x
        <3> HIDE DEF d, fall, worst
        <3> QED BY <1>6, <2>3, <2>4, <3>2, OrderedSteps DEF fall, worst
    <2>6. CASE j # k
        <3>1. i \in 1 .. k - 1 /\ j \in i .. k - 1
            BY <1>1, <2>6
        <3>2. s.worst \preceq fall
            BY <1>2, <3>1
        <3> HIDE DEF d, fall, worst
        <3> QED BY <1>3, <2>3, <2>4, <3>2, OrderedSteps DEF fall, worst
    <2> QED BY <2>5, <2>6
<1>10. Fallen(new, e, k, Seen(k))
    BY <1>1, <1>4, <1>7, <1>8, <1>9 DEF Fallen
<1> QED BY <1>10 DEF new

\* The one pass over a curve of positive values.
LEMMA DrawdownIs ==
    ASSUME NEW e \in Seq(PositiveNumbers), Len(e) > 0
    PROVE  Fallen(MaxDrawdown(e), e, Len(e), Len(e))
<1> DEFINE n == Len(e)
           start == [peak |-> e[1], at |-> 1, worst |-> Zero, span |-> <<1, 1>>]
           step(s, k) == Falls(s, e[k], k)
           body(g) == [k \in 0 .. n |->
                         IF k = 0 THEN <<start>> ELSE Append(g[k - 1], step(g[k - 1][k], k))]
           f == CHOOSE g : g = body(g)
           whole == Tail(f[n])
           U == [peak : PositiveNumbers, at : Nat, worst : Rational, span : Nat \X Nat]
           G == [y \in U \X (1 .. n) |-> step(y[1], y[2])]
           May == [k \in 0 .. n |-> {s \in U : Fallen(s, e, k, Seen(k))}]
<1>1. n \in Nat /\ n > 0 /\ e[1] \in PositiveNumbers
    OBVIOUS
<1>2. MaxDrawdown(e) = whole[n]
    BY Zenon DEF MaxDrawdown, Scan, Falls
<1>3. Fallen(start, e, 0, Seen(0)) /\ start \in U
    <2>1. FallTo(e[1], e[1]) = Zero
        <3> DEFINE x == e[1]
        <3>1. x \in Rational /\ x # Zero
            BY <1>1, Signs DEF PositiveNumbers, Positive
        <3> HIDE DEF x
        <3>2. (x // x) -- One = Zero
            BY <3>1, SelfQuotient, NoDifference, Constants
        <3> QED BY <3>2 DEF FallTo, x
    <2>2. start \in U
        BY <1>1, Constants
    <2>3. /\ start.at = 1 /\ start.peak = e[1] /\ start.worst = Zero
          /\ start.span[1] = 1 /\ start.span[2] = 1 /\ 1 \in 1 .. 1
        OBVIOUS
    <2> HIDE DEF start
    <2> QED BY <2>1, <2>2, <2>3 DEF Fallen, Seen
<1> HIDE DEF n, start, U
<1>4. ASSUME NEW k \in 1 .. n, NEW s \in May[k - 1]
      PROVE  s \in U /\ G[<<s, k>>] = step(s, k) /\ step(s, k) \in May[k]
    <2>1. k - 1 \in 0 .. n /\ k \in 0 .. n
        BY <1>1
    <2>2. s \in U /\ Fallen(s, e, k - 1, Seen(k - 1))
        BY <2>1
    <2>3. G[<<s, k>>] = step(s, k)
        <3>1. <<s, k>> \in U \X (1 .. n)
            BY <2>2
        <3> HIDE DEF step
        <3> QED BY <3>1
    <2>4. Fallen(step(s, k), e, k, Seen(k))
        BY <2>2, FallsStep DEF n
    <2> HIDE DEF step
    <2>5. step(s, k) \in U
        BY <2>4 DEF Fallen, U
    <2> QED BY <2>1, <2>2, <2>3, <2>4, <2>5
<1>5. Loops(n, U, May, start, G)
    <2>1. May \in [0 .. n -> SUBSET U]
        OBVIOUS
    <2>2. start \in May[0]
        BY <1>1, <1>3
    <2> HIDE DEF May, G, step
    <2> QED BY <1>4, <2>1, <2>2 DEF Loops
<1>6. PICK F : Runs(F, n, U, May, start, G)
    <2> HIDE DEF May, G
    <2> QED BY <1>1, <1>5, LoopExists
<1>7. F = body(F)
    <2> HIDE DEF May, G, step
    <2>1. ASSUME NEW k \in 0 .. n
          PROVE  F[k] = IF k = 0 THEN <<start>> ELSE Append(F[k - 1], step(F[k - 1][k], k))
        <3>1. CASE k = 0
            BY <1>6, <3>1 DEF Runs
        <3>2. CASE k # 0
            <4>1. k \in 1 .. n
                BY <1>1, <3>2
            <4>2. F[k - 1][k] \in May[k - 1]
                  /\ F[k] = Append(F[k - 1], G[<<F[k - 1][k], k>>])
                BY <1>6, <4>1 DEF Runs
            <4>3. G[<<F[k - 1][k], k>>] = step(F[k - 1][k], k)
                BY <1>4, <4>1, <4>2
            <4> QED BY <3>2, <4>2, <4>3
        <3> QED BY <3>1, <3>2
    <2>2. F = [k \in 0 .. n |-> F[k]]
        BY <1>6 DEF Runs
    <2> QED BY <2>1, <2>2
<1>8. f = body(f)
    BY <1>7, Zenon
<1> HIDE DEF f
<1>9. ASSUME NEW k \in 0 .. n
      PROVE  f[k] = IF k = 0 THEN <<start>> ELSE Append(f[k - 1], step(f[k - 1][k], k))
    <2>1. f[k] = body(f)[k]
        BY <1>8, Zenon
    <2> HIDE DEF step
    <2>2. body(f)[k] = IF k = 0 THEN <<start>> ELSE Append(f[k - 1], step(f[k - 1][k], k))
        OBVIOUS
    <2> HIDE DEF body
    <2> QED BY <2>1, <2>2
<1>10. Passed(whole, n, U, May, start, G)
    <2> HIDE DEF May, G, step
    <2>1. f[0] = <<start>>
        BY <1>1, <1>9
    <2>2. ASSUME NEW k \in 1 .. n, NEW x \in Seq(U),
                 f[k - 1] = x, Len(x) = k, x[k] \in May[k - 1]
          PROVE  f[k] = Append(x, G[<<x[k], k>>])
        <3>1. k \in 0 .. n /\ k # 0
            BY <1>1
        <3>2. f[k] = Append(x, step(x[k], k))
            BY <1>9, <2>2, <3>1
        <3> QED BY <1>4, <2>2, <3>2
    <2> QED BY <1>1, <1>5, <2>1, <2>2, LoopIs
<1>11. whole[n] \in May[n]
    <2>1. n \in 1 .. n
        BY <1>1
    <2> HIDE DEF May, G, step, whole
    <2> QED BY <2>1, <1>10, Zenon DEF Passed
<1> HIDE DEF whole
<1>12. Fallen(whole[n], e, n, Seen(n)) /\ Seen(n) = n
    BY <1>1, <1>11 DEF Seen
<1> QED BY <1>2, <1>12 DEF n

-----------------------------------------------------------------------------
(* The audit *)

\* The calendar from the first bar to the last, less the bars that are there.
LEMMA QualityIs ==
    ASSUME NEW series, NEW n \in Nat \ {0}, Len(series) = n,
           \A i \in 1 .. n : series[i].time \in Nat,
           \A i \in 1 .. n - 1 : series[i].time < series[i + 1].time,
           \A i \in 1 .. n - 1 : series[i + 1].time - series[i].time < SlotCap
    PROVE  Quality(series).missing = series[n].time - series[1].time + 1 - n
<1> DEFINE time(i) == series[i].time
           slots(i) == Slots(series[i].time, series[i + 1].time)
           step(q, i) ==
              IF i \notin Holes(series) THEN q
              ELSE [gaps |-> q.gaps + 1, missing |-> q.missing + slots(i) - 1,
                    largest |-> IF slots(i) > q.largest THEN slots(i) ELSE q.largest]
           none == [gaps |-> 0, missing |-> 0, largest |-> 1]
           m == Len(series) - 1
           body(g) == [k \in 0 .. m |->
                         IF k = 0 THEN <<none>> ELSE Append(g[k - 1], step(g[k - 1][k], k))]
           f == CHOOSE g : g = body(g)
           whole == Tail(f[m])
           U == [gaps : Int, missing : Int, largest : Int]
           G == [y \in U \X (1 .. m) |-> step(y[1], y[2])]
           May == [k \in 0 .. m |-> {q \in U : q.missing = time(k + 1) - time(1) - k}]
<1>1. /\ n \in Nat /\ n > 0 /\ m = n - 1 /\ m \in Nat
      /\ \A i \in 1 .. n : time(i) \in Nat
      /\ \A i \in 1 .. m : /\ i \in 1 .. n /\ i + 1 \in 1 .. n
                           /\ time(i) < time(i + 1) /\ time(i + 1) - time(i) < SlotCap
    OBVIOUS
<1>2. Quality(series) = IF Len(series) < 2 THEN none ELSE whole[m]
    BY Zenon DEF Quality, Scan
<1>3. ASSUME NEW k \in 1 .. m
      PROVE  /\ slots(k) = time(k + 1) - time(k)
             /\ k \in Holes(series) <=> time(k + 1) # time(k) + 1
    <2>1. slots(k) = time(k + 1) - time(k)
        BY <1>1 DEF Slots
    <2>2. k \in Holes(series) <=> time(k + 1) # time(k) + 1
        BY <1>1 DEF Holes, NextLabel
    <2> QED BY <2>1, <2>2
<1> HIDE DEF m, time, slots
<1>4. ASSUME NEW k \in 1 .. m, NEW q \in May[k - 1]
      PROVE  q \in U /\ G[<<q, k>>] = step(q, k) /\ step(q, k) \in May[k]
    <2>1. k - 1 \in 0 .. m /\ k \in 0 .. m /\ (k - 1) + 1 = k /\ 1 \in 1 .. n
        BY <1>1
    <2>2. q \in U /\ q.missing = time(k) - time(1) - (k - 1)
        BY <2>1
    <2>3. G[<<q, k>>] = step(q, k)
        <3>1. <<q, k>> \in U \X (1 .. m)
            BY <2>2
        <3> HIDE DEF step
        <3> QED BY <3>1
    <2>4. time(k) \in Int /\ time(k + 1) \in Int /\ time(1) \in Int /\ k \in Int
        BY <1>1, <2>1
    <2>5. CASE k \notin Holes(series)
        <3>1. step(q, k) = q /\ time(k + 1) = time(k) + 1
            BY <1>3, <2>5
        <3>2. q.missing = time(k + 1) - time(1) - k
            BY <2>2, <2>4, <3>1
        <3> QED BY <2>1, <2>2, <2>3, <3>1, <3>2
    <2>6. CASE k \in Holes(series)
        <3> DEFINE large == IF slots(k) > q.largest THEN slots(k) ELSE q.largest
                   miss == q.missing + slots(k) - 1
                   more == q.gaps + 1
        <3>1. step(q, k) = [gaps |-> more, missing |-> miss, largest |-> large]
            BY <2>6
        <3>2. q.gaps \in Int /\ q.missing \in Int /\ q.largest \in Int /\ slots(k) \in Int
            BY <1>3, <2>2, <2>4
        <3>3. more \in Int /\ miss \in Int /\ large \in Int
            BY <3>2
        <3>4. miss = time(k + 1) - time(1) - k
            BY <1>3, <2>2, <2>4
        <3> HIDE DEF step, G, large, miss, more
        <3>5. step(q, k) \in U /\ step(q, k).missing = miss
            BY <3>1, <3>3
        <3> QED BY <2>1, <2>2, <2>3, <3>4, <3>5
    <2> QED BY <2>5, <2>6
<1> HIDE DEF step
<1>5. Loops(m, U, May, none, G)
    <2>1. May \in [0 .. m -> SUBSET U]
        OBVIOUS
    <2>2. none \in May[0]
        <3>1. none \in U /\ none.missing = 0 /\ time(1) \in Int /\ 0 \in 0 .. m
            BY <1>1
        <3> HIDE DEF none
        <3> QED BY <3>1
    <2> HIDE DEF May, G, none, U
    <2> QED BY <1>4, <2>1, <2>2 DEF Loops
<1> HIDE DEF none
<1>6. PICK F : Runs(F, m, U, May, none, G)
    <2> HIDE DEF May, G, U
    <2> QED BY <1>1, <1>5, LoopExists
<1>7. F = body(F)
    <2> HIDE DEF May, G, U
    <2>1. ASSUME NEW k \in 0 .. m
          PROVE  F[k] = IF k = 0 THEN <<none>> ELSE Append(F[k - 1], step(F[k - 1][k], k))
        <3>1. CASE k = 0
            BY <1>6, <3>1 DEF Runs
        <3>2. CASE k # 0
            <4>1. k \in 1 .. m
                BY <1>1, <3>2
            <4>2. F[k - 1][k] \in May[k - 1]
                  /\ F[k] = Append(F[k - 1], G[<<F[k - 1][k], k>>])
                BY <1>6, <4>1 DEF Runs
            <4>3. G[<<F[k - 1][k], k>>] = step(F[k - 1][k], k)
                BY <1>4, <4>1, <4>2
            <4> QED BY <3>2, <4>2, <4>3
        <3> QED BY <3>1, <3>2
    <2>2. F = [k \in 0 .. m |-> F[k]]
        BY <1>6 DEF Runs
    <2> QED BY <2>1, <2>2
<1>8. f = body(f)
    BY <1>7, Zenon
<1> HIDE DEF f
<1>9. ASSUME NEW k \in 0 .. m
      PROVE  f[k] = IF k = 0 THEN <<none>> ELSE Append(f[k - 1], step(f[k - 1][k], k))
    <2>1. f[k] = body(f)[k]
        BY <1>8, Zenon
    <2>2. body(f)[k] = IF k = 0 THEN <<none>> ELSE Append(f[k - 1], step(f[k - 1][k], k))
        OBVIOUS
    <2> HIDE DEF body
    <2> QED BY <2>1, <2>2
<1>10. Passed(whole, m, U, May, none, G)
    <2> HIDE DEF May, G, U
    <2>1. f[0] = <<none>>
        <3>1. 0 \in 0 .. m
            BY <1>1
        <3> HIDE DEF step
        <3>2. f[0] = IF 0 = 0 THEN <<none>> ELSE Append(f[0 - 1], step(f[0 - 1][0], 0))
            BY <1>9, <3>1
        <3> QED BY <3>2, Zenon
    <2>2. ASSUME NEW k \in 1 .. m, NEW x \in Seq(U),
                 f[k - 1] = x, Len(x) = k, x[k] \in May[k - 1]
          PROVE  f[k] = Append(x, G[<<x[k], k>>])
        <3>1. k \in 0 .. m /\ k # 0
            BY <1>1
        <3>2. f[k] = Append(x, step(x[k], k))
            BY <1>9, <2>2, <3>1
        <3> QED BY <1>4, <2>2, <3>2
    <2> QED BY <1>1, <1>5, <2>1, <2>2, LoopIs
<1> HIDE DEF f
<1>11. CASE m = 0
    <2>1. n = 1 /\ Len(series) < 2
        BY <1>1, <1>11
    <2>2. Quality(series) = none
        BY <1>2, <2>1
    <2>3. Quality(series).missing = 0
        BY <2>2 DEF none
    <2>4. time(1) \in Int
        BY <1>1, <2>1
    <2>5. time(n) - time(1) + 1 - n = 0
        BY <2>1, <2>4
    <2> QED BY <2>3, <2>5 DEF time
<1>12. CASE m # 0
    <2>1. m \in 1 .. m /\ m \in 0 .. m /\ m + 1 = n /\ ~(Len(series) < 2) /\ n \in 1 .. n
          /\ 1 \in 1 .. n
        BY <1>1, <1>12
    <2>2. whole[m] \in May[m]
        <3> HIDE DEF May, G, U, whole
        <3> QED BY <1>10, <2>1, Zenon DEF Passed
    <2> HIDE DEF whole
    <2>3. whole[m].missing = time(n) - time(1) - m
        BY <2>1, <2>2
    <2>4. Quality(series).missing = time(n) - time(1) - m
        BY <1>2, <2>1, <2>3
    <2>5. time(n) \in Int /\ time(1) \in Int /\ m = n - 1
        BY <1>1, <2>1
    <2>6. Quality(series).missing = time(n) - time(1) + 1 - n
        BY <1>1, <2>4, <2>5
    <2> QED BY <2>6 DEF time
<1> QED BY <1>11, <1>12

-----------------------------------------------------------------------------
(* The series *)

Jobs == Rules \cup Plans \cup Baskets
Prices == UNION {Candles(j) : j \in Jobs}
Stored == {Bar(candle, time) : candle \in Prices, time \in Nat}

\* A stored bar is at its time and has the price of its candle.
LEMMA BarIs ==
    ASSUME NEW candle \in Prices, NEW time \in Nat
    PROVE  /\ Bar(candle, time) \in Stored /\ Bar(candle, time).time = time
           /\ Bar(candle, time).close \in PositiveNumbers
<1>1. PICK j \in Jobs : candle \in Candles(j)
    BY DEF Prices
<1>2. candle.close \in PositiveNumbers
    BY <1>1, SeriesAssumption DEF Jobs, PositiveNumbers
<1>3. Bar(candle, time).time = time /\ Bar(candle, time).close = candle.close
    BY DEF Bar
<1>4. Bar(candle, time) \in Stored
    BY DEF Stored
<1> QED BY <1>2, <1>3, <1>4

\* The series is in order and holds stored bars only.
SeriesInvariant ==
    /\ job \in Jobs /\ bars \in Seq(Stored)
    /\ \A i \in 1 .. Len(bars) - 1 : bars[i].time < bars[i + 1].time

LEMMA StoredAre ==
    ASSUME NEW b \in Stored
    PROVE  b.time \in Nat /\ b.close \in PositiveNumbers
<1>1. PICK candle \in Prices, time \in Nat : b = Bar(candle, time)
    BY DEF Stored
<1> QED BY <1>1, BarIs

LEMMA SeriesStarts == Init => SeriesInvariant
BY DEF Init, SeriesInvariant, Jobs

\* A bar later than all others goes to the end.
LEMMA SeriesGrows ==
    ASSUME SeriesInvariant, NEW candle \in Prices, NEW gap \in Gaps
    PROVE  /\ Grown(bars, candle, gap) \in Seq(Stored)
           /\ LET s == Grown(bars, candle, gap)
              IN  \A i \in 1 .. Len(s) - 1 : s[i].time < s[i + 1].time
<1> DEFINE n == Len(bars)
           time == IF bars = << >> THEN Start ELSE bars[n].time + gap
           new == Bar(candle, time)
           s == Append(bars, new)
<1>1. /\ bars \in Seq(Stored) /\ n \in Nat /\ gap \in Nat \ {0} /\ Start \in Nat
      /\ \A i \in 1 .. n - 1 : bars[i].time < bars[i + 1].time
      /\ \A i \in 1 .. n : bars[i] \in Stored
    BY SeriesAssumption DEF SeriesInvariant
<1>2. time \in Nat /\ (n > 0 => bars[n].time < time)
    <2>1. CASE bars = << >>
        BY <1>1, <2>1
    <2>2. CASE bars # << >>
        <3>1. n > 0
            BY <1>1, <2>2
        <3>2. bars[n].time \in Nat
            BY <1>1, <3>1, StoredAre
        <3> QED BY <1>1, <2>2, <3>2
    <2> QED BY <2>1, <2>2
<1> HIDE DEF time
<1>3. new \in Stored /\ new.time = time
    BY <1>2, BarIs
<1> HIDE DEF new
<1>4. s \in Seq(Stored) /\ Len(s) = n + 1 /\ s[n + 1] = new /\ \A i \in 1 .. n : s[i] = bars[i]
    BY <1>1, <1>3
<1> HIDE DEF s
<1>5. ASSUME NEW i \in 1 .. Len(s) - 1 PROVE s[i].time < s[i + 1].time
    <2>1. CASE i = n
        BY <1>1, <1>2, <1>3, <1>4, <2>1
    <2>2. CASE i # n
        <3>1. i \in 1 .. n - 1 /\ i \in 1 .. n /\ i + 1 \in 1 .. n
            BY <1>1, <1>4, <2>2
        <3> QED BY <1>1, <1>4, <3>1
    <2> QED BY <2>1, <2>2
<1>6. Grown(bars, candle, gap) = s
    BY DEF Grown, s, new, time
<1> QED BY <1>4, <1>5, <1>6

\* A bar older than all others goes to the front.
LEMMA SeriesIsBackfilled ==
    ASSUME SeriesInvariant, NEW candle \in Prices, NEW gap \in Gaps, bars # << >>,
           bars[1].time >= gap
    PROVE  LET s == <<Bar(candle, bars[1].time - gap)>> \o bars
           IN  /\ s \in Seq(Stored)
               /\ \A i \in 1 .. Len(s) - 1 : s[i].time < s[i + 1].time
<1> DEFINE n == Len(bars)
           time == bars[1].time - gap
           new == Bar(candle, time)
           s == <<new>> \o bars
<1>1. /\ bars \in Seq(Stored) /\ n \in Nat /\ n > 0 /\ gap \in Nat \ {0}
      /\ \A i \in 1 .. n - 1 : bars[i].time < bars[i + 1].time
      /\ \A i \in 1 .. n : bars[i] \in Stored
    BY SeriesAssumption DEF SeriesInvariant
<1>2. time \in Nat /\ time < bars[1].time
    <2>1. bars[1].time \in Nat
        BY <1>1, StoredAre
    <2> QED BY <1>1, <2>1
<1> HIDE DEF time
<1>3. new \in Stored /\ new.time = time
    BY <1>2, BarIs
<1> HIDE DEF new
<1>4. s \in Seq(Stored) /\ Len(s) = n + 1 /\ s[1] = new
      /\ \A i \in 2 .. n + 1 : s[i] = bars[i - 1]
    BY <1>1, <1>3
<1> HIDE DEF s
<1>5. ASSUME NEW i \in 1 .. Len(s) - 1 PROVE s[i].time < s[i + 1].time
    <2>1. CASE i = 1
        <3>1. 2 \in 2 .. n + 1 /\ i + 1 = 2 /\ 2 - 1 = 1
            BY <1>1, <2>1
        <3>2. s[2] = bars[1]
            BY <1>4, <3>1
        <3> QED BY <1>2, <1>3, <1>4, <2>1, <3>1, <3>2
    <2>2. CASE i # 1
        <3>1. i - 1 \in 1 .. n - 1 /\ i \in 2 .. n + 1 /\ i + 1 \in 2 .. n + 1
              /\ (i - 1) + 1 = i /\ (i + 1) - 1 = i
            BY <1>1, <1>4, <2>2
        <3>2. s[i] = bars[i - 1] /\ s[i + 1] = bars[i]
            BY <1>4, <3>1
        <3>3. bars[i - 1].time < bars[i].time
            BY <1>1, <3>1
        <3> QED BY <3>2, <3>3
    <2> QED BY <2>1, <2>2
<1> QED BY <1>4, <1>5 DEF s, new, time

LEMMA SeriesSteps == SeriesInvariant /\ [Next]_vars => SeriesInvariant'
<1> SUFFICES ASSUME SeriesInvariant, [Next]_vars PROVE SeriesInvariant'
    OBVIOUS
<1>1. CASE UNCHANGED vars
    BY <1>1 DEF vars, SeriesInvariant
<1>2. CASE Next
    <2>1. PICK candle \in Candles(job), gap \in Gaps : Rerun(candle, gap)
        BY <1>2 DEF Next
    <2>2. job' = job /\ job \in Jobs /\ candle \in Prices
        BY <2>1 DEF Rerun, SeriesInvariant, Prices
    <2>3. CASE Collect(candle, gap)
        <3>1. bars' = Grown(bars, candle, gap)
            BY <2>3 DEF Collect
        <3> QED BY <2>2, <3>1, SeriesGrows DEF SeriesInvariant
    <2>4. CASE CollectSecond(candle, gap)
        <3>1. bars' = bars
            BY <2>4 DEF CollectSecond
        <3> QED BY <2>2, <3>1 DEF SeriesInvariant
    <2>5. CASE Backfill(candle, gap)
        <3>1. bars' = <<Bar(candle, bars[1].time - gap)>> \o bars
              /\ bars # << >> /\ bars[1].time >= gap
            BY <2>5 DEF Backfill
        <3> QED BY <2>2, <3>1, SeriesIsBackfilled DEF SeriesInvariant
    <2> QED BY <2>1, <2>3, <2>4, <2>5 DEF Rerun
<1> QED BY <1>1, <1>2

-----------------------------------------------------------------------------
(* The measures *)

\* The prices of a series.
LEMMA ClosesAre ==
    ASSUME SeriesInvariant
    PROVE  /\ Closes(bars) \in Seq(PositiveNumbers) /\ Closes(bars) \in Seq(Rational)
           /\ Len(Closes(bars)) = Len(bars) /\ DOMAIN bars = 1 .. Len(bars)
           /\ Len(bars) \in Nat
<1>1. bars \in Seq(Stored) /\ Len(bars) \in Nat /\ DOMAIN bars = 1 .. Len(bars)
    BY DEF SeriesInvariant
<1>2. ASSUME NEW i \in 1 .. Len(bars) PROVE bars[i].close \in PositiveNumbers
    <2>1. bars[i] \in Stored
        BY <1>1
    <2> QED BY <2>1, StoredAre
<1> DEFINE closes == [i \in 1 .. Len(bars) |-> bars[i].close]
<1>3. closes \in Seq(PositiveNumbers) /\ Len(closes) = Len(bars)
    BY <1>1, <1>2
<1>4. closes \in Seq(Rational)
    BY <1>3 DEF PositiveNumbers
<1>5. Closes(bars) = closes
    BY <1>1 DEF Closes
<1> QED BY <1>1, <1>3, <1>4, <1>5

LEMMA IndicatorsAre ==
    ASSUME SeriesInvariant
    PROVE  IndicatorsHold
<1> DEFINE closes == Closes(bars)
           n == Len(bars)
           sma == Sma(closes, 2)
           ema == Ema(closes, 3)
           rsi == Rsi(closes, 2)
<1>1. closes \in Seq(Rational) /\ Len(closes) = n /\ DOMAIN bars = 1 .. n /\ n \in Nat
    BY ClosesAre
<1> HIDE DEF closes, n
<1>2. 2 \in Nat \ {0} /\ 3 \in Nat \ {0} /\ None \notin Rational
    BY SeriesAssumption
<1>3. ASSUME NEW i \in 1 .. n, i >= 2 PROVE sma[i] = Mean(SubSeq(closes, i - 1, i))
    <2>1. ~(i < 2) /\ (i - 2) + 1 = i - 1 /\ i \in 1 .. Len(closes)
        BY <1>1, <1>3
    <2>2. sma[i] = IF i < 2 THEN None ELSE Mean(SubSeq(closes, (i - 2) + 1, i))
        BY <1>1, <1>2, <2>1, SmaIs
    <2> HIDE DEF sma
    <2> QED BY <2>1, <2>2
<1>4. ASSUME NEW i \in 1 .. n, i >= 3 PROVE Within(ema[i], {closes[k] : k \in 1 .. i})
    <2>1. ~(i < 3) /\ i \in 1 .. Len(closes)
        BY <1>1, <1>4
    <2>2. IF i < 3 THEN ema[i] = None ELSE InRange(ema[i], closes, i)
        BY <1>1, <1>2, <2>1, EmaIs
    <2> HIDE DEF ema
    <2>3. InRange(ema[i], closes, i)
        BY <2>1, <2>2
    <2> QED BY <2>3 DEF InRange, Within
<1>5. ASSUME NEW i \in 1 .. n, i >= 3 PROVE Within(rsi[i], {Zero, R(100)})
    <2>1. i > 2 /\ i \in 1 .. Len(closes)
        BY <1>1, <1>5
    <2>2. Zero \preceq rsi[i] /\ rsi[i] \preceq R(100)
        BY <1>1, <1>2, <2>1, RsiIs
    <2> HIDE DEF rsi
    <2> QED BY <2>2 DEF Within
<1> HIDE DEF sma, ema, rsi
<1>6. \A i \in DOMAIN bars :
        /\ i >= 2 => sma[i] = Mean(SubSeq(closes, i - 1, i))
        /\ i >= 3 => Within(ema[i], {closes[k] : k \in 1 .. i})
        /\ i >= 3 => Within(rsi[i], {Zero, R(100)})
    BY <1>1, <1>3, <1>4, <1>5
<1> QED BY <1>6, Zenon DEF IndicatorsHold, sma, ema, rsi, closes

LEMMA DrawdownIsRight ==
    ASSUME SeriesInvariant
    PROVE  DrawdownIsWorst
<1> SUFFICES ASSUME bars # << >> PROVE DrawdownIsWorst
    BY Zenon DEF DrawdownIsWorst
<1> DEFINE closes == Closes(bars)
           n == Len(bars)
           found == MaxDrawdown(closes)
           falls == UNION {{(closes[j] // closes[i]) -- One : j \in i .. Len(bars)} :
                              i \in DOMAIN bars}
<1>1. closes \in Seq(PositiveNumbers) /\ Len(closes) = n /\ DOMAIN bars = 1 .. n /\ n \in Nat
    BY ClosesAre
<1>2. n > 0
    BY DEF SeriesInvariant
<1> HIDE DEF closes
<1>3. Fallen(found, closes, n, n)
    BY <1>1, <1>2, DrawdownIs
<1> HIDE DEF found
<1>4. ASSUME NEW fall \in falls PROVE found.worst \preceq fall
    <2>1. PICK i \in 1 .. n : fall \in {(closes[j] // closes[i]) -- One : j \in i .. n}
        BY <1>1
    <2>2. PICK j \in i .. n : fall = (closes[j] // closes[i]) -- One
        BY <2>1
    <2> QED BY <1>3, <2>2 DEF Fallen, FallTo
<1>5. found.worst = (closes[found.span[2]] // closes[found.span[1]]) -- One
    BY <1>3 DEF Fallen, FallTo
<1>6. \A fall \in falls : found.worst \preceq fall
    BY <1>4
<1> HIDE DEF falls
<1> QED BY <1>5, <1>6, Zenon DEF DrawdownIsWorst, falls, found, closes

LEMMA MissingIsRight ==
    ASSUME SeriesInvariant
    PROVE  MissingIsCounted
<1> SUFFICES ASSUME bars # << >>,
                    \A i \in 1 .. Len(bars) - 1 : bars[i + 1].time - bars[i].time < SlotCap
             PROVE  Quality(bars).missing =
                      bars[Len(bars)].time - bars[1].time + 1 - Len(bars)
    BY DEF MissingIsCounted
<1> DEFINE n == Len(bars)
<1>1. bars \in Seq(Stored) /\ n \in Nat \ {0}
    BY DEF SeriesInvariant
<1>2. \A i \in 1 .. n : bars[i].time \in Nat
    <2>1. ASSUME NEW i \in 1 .. n PROVE bars[i].time \in Nat
        <3>1. bars[i] \in Stored
            BY <1>1
        <3> QED BY <3>1, StoredAre
    <2> QED BY <2>1
<1>3. \A i \in 1 .. n - 1 : bars[i].time < bars[i + 1].time
    BY DEF SeriesInvariant
<1>4. \A i \in 1 .. n - 1 : bars[i + 1].time - bars[i].time < SlotCap
    OBVIOUS
<1>5. n = Len(bars)
    OBVIOUS
<1> HIDE DEF n
<1>6. Quality(bars).missing = bars[n].time - bars[1].time + 1 - n
    BY <1>1, <1>2, <1>3, <1>4, <1>5, QualityIs
<1> QED BY <1>5, <1>6

\* Whatever bars are collected and backfilled, with whatever holes: the running
\* sum of sma is the mean of its window, an ema stays in the range of what it
\* has seen, an rsi in 0 .. 100, max_drawdown finds the worst fall there is and
\* where, and data_quality counts every bar that is missing.
THEOREM MeasuresAlwaysHold == Spec => []MeasuresHold
<1>1. Init => SeriesInvariant
    BY SeriesStarts
<1>2. SeriesInvariant /\ [Next]_vars => SeriesInvariant'
    BY SeriesSteps
<1>3. SeriesInvariant => MeasuresHold
    BY IndicatorsAre, DrawdownIsRight, MissingIsRight DEF MeasuresHold
<1> QED BY <1>1, <1>2, <1>3, PTL DEF Spec

-----------------------------------------------------------------------------
(* The spacing of a series *)

InOrder == {s \in Seq(Stored) : \A i \in 1 .. Len(s) - 1 : s[i].time < s[i + 1].time}

\* Some member of a sequence of numbers is the greatest.
LEMMA GreatestMember ==
    ASSUME NEW s \in Seq(Nat), Len(s) > 0
    PROVE  \E m \in 1 .. Len(s) : \A i \in 1 .. Len(s) : s[i] <= s[m]
<1> DEFINE best(k) == \E m \in 1 .. k : \A i \in 1 .. k : s[i] <= s[m]
           wrong == {k \in Nat : k >= 1 /\ k <= Len(s) /\ ~ best(k)}
<1>1. Len(s) \in Nat /\ \A i \in 1 .. Len(s) : s[i] \in Nat
    OBVIOUS
<1>2. ASSUME wrong # {} PROVE FALSE
    <2>1. PICK k \in wrong : \A j \in wrong : k <= j
        BY <1>2, LeastNumber
    <2>2. k \in Nat /\ k >= 1 /\ k <= Len(s) /\ ~ best(k)
        <3> HIDE DEF best
        <3> QED OBVIOUS
    <2>3. best(1)
        <3>1. 1 \in 1 .. Len(s)
            BY <1>1
        <3>2. s[1] \in Nat
            BY <1>1, <3>1
        <3>3. s[1] <= s[1]
            <4>1. \A x \in Nat : x <= x
                OBVIOUS
            <4> QED BY <3>2, <4>1, Zenon
        <3> HIDE DEF wrong
        <3>4. 1 \in 1 .. 1 /\ \A i \in 1 .. 1 : i = 1
            <4> HIDE DEF best
            <4> QED OBVIOUS
        <3> QED BY <3>3, <3>4, Zenon
    <2>4. k # 1
        BY <2>2, <2>3
    <2>5. best(k - 1)
        <3> HIDE DEF best
        <3> QED BY <1>1, <2>1, <2>2, <2>4
    <2>6. PICK m \in 1 .. k - 1 : \A i \in 1 .. k - 1 : s[i] <= s[m]
        BY <2>5
    <2> HIDE DEF best, wrong
    <2>9. m \in 1 .. Len(s) /\ k \in 1 .. Len(s) /\ m \in 1 .. k /\ \A i \in 1 .. k : i \in 1 .. Len(s)
        BY <1>1, <2>2, <2>6
    <2> USE DEF best
    <2>7. CASE s[k] <= s[m]
        <3>1. ASSUME NEW i \in 1 .. k PROVE s[i] <= s[m]
            <4>1. i = k \/ i \in 1 .. k - 1
                BY <2>2
            <4> QED BY <2>6, <2>7, <4>1
        <3> QED BY <2>2, <2>9, <3>1
    <2>8. CASE ~(s[k] <= s[m])
        <3>1. ASSUME NEW i \in 1 .. k PROVE s[i] <= s[k]
            <4>1. s[k] \in Nat /\ s[m] \in Nat /\ s[i] \in Nat
                BY <1>1, <2>9
            <4>2. i = k \/ i \in 1 .. k - 1
                BY <2>2
            <4> QED BY <2>6, <2>8, <4>1, <4>2
        <3> QED BY <2>2, <3>1
    <2> QED BY <2>7, <2>8
<1> HIDE DEF best
<1>3. best(Len(s))
    BY <1>1, <1>2
<1> QED BY <1>3 DEF best

\* The k-th smallest of some numbers is one of them.
LEMMA NthIsMember ==
    ASSUME NEW s \in Seq(Nat), NEW k \in Nat, k <= Len(s), Len(s) > 0
    PROVE  \E i \in 1 .. Len(s) : NthSmallest(s, k) = s[i]
<1> DEFINE enough(d) == Cardinality({i \in DOMAIN s : s[i] <= d}) >= k
           members == {s[i] : i \in DOMAIN s}
           large == {d \in members : enough(d)}
           Found(d) == enough(d) /\ \A i \in DOMAIN s : enough(s[i]) => d <= s[i]
<1>1. DOMAIN s = 1 .. Len(s) /\ Len(s) \in Nat /\ \A i \in 1 .. Len(s) : s[i] \in Nat
    OBVIOUS
<1>2. large \in SUBSET Nat
    BY <1>1
<1>3. large # {}
    <2>1. PICK m \in DOMAIN s : \A i \in DOMAIN s : s[i] <= s[m]
        BY <1>1, GreatestMember
    <2>2. {i \in DOMAIN s : s[i] <= s[m]} = 1 .. Len(s)
        <3> HIDE DEF members, large
        <3> QED BY <1>1, <2>1
    <2>3. Cardinality(1 .. Len(s)) = Len(s)
        <3>1. 1 \in Int /\ Len(s) \in Int /\ Len(s) >= 1
            BY <1>1
        <3>2. Cardinality(1 .. Len(s)) = IF 1 > Len(s) THEN 0 ELSE Len(s) - 1 + 1
            BY <3>1, FS_Interval, Zenon
        <3> HIDE DEF members, large
        <3> QED BY <3>1, <3>2
    <2>4. enough(s[m])
        <3>1. Cardinality({i \in DOMAIN s : s[i] <= s[m]}) = Len(s)
            BY <2>2, <2>3
        <3> HIDE DEF members
        <3> QED BY <1>1, <3>1
    <2> HIDE DEF enough
    <2> QED BY <2>1, <2>4
<1>4. PICK d \in large : \A e \in large : d <= e
    <2> HIDE DEF large
    <2> QED BY <1>2, <1>3, LeastNumber
<1>5. d \in members /\ Found(d)
    <2> HIDE DEF enough
    <2> QED BY <1>4
<1>6. NthSmallest(s, k) = CHOOSE e \in members : Found(e)
    BY Zenon DEF NthSmallest
<1>7. NthSmallest(s, k) \in members
    <2> HIDE DEF Found, members
    <2> QED BY <1>5, <1>6
<1> QED BY <1>1, <1>7

LEMMA Halves ==
    ASSUME NEW n \in Int, n >= 1, n % 2 # 1
    PROVE  n \div 2 \in Nat /\ n \div 2 <= n /\ n \div 2 + 1 \in Nat /\ n \div 2 + 1 <= n
<1>1. 2 \in Whole
    BY DEF Whole
<1>2. n = 2 * (n \div 2) + (n % 2) /\ n % 2 \in 0 .. 2 - 1 /\ n \div 2 \in Int
    BY <1>1, Division
<1> QED BY <1>2

\* The usual spacing of a series is a whole number of units.
LEMMA BarStepIs ==
    ASSUME NEW b \in InOrder
    PROVE  BarStep(b) \in Nat \ {0}
<1> DEFINE n == Len(b) - 1
           deltas == [i \in 1 .. n |-> b[i + 1].time - b[i].time]
<1>1. b \in Seq(Stored) /\ Len(b) \in Nat /\ n \in Int
      /\ \A i \in 1 .. n : b[i].time < b[i + 1].time
    BY DEF InOrder
<1>2. CASE n < 1
    BY <1>1, <1>2 DEF BarStep
<1>3. CASE ~(n < 1)
    <2>1. ASSUME NEW i \in 1 .. n PROVE deltas[i] \in Nat /\ deltas[i] > 0
        <3>1. b[i] \in Stored /\ b[i + 1] \in Stored
            BY <1>1
        <3>2. b[i].time \in Nat /\ b[i + 1].time \in Nat
            BY <3>1, StoredAre
        <3> QED BY <1>1, <3>2
    <2>2. deltas \in Seq(Nat) /\ Len(deltas) = n
        <3>1. deltas \in [1 .. n -> Nat]
            BY <2>1
        <3> HIDE DEF deltas
        <3> QED BY <1>1, <1>3, <3>1
    <2>3. BarStep(b) = IF n % 2 = 1 THEN NthSmallest(deltas, (n + 1) \div 2)
                       ELSE (NthSmallest(deltas, n \div 2) + NthSmallest(deltas, n \div 2 + 1)) \div 2
        BY <1>3, Zenon DEF BarStep
    <2> HIDE DEF deltas, n
    <2>4. ASSUME NEW k \in Nat, k <= n
          PROVE  NthSmallest(deltas, k) \in Nat /\ NthSmallest(deltas, k) > 0
        <3>1. PICK i \in 1 .. n : NthSmallest(deltas, k) = deltas[i]
            <4>1. Len(deltas) > 0 /\ k <= Len(deltas)
                BY <1>1, <1>3, <2>2, <2>4
            <4>2. \E i \in 1 .. Len(deltas) : NthSmallest(deltas, k) = deltas[i]
                BY <2>2, <4>1, NthIsMember, Zenon
            <4> QED BY <2>2, <4>2
        <3> QED BY <2>1, <3>1
    <2>5. CASE n % 2 = 1
        <3>1. (n + 1) \div 2 \in Nat /\ (n + 1) \div 2 <= n
            BY <1>1, <1>3
        <3> QED BY <2>3, <2>4, <2>5, <3>1
    <2>6. CASE n % 2 # 1
        <3>1. n \div 2 \in Nat /\ n \div 2 <= n /\ n \div 2 + 1 \in Nat /\ n \div 2 + 1 <= n
            BY <1>1, <1>3, <2>6, Halves
        <3> QED BY <2>3, <2>4, <2>6, <3>1
    <2> QED BY <2>5, <2>6
<1> QED BY <1>2, <1>3

-----------------------------------------------------------------------------
(* Loops without a hidden part *)

\* The states after each index of a loop whose states are all of one kind.
States(r, n, U, start, G) ==
    /\ r \in Seq(U) /\ Len(r) = n
    /\ \A i \in 1 .. n : r[i] = G[<<IF i = 1 THEN start ELSE r[i - 1], i>>]

LEMMA StatesAre ==
    ASSUME NEW n \in Nat, NEW U, NEW start \in U, NEW G \in [U \X (1 .. n) -> U],
           NEW f, f[0] = <<start>>,
           \A i \in 1 .. n, x \in Seq(U) :
              f[i - 1] = x /\ Len(x) = i => f[i] = Append(x, G[<<x[i], i>>])
    PROVE  States(Tail(f[n]), n, U, start, G)
<1> DEFINE May == [i \in 0 .. n |-> U]
<1>1. Loops(n, U, May, start, G)
    <2>1. ASSUME NEW i \in 1 .. n, NEW x \in U PROVE G[<<x, i>>] \in U
        OBVIOUS
    <2>2. ASSUME NEW i \in 1 .. n PROVE i \in 0 .. n /\ i - 1 \in 0 .. n
        OBVIOUS
    <2>3. 0 \in 0 .. n
        OBVIOUS
    <2> QED BY <2>1, <2>2, <2>3 DEF Loops
<1>2. ASSUME NEW i \in 1 .. n, NEW x \in Seq(U),
             f[i - 1] = x, Len(x) = i, x[i] \in May[i - 1]
      PROVE  f[i] = Append(x, G[<<x[i], i>>])
    BY <1>2
<1> HIDE DEF May
<1>3. Passed(Tail(f[n]), n, U, May, start, G)
    BY <1>1, <1>2, LoopIs
<1> QED BY <1>3, Zenon DEF Passed, States

\* The first value of a series that exists.
LEMMA FirstKnownIs ==
    ASSUME NEW n \in Nat, NEW s, DOMAIN s = 1 .. n
    PROVE  \/ FirstKnown(s) = 0 /\ \A i \in 1 .. n : s[i] = None
           \/ /\ FirstKnown(s) \in 1 .. n /\ s[FirstKnown(s)] # None
              /\ \A i \in 1 .. n : i < FirstKnown(s) => s[i] = None
<1> DEFINE known == {i \in DOMAIN s : s[i] # None}
           first == CHOOSE i \in known : \A j \in known : i <= j
<1>1. FirstKnown(s) = IF known = {} THEN 0 ELSE first
    BY DEF FirstKnown
<1>2. known \in SUBSET Nat /\ known \subseteq 1 .. n
    OBVIOUS
<1>3. ASSUME NEW i \in 1 .. n PROVE i \in known <=> s[i] # None
    OBVIOUS
<1> HIDE DEF known
<1>4. CASE known = {}
    BY <1>1, <1>3, <1>4
<1>5. CASE known # {}
    <2>1. \E i \in known : \A j \in known : i <= j
        BY <1>2, <1>5, LeastNumber
    <2>2. first \in known /\ \A j \in known : first <= j
        BY <2>1
    <2> HIDE DEF first
    <2>3. ASSUME NEW i \in 1 .. n, i < first PROVE i \notin known
        BY <1>2, <2>2, <2>3
    <2> QED BY <1>1, <1>2, <1>3, <1>5, <2>2, <2>3
<1> QED BY <1>4, <1>5

-----------------------------------------------------------------------------
(* The decision grid *)

Side == {Zero, One, Short}
GridState == [grid : Int, held : Side]
GridStep(scores, b, rebalance, short, s, i) ==
    IF i < FirstKnown(scores) \/ b[i].time < s.grid THEN s
    ELSE [grid |-> NextGrid(s.grid, rebalance * BarStep(b)),
          held |-> IF scores[i] = None THEN s.held ELSE Read(scores[i], short)]
GridFrom(scores, b, rebalance) ==
    [grid |-> FirstGrid(b[FirstKnown(scores)].time, rebalance * BarStep(b)), held |-> Zero]

\* r are the states on_decision_grid goes through.
GridRun(r, scores, b, rebalance, short) ==
    /\ r \in Seq(GridState) /\ Len(r) = Len(b)
    /\ \A i \in 1 .. Len(b) :
         r[i] = GridStep(scores, b, rebalance, short,
                         IF i = 1 THEN GridFrom(scores, b, rebalance) ELSE r[i - 1], i)
    /\ OnDecisionGrid(scores, b, rebalance, short) = [i \in 1 .. Len(b) |-> r[i].held]

LEMMA TimesAre ==
    ASSUME NEW b \in InOrder, NEW i \in 1 .. Len(b)
    PROVE  b[i].time \in Nat /\ b[i].close \in PositiveNumbers
<1>1. b[i] \in Stored
    BY DEF InOrder
<1> QED BY <1>1, StoredAre

LEMMA GridRuns ==
    ASSUME NEW b \in InOrder, NEW scores, DOMAIN scores = 1 .. Len(b),
           NEW rebalance \in Nat \ {0}, NEW short \in BOOLEAN, FirstKnown(scores) # 0
    PROVE  \E r : GridRun(r, scores, b, rebalance, short)
<1> DEFINE n == Len(b)
           start == FirstKnown(scores)
           period == rebalance * BarStep(b)
           step(s, i) ==
              IF i < start \/ b[i].time < s.grid THEN s
              ELSE [grid |-> NextGrid(s.grid, period),
                    held |-> IF scores[i] = None THEN s.held ELSE Read(scores[i], short)]
           from == [grid |-> FirstGrid(b[start].time, period), held |-> Zero]
           body(g) == [k \in 0 .. n |->
                         IF k = 0 THEN <<from>> ELSE Append(g[k - 1], step(g[k - 1][k], k))]
           f == CHOOSE g : g = body(g)
           whole == Tail(f[n])
           U == GridState
           G == [y \in U \X (1 .. n) |-> step(y[1], y[2])]
<1>1. OnDecisionGrid(scores, b, rebalance, short) = [i \in DOMAIN b |-> whole[i].held]
    BY Zenon DEF OnDecisionGrid, Scan
<1>2. n \in Nat /\ DOMAIN b = 1 .. n
    BY DEF InOrder
<1>3. period \in Int /\ period > 0
    <2>1. BarStep(b) \in Nat \ {0}
        BY BarStepIs
    <2> QED BY <2>1
<1>4. start \in 1 .. n /\ b[start].time \in Nat
    BY <1>2, FirstKnownIs, TimesAre
<1> HIDE DEF n, period, start
<1>10. n \in Nat /\ from \in U /\ \A x \in U, k \in 1 .. n : step(x, k) \in U
    <2>1. from \in U
        <3>1. FirstGrid(b[start].time, period) \in Int
            BY <1>3, <1>4 DEF FirstGrid
        <3> QED BY <3>1 DEF GridState, Side
    <2>2. ASSUME NEW x \in U, NEW k \in 1 .. n PROVE step(x, k) \in U
        <3>1. x.grid \in Int /\ x.held \in Side
            BY DEF GridState
        <3>2. NextGrid(x.grid, period) \in Int
            BY <1>3, <3>1 DEF NextGrid
        <3>3. Read(scores[k], short) \in Side
            BY DEF Read, Side
        <3> DEFINE held == IF scores[k] = None THEN x.held ELSE Read(scores[k], short)
        <3>4. held \in Side
            BY <3>1, <3>3
        <3>5. step(x, k) = IF k < start \/ b[k].time < x.grid THEN x
                           ELSE [grid |-> NextGrid(x.grid, period), held |-> held]
            OBVIOUS
        <3> HIDE DEF held, step
        <3> QED BY <3>2, <3>4, <3>5 DEF GridState
    <2> QED BY <1>2, <2>1, <2>2
<1>11. G \in [U \X (1 .. n) -> U] /\ \A x \in U, k \in 1 .. n : G[<<x, k>>] = step(x, k)
    <2> HIDE DEF step, U
    <2>1. ASSUME NEW y \in U \X (1 .. n) PROVE step(y[1], y[2]) \in U
        <3>1. y[1] \in U /\ y[2] \in 1 .. n
            OBVIOUS
        <3> QED BY <1>10, <3>1
    <2> QED BY <2>1
<1> HIDE DEF G, step, U
<1>12. PICK F : Walked(F, n, U, from, G)
    BY <1>10, <1>11, ScanExists
<1>13. f = body(f)
    <2>1. ASSUME NEW k \in 0 .. n
          PROVE  F[k] = IF k = 0 THEN <<from>> ELSE Append(F[k - 1], step(F[k - 1][k], k))
        <3>1. CASE k = 0
            BY <1>12, <3>1 DEF Walked
        <3>2. CASE k # 0
            <4>1. k \in 1 .. n
                BY <1>10, <3>2
            <4>2. F[k - 1][k] \in U /\ F[k] = Append(F[k - 1], G[<<F[k - 1][k], k>>])
                BY <1>12, <4>1 DEF Walked
            <4> QED BY <1>11, <3>2, <4>1, <4>2
        <3> QED BY <3>1, <3>2
    <2>2. F = [k \in 0 .. n |-> F[k]]
        BY <1>12 DEF Walked
    <2>3. F = body(F)
        BY <2>1, <2>2
    <2> QED BY <2>3, Zenon
<1> HIDE DEF f
<1>14. ASSUME NEW k \in 0 .. n
       PROVE  f[k] = IF k = 0 THEN <<from>> ELSE Append(f[k - 1], step(f[k - 1][k], k))
    <2>1. f[k] = body(f)[k]
        BY <1>13, Zenon
    <2>2. body(f)[k] = IF k = 0 THEN <<from>> ELSE Append(f[k - 1], step(f[k - 1][k], k))
        OBVIOUS
    <2> HIDE DEF body
    <2> QED BY <2>1, <2>2
<1>15. whole \in Seq(U) /\ Len(whole) = n
       /\ \A k \in 1 .. n : whole[k] = step(IF k = 1 THEN from ELSE whole[k - 1], k)
    <2>1. f[0] = <<from>>
        BY <1>10, <1>14
    <2>2. ASSUME NEW k \in 1 .. n, NEW x \in Seq(U), f[k - 1] = x, Len(x) = k
          PROVE  f[k] = Append(x, G[<<x[k], k>>])
        <3>1. k \in 0 .. n /\ k # 0 /\ x[k] \in U
            BY <1>10, <2>2
        <3>2. f[k] = Append(x, step(x[k], k))
            BY <1>14, <2>2, <3>1
        <3> QED BY <1>11, <3>1, <3>2
    <2> HIDE DEF body, from
    <2>5. States(whole, n, U, from, G)
        BY <1>10, <1>11, <2>1, <2>2, StatesAre
    <2>3. /\ whole \in Seq(U) /\ Len(whole) = n
          /\ \A k \in 1 .. n : whole[k] = G[<<IF k = 1 THEN from ELSE whole[k - 1], k>>]
        BY <2>5 DEF States
    <2> HIDE DEF whole
    <2>4. ASSUME NEW k \in 1 .. n
          PROVE  whole[k] = step(IF k = 1 THEN from ELSE whole[k - 1], k)
        <3> DEFINE before == IF k = 1 THEN from ELSE whole[k - 1]
        <3>1. before \in U
            <4>1. CASE k = 1
                BY <1>10, <4>1
            <4>2. CASE k # 1
                <5>1. k - 1 \in 1 .. n
                    BY <1>10, <4>2
                <5> QED BY <2>3, <4>2, <5>1
            <4> QED BY <4>1, <4>2
        <3>2. whole[k] = G[<<before, k>>]
            BY <2>3
        <3> HIDE DEF before
        <3>3. whole[k] = step(before, k)
            BY <1>11, <3>1, <3>2
        <3> QED BY <3>3 DEF before
    <2> QED BY <2>3, <2>4
<1> HIDE DEF whole
<1>20. GridRun(whole, scores, b, rebalance, short)
    <2>1. whole \in Seq(GridState)
        BY <1>15 DEF U
    <2>2. from = GridFrom(scores, b, rebalance)
        BY DEF GridFrom, from, period, start
    <2>3. ASSUME NEW s, NEW i PROVE step(s, i) = GridStep(scores, b, rebalance, short, s, i)
        BY DEF GridStep, step, period, start
    <2> HIDE DEF from
    <2> QED BY <1>1, <1>2, <1>15, <2>1, <2>2, <2>3 DEF GridRun, n
<1> QED BY <1>20

\* Where a multiple of P lies among the quotients by P.
LEMMA QuotientBelow ==
    ASSUME NEW P \in Nat \ {0}, NEW q \in Int, NEW t \in Int, t < q * P
    PROVE  t \div P < q
<1> DEFINE d == t \div P
           m == t % P
<1>1. t = P * d + m /\ m \in 0 .. P - 1 /\ d \in Int
    BY Division DEF Whole
<1> HIDE DEF d, m
<1> SUFFICES ASSUME d >= q PROVE FALSE
    BY <1>1 DEF d
<1>2. P * d >= P * q
    BY <1>1
<1>3. P * q = q * P /\ m >= 0 /\ P * q \in Int /\ P * d \in Int
    BY <1>1
<1> QED BY <1>1, <1>2, <1>3

LEMMA QuotientAtLeast ==
    ASSUME NEW P \in Nat \ {0}, NEW q \in Int, NEW t \in Int, q * P <= t
    PROVE  q <= t \div P
<1> DEFINE d == t \div P
           m == t % P
<1>1. t = P * d + m /\ m \in 0 .. P - 1 /\ d \in Int
    BY Division DEF Whole
<1> HIDE DEF d, m
<1> SUFFICES ASSUME q >= d + 1 PROVE FALSE
    BY <1>1 DEF d
<1>2. P * q >= P * (d + 1)
    BY <1>1
<1>3. P * q = q * P /\ P * (d + 1) = P * d + P /\ m <= P - 1 /\ P * q \in Int /\ P * d \in Int
    BY <1>1
<1> QED BY <1>1, <1>2, <1>3

\* The grid is the first multiple of P after t.
Ahead(grid, t, P) == \E q \in Int : grid = q * P /\ t < q * P /\ q * P <= t + P

LEMMA FirstGridIs ==
    ASSUME NEW P \in Nat \ {0}, NEW t \in Int
    PROVE  \E q \in Int : FirstGrid(t, P) = q * P /\ t <= q * P /\ q * P < t + P
<1> DEFINE u == t + P - 1
           q == u \div P
           m == u % P
<1>1. u = P * q + m /\ m \in 0 .. P - 1 /\ q \in Int
    BY Division DEF Whole
<1>2. FirstGrid(t, P) = q * P
    BY DEF FirstGrid
<1> HIDE DEF q, m
<1>3. q * P = P * q /\ q * P \in Int
    BY <1>1
<1> QED BY <1>1, <1>2, <1>3

\* An exposure changes only where the grid is passed and a score is read.
LEMMA GridChanges ==
    ASSUME NEW b \in InOrder, NEW scores, NEW rebalance, NEW short, NEW r,
           GridRun(r, scores, b, rebalance, short),
           NEW i \in 2 .. Len(b), r[i].held # r[i - 1].held
    PROVE  /\ i >= FirstKnown(scores) \/ ~(i < FirstKnown(scores))
           /\ ~(b[i].time < r[i - 1].grid) /\ scores[i] # None
           /\ r[i].held = Read(scores[i], short)
<1>1. i \in 1 .. Len(b) /\ i # 1
    BY DEF InOrder
<1>2. r[i] = GridStep(scores, b, rebalance, short, r[i - 1], i)
    BY <1>1 DEF GridRun
<1>3. ~(i < FirstKnown(scores) \/ b[i].time < r[i - 1].grid)
    BY <1>2 DEF GridStep
<1>4. r[i].held = IF scores[i] = None THEN r[i - 1].held ELSE Read(scores[i], short)
    BY <1>2, <1>3 DEF GridStep
<1> QED BY <1>3, <1>4

\* Before the first score nothing is held; from then on the grid is one period
\* ahead, if no hole is longer.
LEMMA GridIsAhead ==
    ASSUME NEW b \in InOrder, NEW scores, DOMAIN scores = 1 .. Len(b),
           NEW rebalance \in Nat \ {0}, NEW short \in BOOLEAN, FirstKnown(scores) # 0,
           NEW r, GridRun(r, scores, b, rebalance, short), NEW i \in 1 .. Len(b)
    PROVE  /\ i < FirstKnown(scores) => r[i] = GridFrom(scores, b, rebalance)
           /\ i >= FirstKnown(scores)
                /\ (\A k \in 1 .. Len(b) - 1 : b[k + 1].time - b[k].time <= rebalance * BarStep(b))
              => Ahead(r[i].grid, b[i].time, rebalance * BarStep(b))
<1> DEFINE n == Len(b)
           start == FirstKnown(scores)
           P == rebalance * BarStep(b)
           from == GridFrom(scores, b, rebalance)
           before(k) == IF k = 1 THEN from ELSE r[k - 1]
           time(k) == b[k].time
           connected == \A k \in 1 .. n - 1 : time(k + 1) - time(k) <= P
           Early(k) == k < start => r[k] = from
           Late(k) == k >= start /\ connected => Ahead(r[k].grid, time(k), P)
           wrong == {k \in Nat : k \in 1 .. n /\ ~(Early(k) /\ Late(k))}
<1>1. n \in Nat /\ start \in 1 .. n /\ P \in Nat \ {0} /\ P \in Int /\ P > 0
    <2>1. BarStep(b) \in Nat \ {0}
        BY BarStepIs
    <2>2. n \in Nat
        BY DEF InOrder
    <2> QED BY <2>1, <2>2, FirstKnownIs
<1>2. ASSUME NEW k \in 1 .. n
      PROVE  r[k] = GridStep(scores, b, rebalance, short, before(k), k)
    BY DEF GridRun
<1>3. ASSUME NEW k \in 1 .. n PROVE time(k) \in Nat
    BY TimesAre
<1>4. ASSUME NEW k \in 1 .. n, k # 1 PROVE time(k - 1) < time(k) /\ k - 1 \in 1 .. n
    <2>1. k - 1 \in 1 .. n - 1 /\ (k - 1) + 1 = k /\ k - 1 \in 1 .. n
        BY <1>1, <1>4
    <2> QED BY <2>1 DEF InOrder
<1>5. from.grid = FirstGrid(time(start), P)
    BY DEF GridFrom
<1>6. ASSUME NEW k \in 1 .. n
      PROVE  r[k].grid = IF k < start \/ time(k) < before(k).grid THEN before(k).grid
                         ELSE before(k).grid + P
    <2> HIDE DEF before
    <2>1. r[k] = GridStep(scores, b, rebalance, short, before(k), k)
        BY <1>2
    <2> QED BY <2>1 DEF GridStep, NextGrid
<1> HIDE DEF P, time, from, n
<1>7. ASSUME wrong # {} PROVE FALSE
    <2> HIDE DEF Early, Late
    <2>1. PICK k \in wrong : \A j \in wrong : k <= j
        BY <1>7, LeastNumber
    <2>2. k \in 1 .. n /\ ~(Early(k) /\ Late(k))
        OBVIOUS
    <2>3. k # 1 => k - 1 \in 1 .. n /\ Early(k - 1) /\ Late(k - 1)
        BY <1>1, <2>1, <2>2
    <2> HIDE DEF wrong
    <2> USE DEF Early, Late
    <2>4. Early(k)
        <3> SUFFICES ASSUME k < start PROVE r[k] = from
            OBVIOUS
        <3>1. before(k) = from
            BY <1>1, <2>2, <2>3
        <3> QED BY <1>2, <2>2, <3>1 DEF GridStep
    <2>5. Late(k)
        <3> SUFFICES ASSUME k >= start, connected PROVE Ahead(r[k].grid, time(k), P)
            OBVIOUS
        <3>1. CASE k = start
            <4>1. before(k) = from
                BY <1>1, <2>2, <2>3, <3>1
            <4>2. PICK q \in Int : from.grid = q * P /\ time(k) <= q * P /\ q * P < time(k) + P
                <5>1. time(k) \in Int /\ from.grid = FirstGrid(time(k), P)
                    BY <1>3, <1>5, <2>2, <3>1
                <5>2. \E q \in Int : FirstGrid(time(k), P) = q * P /\ time(k) <= q * P
                                      /\ q * P < time(k) + P
                    BY <1>1, <5>1, FirstGridIs
                <5> QED BY <5>1, <5>2
            <4>3. r[k].grid = IF time(k) < q * P THEN q * P ELSE q * P + P
                BY <1>1, <1>6, <2>2, <3>1, <4>1, <4>2
            <4>4. (q + 1) * P = q * P + P /\ q * P \in Int /\ q + 1 \in Int /\ time(k) \in Int
                BY <1>1, <1>3, <2>2
            <4>5. CASE time(k) < q * P
                BY <1>1, <4>2, <4>3, <4>4, <4>5 DEF Ahead
            <4>6. CASE ~(time(k) < q * P)
                <5>1. r[k].grid = (q + 1) * P /\ time(k) < (q + 1) * P /\ (q + 1) * P <= time(k) + P
                    BY <1>1, <4>2, <4>3, <4>4, <4>6
                <5> QED BY <4>4, <5>1 DEF Ahead
            <4> QED BY <4>5, <4>6
        <3>2. CASE k # start
            <4>1. k # 1 /\ k - 1 >= start /\ ~(k < start)
                BY <1>1, <2>2, <3>2
            <4>2. Ahead(r[k - 1].grid, time(k - 1), P)
                BY <2>3, <4>1
            <4>3. PICK q \in Int : r[k - 1].grid = q * P /\ time(k - 1) < q * P
                                   /\ q * P <= time(k - 1) + P
                BY <4>2 DEF Ahead
            <4>4. r[k].grid = IF time(k) < q * P THEN q * P ELSE q * P + P
                BY <1>6, <2>2, <4>1, <4>3
            <4>5. (q + 1) * P = q * P + P /\ q * P \in Int /\ q + 1 \in Int
                  /\ time(k) \in Int /\ time(k - 1) \in Int
                BY <1>1, <1>3, <2>2, <2>3, <4>1
            <4>6. time(k - 1) < time(k) /\ time(k) <= time(k - 1) + P
                <5>1. k - 1 \in 1 .. n - 1 /\ (k - 1) + 1 = k
                    BY <1>1, <2>2, <4>1
                <5>2. time((k - 1) + 1) - time(k - 1) <= P
                    BY <5>1
                <5>3. time(k) - time(k - 1) <= P
                    BY <5>1, <5>2
                <5> QED BY <1>1, <1>4, <2>2, <4>1, <4>5, <5>3
            <4>7. CASE time(k) < q * P
                <5>1. r[k].grid = q * P /\ q * P <= time(k) + P
                    BY <1>1, <4>3, <4>4, <4>5, <4>6, <4>7
                <5> QED BY <4>7, <5>1 DEF Ahead
            <4>8. CASE ~(time(k) < q * P)
                <5>1. r[k].grid = (q + 1) * P /\ time(k) < (q + 1) * P /\ (q + 1) * P <= time(k) + P
                    BY <1>1, <4>3, <4>4, <4>5, <4>6, <4>8
                <5> QED BY <4>5, <5>1 DEF Ahead
            <4> QED BY <4>7, <4>8
        <3> QED BY <3>1, <3>2
    <2> QED BY <2>2, <2>4, <2>5
<1> HIDE DEF Early, Late
<1>8. Early(i) /\ Late(i)
    BY <1>1, <1>7 DEF n
<1> QED BY <1>8 DEF Early, Late, P, time, from, n

GridOf(x, scores, b, rebalance, short, P) ==
    /\ b \in InOrder /\ DOMAIN scores = 1 .. Len(b)
    /\ rebalance \in Nat \ {0} /\ short \in BOOLEAN
    /\ x = OnDecisionGrid(scores, b, rebalance, short) /\ P = rebalance * BarStep(b)

\* What is read on the grid: a side, nothing before the first score, changed
\* only to what a score says, and only when the period has passed.
GridRead(x, scores, b, short, P) ==
    /\ x \in [1 .. Len(b) -> Side]
    /\ \A i \in 1 .. Len(b) : x[i] # Zero => \E k \in 1 .. i : scores[k] # None
    /\ \A i \in 2 .. Len(b) : x[i] # x[i - 1] =>
         scores[i] # None /\ x[i] = Read(scores[i], short)
    /\ (\A k \in 1 .. Len(b) - 1 : b[k + 1].time - b[k].time <= P)
       => \A i \in 2 .. Len(b) : x[i] # x[i - 1] => b[i].time \div P > b[i - 1].time \div P

LEMMA GridMoves ==
    ASSUME NEW x, NEW scores, NEW b, NEW rebalance, NEW short, NEW P,
           GridOf(x, scores, b, rebalance, short, P)
    PROVE  GridRead(x, scores, b, short, P)
<1> SUFFICES ASSUME b \in InOrder, DOMAIN scores = 1 .. Len(b), rebalance \in Nat \ {0},
                    short \in BOOLEAN, x = OnDecisionGrid(scores, b, rebalance, short),
                    P = rebalance * BarStep(b)
             PROVE  GridRead(x, scores, b, short, P)
    BY DEF GridOf
<1> DEFINE n == Len(b)
           start == FirstKnown(scores)
           connected == \A k \in 1 .. n - 1 : b[k + 1].time - b[k].time <= P
<1>1. n \in Nat /\ DOMAIN b = 1 .. n
    BY DEF InOrder
<1>2. CASE start = 0
    <2>1. x = [i \in 1 .. n |-> Zero]
        BY <1>1, <1>2, Zenon DEF OnDecisionGrid, Flat
    <2> QED BY <1>1, <2>1 DEF Side, GridRead
<1>3. CASE start # 0
    <2>1. PICK r : GridRun(r, scores, b, rebalance, short)
        BY <1>3, GridRuns
    <2>2. /\ r \in Seq(GridState) /\ Len(r) = n /\ x = [i \in 1 .. n |-> r[i].held]
        BY <2>1 DEF GridRun
    <2>3. ASSUME NEW i \in 1 .. n PROVE x[i] = r[i].held /\ r[i].held \in Side
        <3>1. r[i] \in GridState
            BY <2>2
        <3> QED BY <2>2, <3>1 DEF GridState
    <2>4. x \in [1 .. n -> Side]
        BY <2>2, <2>3
    <2>5. start \in 1 .. n /\ scores[start] # None
        BY <1>1, <1>3, FirstKnownIs
    <2>6. ASSUME NEW i \in 1 .. n, x[i] # Zero PROVE \E k \in 1 .. i : scores[k] # None
        <3>1. CASE i < start
            <4>1. r[i] = GridFrom(scores, b, rebalance)
                BY <1>3, <2>1, <3>1, GridIsAhead
            <4> QED BY <2>3, <2>6, <4>1 DEF GridFrom
        <3>2. CASE ~(i < start)
            BY <1>1, <2>5, <3>2
        <3> QED BY <3>1, <3>2
    <2>7. ASSUME NEW i \in 2 .. n, x[i] # x[i - 1]
          PROVE  /\ scores[i] # None /\ x[i] = Read(scores[i], short)
                 /\ i >= start /\ ~(b[i].time < r[i - 1].grid)
                 /\ i \in 1 .. n /\ i - 1 \in 1 .. n /\ i # 1
        <3>1. i \in 1 .. n /\ i - 1 \in 1 .. n /\ i # 1
            BY <1>1
        <3>2. r[i].held # r[i - 1].held
            BY <2>3, <2>7, <3>1
        <3> HIDE DEF start
        <3>3. /\ ~(b[i].time < r[i - 1].grid) /\ scores[i] # None
              /\ r[i].held = Read(scores[i], short)
              /\ i >= start \/ ~(i < start)
            BY <2>1, <3>2, GridChanges DEF start
        <3> QED BY <2>3, <2>5, <3>1, <3>3
    <2>8. ASSUME connected, NEW i \in 2 .. n, x[i] # x[i - 1]
          PROVE  b[i].time \div P > b[i - 1].time \div P
        <3>1. P \in Nat \ {0}
            <4>1. BarStep(b) \in Nat \ {0}
                BY BarStepIs
            <4> QED BY <4>1
        <3>2. i \in 1 .. n /\ i - 1 \in 1 .. n /\ i >= start /\ ~(b[i].time < r[i - 1].grid)
            BY <2>7, <2>8
        <3>3. b[i].time \in Int /\ b[i - 1].time \in Int /\ b[i - 1].time < b[i].time
            <4>1. i - 1 \in 1 .. n - 1 /\ (i - 1) + 1 = i
                BY <1>1
            <4>2. b[i - 1].time < b[(i - 1) + 1].time
                BY <4>1 DEF InOrder
            <4> QED BY <3>2, <4>1, <4>2, TimesAre
        <3>4. \E q \in Int : b[i - 1].time < q * P /\ q * P <= b[i].time
            <4>1. CASE i - 1 >= start
                <5>1. Ahead(r[i - 1].grid, b[i - 1].time, P)
                    <6>1. \A k \in 1 .. Len(b) - 1 : b[k + 1].time - b[k].time <= P
                        BY <2>8 DEF n
                    <6> QED BY <1>3, <2>1, <3>2, <4>1, <6>1, GridIsAhead
                <5>2. PICK q \in Int : r[i - 1].grid = q * P /\ b[i - 1].time < q * P
                    BY <5>1 DEF Ahead
                <5>3. q * P \in Int
                    BY <3>1
                <5> QED BY <3>2, <3>3, <5>2, <5>3
            <4>2. CASE ~(i - 1 >= start)
                <5>1. i = start /\ i - 1 < start
                    BY <2>5, <3>2, <4>2
                <5>2. r[i - 1] = GridFrom(scores, b, rebalance)
                    BY <1>3, <2>1, <3>2, <5>1, GridIsAhead
                <5>3. r[i - 1].grid = FirstGrid(b[i].time, P)
                    BY <5>1, <5>2 DEF GridFrom
                <5>4. PICK q \in Int : FirstGrid(b[i].time, P) = q * P /\ b[i].time <= q * P
                    BY <3>1, <3>3, FirstGridIs
                <5>5. q * P \in Int
                    BY <3>1
                <5> QED BY <3>2, <3>3, <5>3, <5>4, <5>5
            <4> QED BY <4>1, <4>2
        <3>5. PICK q \in Int : b[i - 1].time < q * P /\ q * P <= b[i].time
            BY <3>4
        <3>6. b[i - 1].time \div P < q /\ q <= b[i].time \div P
            BY <3>1, <3>3, <3>5, QuotientBelow, QuotientAtLeast
        <3>7. b[i - 1].time \div P \in Int /\ b[i].time \div P \in Int
            BY <3>1, <3>3, Division DEF Whole
        <3> QED BY <3>6, <3>7
    <2> QED BY <2>4, <2>6, <2>7, <2>8 DEF n, GridRead
<1> QED BY <1>2, <1>3

LEMMA GridIs ==
    ASSUME NEW b \in InOrder, NEW scores, DOMAIN scores = 1 .. Len(b),
           NEW rebalance \in Nat \ {0}, NEW short \in BOOLEAN,
           NEW x, x = OnDecisionGrid(scores, b, rebalance, short)
    PROVE  GridRead(x, scores, b, short, rebalance * BarStep(b))
<1>1. GridOf(x, scores, b, rebalance, short, rebalance * BarStep(b))
    BY DEF GridOf
<1> QED BY <1>1, GridMoves, Zenon

-----------------------------------------------------------------------------
(* Trend *)

\* The prices of a series.
LEMMA PricesAre ==
    ASSUME NEW b \in InOrder
    PROVE  /\ Closes(b) \in Seq(PositiveNumbers) /\ Closes(b) \in Seq(Rational)
           /\ Len(Closes(b)) = Len(b) /\ DOMAIN b = 1 .. Len(b) /\ Len(b) \in Nat
           /\ \A i \in 1 .. Len(b) : Closes(b)[i] = b[i].close
<1>1. Len(b) \in Nat /\ DOMAIN b = 1 .. Len(b)
    BY DEF InOrder
<1>2. ASSUME NEW i \in 1 .. Len(b) PROVE b[i].close \in PositiveNumbers
    BY TimesAre
<1> DEFINE closes == [i \in 1 .. Len(b) |-> b[i].close]
<1>3. closes \in Seq(PositiveNumbers) /\ Len(closes) = Len(b)
    BY <1>1, <1>2
<1>4. closes \in Seq(Rational)
    BY <1>3 DEF PositiveNumbers
<1>5. Closes(b) = closes
    BY <1>1 DEF Closes
<1> QED BY <1>1, <1>3, <1>4, <1>5

\* What a rule wants: a side after every bar, and none before warmup bars.
Wants(x, b, warmup) ==
    /\ x \in [1 .. Len(b) -> Side]
    /\ \A i \in 1 .. Len(b) : x[i] # Zero => i >= warmup

\* A decision grid does not read before there are scores.
LEMMA GridWants ==
    ASSUME NEW b \in InOrder, NEW scores, DOMAIN scores = 1 .. Len(b),
           NEW rebalance \in Nat \ {0}, NEW short \in BOOLEAN, NEW warmup \in Nat,
           \A i \in 1 .. Len(b) : scores[i] # None => i >= warmup
    PROVE  Wants(OnDecisionGrid(scores, b, rebalance, short), b, warmup)
<1> DEFINE x == OnDecisionGrid(scores, b, rebalance, short)
<1>1. /\ x \in [1 .. Len(b) -> Side]
      /\ \A i \in 1 .. Len(b) : x[i] # Zero => \E k \in 1 .. i : scores[k] # None
    BY GridIs DEF GridRead
<1>2. Len(b) \in Nat
    BY DEF InOrder
<1> HIDE DEF x
<1>3. ASSUME NEW i \in 1 .. Len(b), x[i] # Zero PROVE i >= warmup
    <2>1. PICK k \in 1 .. i : scores[k] # None
        BY <1>1, <1>3
    <2>2. k \in 1 .. Len(b) /\ k <= i
        BY <1>2
    <2> QED BY <1>2, <2>1, <2>2
<1> QED BY <1>1, <1>3 DEF Wants, x

LEMMA TsmomWants ==
    ASSUME NEW b \in InOrder, NEW p \in PlainRule, p.kind = "tsmom", TsmomOK(p)
    PROVE  Wants(Tsmom(p, b), b, p.lookback)
<1>1. p.lookback \in Nat /\ p.rebalance \in Nat \ {0}
    BY DEF PlainRule, TsmomOK
<1> DEFINE scores == TsmomScores(p, b)
<1>2. DOMAIN b = 1 .. Len(b) /\ Len(b) \in Nat
    BY DEF InOrder
<1>3. DOMAIN scores = 1 .. Len(b)
      /\ \A i \in 1 .. Len(b) : scores[i] # None => i >= p.lookback
    BY <1>1, <1>2 DEF TsmomScores
<1> HIDE DEF scores
<1> QED BY <1>1, <1>3, GridWants DEF Tsmom, scores

\* Each lookback of a blend is a natural number, and the last the longest.
LEMMA LookbacksAre ==
    ASSUME NEW p \in PlainRule, p.kind = "tsmom-blend", BlendOK(p)
    PROVE  /\ Lookbacks(p) \in [1 .. p.horizons -> Nat \ {0}]
           /\ \A k \in 1 .. p.horizons : Lookbacks(p)[k] <= Lookbacks(p)[p.horizons]
<1> DEFINE h == p.horizons
           c == p.base
           body(g) == [k \in 1 .. h |-> IF k = 1 THEN c ELSE 2 * g[k - 1]]
           f == CHOOSE g : g = body(g)
           double == [x \in Nat \ {0} |-> 2 * x]
<1>1. h \in Nat /\ h >= 2 /\ c \in Nat \ {0}
    BY DEF PlainRule, BlendOK
<1>2. Lookbacks(p) = f
    BY Zenon DEF Lookbacks
<1> HIDE DEF h, c
<1>3. double \in [Nat \ {0} -> Nat \ {0}]
    OBVIOUS
<1>4. PICK F : Repeats(F, Nat \ {0}, c, double)
    <2> HIDE DEF double
    <2> QED BY <1>1, <1>3, ChainRuns
<1>41. ASSUME NEW k \in Nat \ {0} PROVE F[k] = 2 * F[k - 1]
    <2>1. F[k - 1] \in Nat \ {0} /\ F[k] = double[F[k - 1]]
        <3>1. k - 1 \in Nat
            OBVIOUS
        <3> HIDE DEF double
        <3> QED BY <1>4, <3>1 DEF Repeats
    <2> QED BY <2>1
<1>42. F[0] = c
    BY <1>4, Zenon DEF Repeats
<1> HIDE DEF double
<1> DEFINE E == [k \in 1 .. h |-> F[k - 1]]
<1>5. E = body(E)
    <2>1. ASSUME NEW k \in 1 .. h PROVE E[k] = IF k = 1 THEN c ELSE 2 * E[k - 1]
        <3>1. CASE k = 1
            BY <1>42, <3>1
        <3>2. CASE k # 1
            <4>1. k - 1 \in Nat \ {0} /\ k - 1 \in 1 .. h /\ (k - 1) - 1 \in Nat
                BY <1>1, <3>2
            <4>2. F[k - 1] = 2 * F[(k - 1) - 1]
                BY <1>41, <4>1
            <4> QED BY <3>2, <4>1, <4>2
        <3> QED BY <3>1, <3>2
    <2> QED BY <2>1
<1>6. f = body(f)
    BY <1>5, Zenon
<1> HIDE DEF f, E
<1>7. ASSUME NEW k \in 1 .. h PROVE f[k] = IF k = 1 THEN c ELSE 2 * f[k - 1]
    <2>1. f[k] = body(f)[k]
        BY <1>6, Zenon
    <2>2. body(f)[k] = IF k = 1 THEN c ELSE 2 * f[k - 1]
        OBVIOUS
    <2> HIDE DEF body
    <2> QED BY <2>1, <2>2
<1>8. f = [k \in 1 .. h |-> f[k]]
    <2>1. f = [k \in 1 .. h |-> IF k = 1 THEN c ELSE 2 * f[k - 1]]
        BY <1>6, Zenon
    <2> QED BY <2>1
<1> HIDE DEF body
<1>9. ASSUME NEW k \in 1 .. h PROVE f[k] \in Nat \ {0}
    <2> DEFINE wrong == {j \in Nat : j \in 1 .. h /\ f[j] \notin Nat \ {0}}
    <2>1. ASSUME wrong # {} PROVE FALSE
        <3>1. PICK m \in wrong : \A j \in wrong : m <= j
            BY <2>1, LeastNumber
        <3>2. m # 1
            BY <1>1, <1>7
        <3>3. m - 1 \in 1 .. h /\ m - 1 \notin wrong
            BY <1>1, <3>1, <3>2
        <3>4. f[m - 1] \in Nat \ {0}
            BY <3>3
        <3>5. f[m] = 2 * f[m - 1]
            BY <1>7, <3>2
        <3> QED BY <3>4, <3>5
    <2> QED BY <2>1
<1>10. ASSUME NEW k \in 1 .. h PROVE f[k] <= f[h]
    <2> DEFINE wrong == {j \in Nat : j <= h - 1 /\ ~(f[h - j] <= f[h])}
    <2>1. ASSUME wrong # {} PROVE FALSE
        <3>1. PICK m \in wrong : \A j \in wrong : m <= j
            BY <2>1, LeastNumber
        <3>2. h - m \in 1 .. h /\ h \in 1 .. h /\ ~(f[h - m] <= f[h])
            BY <1>1
        <3>3. m # 0
            BY <1>1, <1>9, <3>2
        <3>4. m - 1 \in Nat /\ m - 1 <= h - 1 /\ m - 1 \notin wrong /\ h - (m - 1) = (h - m) + 1
            BY <1>1, <3>1, <3>3
        <3>5. f[(h - m) + 1] <= f[h]
            BY <3>4
        <3> HIDE DEF wrong
        <3>6. (h - m) + 1 \in 1 .. h /\ (h - m) + 1 # 1 /\ ((h - m) + 1) - 1 = h - m
            BY <1>1, <3>2, <3>3, <3>4
        <3>7. f[(h - m) + 1] = 2 * f[h - m]
            BY <1>7, <3>6
        <3>8. f[h - m] \in Nat /\ f[h] \in Nat
            BY <1>9, <3>2
        <3> QED BY <3>2, <3>5, <3>7, <3>8
    <2>2. h - k \in Nat /\ h - k <= h - 1 /\ h - (h - k) = k
        BY <1>1
    <2>3. h - k \notin wrong
        BY <2>1
    <2> QED BY <2>2, <2>3
<1>11. f \in [1 .. h -> Nat \ {0}]
    BY <1>8, <1>9
<1> QED BY <1>2, <1>10, <1>11 DEF h

LEMMA BlendWants ==
    ASSUME NEW b \in InOrder, NEW p \in PlainRule, p.kind = "tsmom-blend", BlendOK(p)
    PROVE  Wants(Blend(p, b), b, Lookbacks(p)[p.horizons])
<1>1. p.rebalance \in Nat \ {0} /\ p.horizons \in Nat /\ p.horizons >= 2
    BY DEF PlainRule, BlendOK
<1> DEFINE scores == BlendScores(p, b)
           last == Lookbacks(p)[p.horizons]
<1>2. last \in Nat
    BY <1>1, LookbacksAre
<1>3. DOMAIN b = 1 .. Len(b) /\ Len(b) \in Nat
    BY DEF InOrder
<1> HIDE DEF last
<1>4. DOMAIN scores = 1 .. Len(b)
      /\ \A i \in 1 .. Len(b) : scores[i] # None => i >= last
    BY <1>2, <1>3 DEF BlendScores, last
<1> HIDE DEF scores
<1> QED BY <1>1, <1>2, <1>4, GridWants DEF Blend, scores, last

\* An average is none before its window is full.
LEMMA SmaWaits ==
    ASSUME NEW b \in InOrder, NEW window \in Nat \ {0}, NEW i \in 1 .. Len(b),
           Sma(Closes(b), window)[i] # None
    PROVE  i >= window
<1>1. Closes(b) \in Seq(Rational) /\ Len(Closes(b)) = Len(b) /\ Len(b) \in Nat
    BY PricesAre
<1>2. i \in 1 .. Len(Closes(b))
    BY <1>1
<1>3. Sma(Closes(b), window)[i] =
        IF i < window THEN None ELSE Mean(SubSeq(Closes(b), (i - window) + 1, i))
    BY <1>1, <1>2, SmaIs
<1> QED BY <1>1, <1>3

LEMMA SmaScoresAre ==
    ASSUME NEW b \in InOrder, NEW p, p.window \in Nat \ {0}
    PROVE  /\ DOMAIN SmaScores(p, b) = 1 .. Len(b)
           /\ \A i \in 1 .. Len(b) : SmaScores(p, b)[i] # None => i >= p.window
<1> DEFINE mean == Sma(Closes(b), p.window)
<1>1. DOMAIN b = 1 .. Len(b)
    BY PricesAre
<1>2. SmaScores(p, b) = [i \in DOMAIN b |->
         IF mean[i] = None THEN None ELSE Sign(b[i].close -- mean[i])]
    BY Zenon DEF SmaScores
<1>3. \A i \in 1 .. Len(b) : mean[i] # None => i >= p.window
    BY SmaWaits
<1> HIDE DEF mean
<1> QED BY <1>1, <1>2, <1>3

LEMMA SmaTrendWants ==
    ASSUME NEW b \in InOrder, NEW p \in PlainRule, p.kind = "sma", SmaOK(p)
    PROVE  /\ Wants(SmaTrend(p, b), b, p.window)
           /\ p.rebalance > 1 =>
                SmaTrend(p, b) = OnDecisionGrid(SmaScores(p, b), b, p.rebalance, FALSE)
<1>1. p.window \in Nat \ {0} /\ p.rebalance \in Nat \ {0}
    BY DEF PlainRule, SmaOK
<1> DEFINE scores == SmaScores(p, b)
           every == [i \in DOMAIN b |-> IF scores[i] = None THEN Zero ELSE Read(scores[i], FALSE)]
<1>2. DOMAIN scores = 1 .. Len(b) /\ \A i \in 1 .. Len(b) : scores[i] # None => i >= p.window
    BY <1>1, SmaScoresAre
<1>3. SmaTrend(p, b) = IF p.rebalance = 1 THEN every
                       ELSE OnDecisionGrid(scores, b, p.rebalance, FALSE)
    BY Zenon DEF SmaTrend
<1>4. DOMAIN b = 1 .. Len(b)
    BY PricesAre
<1> HIDE DEF scores
<1>5. Wants(every, b, p.window)
    <2>1. \A i \in 1 .. Len(b) : Read(scores[i], FALSE) \in Side
        BY DEF Read, Side
    <2> QED BY <1>2, <1>4, <2>1 DEF Wants, Side
<1>6. Wants(OnDecisionGrid(scores, b, p.rebalance, FALSE), b, p.window)
    BY <1>1, <1>2, GridWants
<1> HIDE DEF every
<1>7. p.rebalance > 1 => p.rebalance # 1
    BY <1>1
<1> QED BY <1>3, <1>5, <1>6, <1>7 DEF scores

LEMMA SmaLongShortWants ==
    ASSUME NEW b \in InOrder, NEW p \in PlainRule, p.kind = "sma-ls", p.window >= 2
    PROVE  Wants(SmaTrendLongShort(p, b), b, p.window)
<1>1. p.window \in Nat \ {0}
    BY DEF PlainRule
<1> DEFINE mean == Sma(Closes(b), p.window)
<1>2. DOMAIN b = 1 .. Len(b)
    BY PricesAre
<1>3. SmaTrendLongShort(p, b) = [i \in DOMAIN b |->
         IF mean[i] = None THEN Zero ELSE IF mean[i] \prec b[i].close THEN One ELSE Short]
    BY Zenon DEF SmaTrendLongShort
<1>4. \A i \in 1 .. Len(b) : mean[i] # None => i >= p.window
    BY <1>1, SmaWaits
<1> HIDE DEF mean
<1> QED BY <1>2, <1>3, <1>4 DEF Wants, Side

LEMMA SmaReversionWants ==
    ASSUME NEW b \in InOrder, NEW p \in PlainRule, p.kind = "sma-rev", ReversionOK(p)
    PROVE  Wants(SmaReversion(p, b), b, p.window)
<1>1. p.window \in Nat \ {0}
    BY DEF PlainRule, ReversionOK
<1> DEFINE mean == Sma(Closes(b), p.window)
<1>2. DOMAIN b = 1 .. Len(b)
    BY PricesAre
<1>3. SmaReversion(p, b) = [i \in DOMAIN b |->
            IF mean[i] = None \/ mean[i] = b[i].close THEN Zero
            ELSE IF b[i].close \prec mean[i] THEN One ELSE Sided(p, Short)]
    BY Zenon DEF SmaReversion
<1>4. \A i \in 1 .. Len(b) : mean[i] # None => i >= p.window
    BY <1>1, SmaWaits
<1> HIDE DEF mean
<1> QED BY <1>2, <1>3, <1>4 DEF Wants, Side, Sided

\* The mean of some fractions is one.
LEMMA MeanType ==
    ASSUME NEW s \in Seq(Rational), Len(s) > 0
    PROVE  Mean(s) \in Rational
<1>1. PICK F : Adds(F, s) /\ SumOf(s) = F[Len(s)]
    BY SumOfIs
<1>2. SumOf(s) \in Rational
    BY <1>1 DEF Adds
<1>3. R(Len(s)) \in Rational /\ R(Len(s)) # Zero
    BY CloseIsPositive
<1> QED BY <1>2, <1>3, Quotient DEF Mean

\* An average of values that begin at some bar begins window - 1 bars after.
LEMMA EmaLater ==
    ASSUME NEW values \in Seq(Rational \cup {None}), None \notin Rational,
           FirstKnown(values) \in 1 .. Len(values),
           \A k \in 1 .. Len(values) : k >= FirstKnown(values) => values[k] \in Rational,
           NEW window \in Nat \ {0}, NEW i \in 1 .. Len(values)
    PROVE  IF i < FirstKnown(values) + window - 1 THEN Ema(values, window)[i] = None
           ELSE Ema(values, window)[i] \in Rational
<1> DEFINE n == Len(values)
           start == FirstKnown(values)
           seed == start + window - 1
           alpha == Q(2, window + 1)
           step(e, k) == IF k < seed THEN None
                         ELSE IF k = seed THEN Mean(SubSeq(values, start, seed))
                         ELSE IF values[k] = None THEN e
                         ELSE (alpha ** values[k]) ++ ((One -- alpha) ** e)
           body(g) == [k \in 0 .. n |->
                         IF k = 0 THEN <<None>> ELSE Append(g[k - 1], step(g[k - 1][k], k))]
           f == CHOOSE g : g = body(g)
           whole == Tail(f[n])
           U == Rational \cup {None}
           G == [y \in U \X (1 .. n) |-> step(y[1], y[2])]
           May == [k \in 0 .. n |-> IF k < seed THEN {None} ELSE Rational]
<1>1. /\ n \in Nat /\ i \in 1 .. n /\ start \in 1 .. n /\ window \in Nat \ {0} /\ DOMAIN values = 1 .. n
      /\ seed \in Nat /\ seed >= start /\ seed >= 1
      /\ \A k \in 1 .. n : k >= start => values[k] \in Rational /\ values[k] # None
    OBVIOUS
<1>3. Ema(values, window) =
        IF start = 0 \/ n - start + 1 < window THEN [k \in DOMAIN values |-> None] ELSE whole
    BY Zenon DEF Ema, Scan
<1> HIDE DEF start, n
<1>4. CASE n - start + 1 < window
    <2>1. Ema(values, window) = [k \in DOMAIN values |-> None]
        <3> HIDE DEF whole
        <3> QED BY <1>3, <1>4
    <2>2. Ema(values, window)[i] = None
        BY <1>1, <2>1
    <2>3. i < start + window - 1
        BY <1>1, <1>4
    <2> QED BY <2>2, <2>3 DEF start
<1>5. alpha \in Rational /\ One -- alpha \in Rational
    <2>1. alpha \in Rational
        BY AlphaIs
    <2> HIDE DEF alpha
    <2> QED BY <2>1, Constants, Difference
<1>6. ASSUME seed <= n PROVE Mean(SubSeq(values, start, seed)) \in Rational
    <2> DEFINE part == SubSeq(values, start, seed)
    <2>1. part \in Seq(Rational) /\ Len(part) > 0
        <3> DEFINE size == seed - start + 1
        <3>1. size \in Nat /\ size > 0
            BY <1>1
        <3>2. part = [j \in 1 .. size |-> values[start + j - 1]]
            BY <1>1
        <3>3. ASSUME NEW j \in 1 .. size PROVE values[start + j - 1] \in Rational
            <4>1. start + j - 1 \in 1 .. n /\ ~(start + j - 1 < start)
                BY <1>1, <1>6
            <4> QED BY <1>1, <4>1
        <3> HIDE DEF part, size
        <3> QED BY <3>1, <3>2, <3>3
    <2> HIDE DEF part
    <2>2. Mean(part) \in Rational
        BY <2>1, MeanType
    <2> QED BY <2>2 DEF part
<1> HIDE DEF seed, alpha
<1>10. /\ n \in Nat /\ None \in May[0] /\ May \in [0 .. n -> SUBSET U]
       /\ \A k \in 1 .. n : \A x \in May[k - 1] : step(x, k) \in May[k]
    <2>1. None \in May[0] /\ May \in [0 .. n -> SUBSET U]
        BY <1>1
    <2>2. ASSUME NEW k \in 1 .. n, NEW x \in May[k - 1] PROVE step(x, k) \in May[k]
        <3>1. k \in 0 .. n /\ k - 1 \in 0 .. n
            BY <1>1
        <3>2. CASE k < seed
            BY <3>1, <3>2
        <3>3. CASE k = seed
            <4> DEFINE mean == Mean(SubSeq(values, start, seed))
            <4>1. mean \in Rational
                BY <1>6, <3>3
            <4> HIDE DEF mean
            <4>2. step(x, k) = mean
                BY <1>1, <3>3 DEF mean
            <4> QED BY <1>1, <3>1, <3>3, <4>1, <4>2
        <3>4. CASE k > seed
            <4>1. x \in Rational /\ May[k] = Rational
                BY <1>1, <3>1, <3>4
            <4>2. values[k] \in Rational
                BY <1>1, <3>4
            <4> DEFINE mix == (alpha ** values[k]) ++ ((One -- alpha) ** x)
            <4>3. mix \in Rational
                BY <1>5, <4>1, <4>2, ProductType, SumType
            <4>4. step(x, k) = mix
                BY <1>1, <3>4, <4>2
            <4> HIDE DEF mix, step, May
            <4> QED BY <4>1, <4>3, <4>4
        <3> QED BY <1>1, <3>2, <3>3, <3>4
    <2> QED BY <1>1, <2>1, <2>2
<1>11. G \in [U \X (1 .. n) -> {step(y[1], y[2]) : y \in U \X (1 .. n)}]
       /\ \A k \in 1 .. n : \A x \in May[k - 1] :
            x \in U /\ G[<<x, k>>] = step(x, k) /\ step(x, k) \in May[k]
    <2> HIDE DEF step, U, May
    <2>1. ASSUME NEW k \in 1 .. n, NEW x \in May[k - 1] PROVE x \in U
        <3>1. k - 1 \in 0 .. n
            BY <1>10
        <3> QED BY <1>10, <3>1
    <2>2. ASSUME NEW k \in 1 .. n, NEW x \in May[k - 1] PROVE G[<<x, k>>] = step(x, k)
        <3>1. <<x, k>> \in U \X (1 .. n)
            BY <2>1
        <3> QED BY <3>1
    <2>3. G \in [U \X (1 .. n) -> {step(y[1], y[2]) : y \in U \X (1 .. n)}]
        OBVIOUS
    <2> HIDE DEF G
    <2> QED BY <1>10, <2>1, <2>2, <2>3
<1> HIDE DEF G, step, U, May
<1>12. Loops(n, U, May, None, G)
    BY <1>10, <1>11 DEF Loops
<1>13. PICK F : Runs(F, n, U, May, None, G)
    BY <1>10, <1>12, LoopExists
<1>14. f = body(f)
    <2>1. ASSUME NEW k \in 0 .. n
          PROVE  F[k] = IF k = 0 THEN <<None>> ELSE Append(F[k - 1], step(F[k - 1][k], k))
        <3>1. CASE k = 0
            BY <1>13, <3>1 DEF Runs
        <3>2. CASE k # 0
            <4>1. k \in 1 .. n
                BY <1>10, <3>2
            <4>2. F[k - 1][k] \in May[k - 1] /\ F[k] = Append(F[k - 1], G[<<F[k - 1][k], k>>])
                BY <1>13, <4>1 DEF Runs
            <4> QED BY <1>11, <3>2, <4>1, <4>2
        <3> QED BY <3>1, <3>2
    <2>2. F = [k \in 0 .. n |-> F[k]]
        BY <1>13 DEF Runs
    <2>3. F = body(F)
        BY <2>1, <2>2
    <2> QED BY <2>3, Zenon
<1> HIDE DEF f
<1>15. ASSUME NEW k \in 0 .. n
       PROVE  f[k] = IF k = 0 THEN <<None>> ELSE Append(f[k - 1], step(f[k - 1][k], k))
    <2>1. f[k] = body(f)[k]
        BY <1>14, Zenon
    <2>2. body(f)[k] = IF k = 0 THEN <<None>> ELSE Append(f[k - 1], step(f[k - 1][k], k))
        OBVIOUS
    <2> HIDE DEF body
    <2> QED BY <2>1, <2>2
<1>16. Passed(whole, n, U, May, None, G)
    <2>1. f[0] = <<None>>
        <3>1. 0 \in 0 .. n
            BY <1>10
        <3> HIDE DEF body
        <3> QED BY <1>15, <3>1
    <2>2. ASSUME NEW k \in 1 .. n, NEW x \in Seq(U),
                 f[k - 1] = x, Len(x) = k, x[k] \in May[k - 1]
          PROVE  f[k] = Append(x, G[<<x[k], k>>])
        <3>1. k \in 0 .. n /\ k # 0
            BY <1>10
        <3>2. f[k] = Append(x, step(x[k], k))
            BY <1>15, <2>2, <3>1
        <3> QED BY <1>11, <2>2, <3>2
    <2> HIDE DEF body
    <2> QED BY <1>10, <1>12, <2>1, <2>2, LoopIs
<1> HIDE DEF whole
<1>17. whole \in Seq(U) /\ Len(whole) = n /\ \A k \in 1 .. n : whole[k] \in May[k]
    BY <1>16, Zenon DEF Passed
<1>20. whole[i] \in May[i] /\ i \in 0 .. n
    BY <1>1, <1>17
<1>21. IF i < seed THEN whole[i] = None ELSE whole[i] \in Rational
    BY <1>20 DEF May
<1>22. CASE ~(n - start + 1 < window)
    <2>1. Ema(values, window) = whole
        BY <1>1, <1>3, <1>22
    <2> QED BY <1>21, <2>1 DEF seed, start
<1> QED BY <1>4, <1>22

LEMMA MacdWants ==
    ASSUME NEW b \in InOrder, NEW p \in PlainRule, p.kind = "macd", MacdOK(p),
           None \notin Rational
    PROVE  Wants(MacdTrend(p, b), b, p.slow + p.signal - 1)
<1> DEFINE closes == Closes(b)
           n == Len(b)
           fast == Ema(closes, p.fast)
           slow == Ema(closes, p.slow)
           line == MacdLine(closes, p.fast, p.slow)
           signal == Ema(line, p.signal)
<1>1. /\ p.fast \in Nat \ {0} /\ p.slow \in Nat \ {0} /\ p.signal \in Nat \ {0}
      /\ p.fast < p.slow
    BY DEF PlainRule, MacdOK
<1>2. /\ closes \in Seq(Rational) /\ Len(closes) = n /\ DOMAIN b = 1 .. n /\ n \in Nat
      /\ DOMAIN closes = 1 .. n
    BY PricesAre
<1>3. line = [i \in DOMAIN closes |->
                 IF fast[i] = None \/ slow[i] = None THEN None ELSE fast[i] -- slow[i]]
    BY Zenon DEF MacdLine
<1>4. MacdTrend(p, b) = [i \in DOMAIN b |->
            IF line[i] = None \/ signal[i] = None \/ line[i] = signal[i] THEN Zero
            ELSE IF signal[i] \prec line[i] THEN One ELSE Sided(p, Short)]
    BY Zenon DEF MacdTrend
<1> HIDE DEF n
<1>5. ASSUME NEW i \in 1 .. n
      PROVE  IF i < p.slow THEN line[i] = None ELSE line[i] \in Rational
    <2>1. i \in 1 .. Len(closes)
        BY <1>2
    <2>2. i >= p.fast => fast[i] \in Rational
        <3> HIDE DEF closes
        <3>1. IF i < p.fast THEN Ema(closes, p.fast)[i] = None
              ELSE InRange(Ema(closes, p.fast)[i], closes, i)
            BY <1>1, <1>2, <2>1, EmaIs
        <3> QED BY <1>1, <1>2, <3>1 DEF InRange
    <2>3. IF i < p.slow THEN slow[i] = None ELSE slow[i] \in Rational
        <3> HIDE DEF closes
        <3>1. IF i < p.slow THEN Ema(closes, p.slow)[i] = None
              ELSE InRange(Ema(closes, p.slow)[i], closes, i)
            BY <1>1, <1>2, <2>1, EmaIs
        <3> QED BY <3>1 DEF InRange
    <2> HIDE DEF fast, slow, line
    <2>4. line[i] = IF fast[i] = None \/ slow[i] = None THEN None ELSE fast[i] -- slow[i]
        BY <1>2, <1>3
    <2>5. CASE i < p.slow
        BY <2>3, <2>4, <2>5
    <2>6. CASE ~(i < p.slow)
        <3>1. fast[i] \in Rational /\ slow[i] \in Rational
            BY <1>1, <1>2, <2>2, <2>3, <2>6
        <3>2. fast[i] -- slow[i] \in Rational
            BY <3>1, Difference
        <3> QED BY <2>4, <2>6, <3>1, <3>2
    <2> QED BY <2>5, <2>6
<1>6. line \in Seq(Rational \cup {None}) /\ Len(line) = n /\ DOMAIN line = 1 .. n
    <2>1. DOMAIN line = 1 .. n
        <3> HIDE DEF line
        <3> QED BY <1>2, <1>3
    <2>2. line = [i \in 1 .. n |-> line[i]]
        <3> HIDE DEF fast, slow, closes
        <3>1. line = [i \in 1 .. n |-> IF fast[i] = None \/ slow[i] = None THEN None
                                       ELSE fast[i] -- slow[i]]
            BY <1>2, <1>3
        <3> HIDE DEF line
        <3> QED BY <3>1
    <2> HIDE DEF line
    <2>3. line \in [1 .. n -> Rational \cup {None}]
        BY <1>5, <2>2
    <2> QED BY <1>2, <2>1, <2>3
<1> HIDE DEF line, fast, slow, closes
<1>7. ASSUME NEW i \in 1 .. n, line[i] # None, signal[i] # None
      PROVE  i >= p.slow + p.signal - 1
    <2>1. i >= p.slow /\ p.slow \in 1 .. n
        BY <1>1, <1>2, <1>5, <1>7
    <2>2. FirstKnown(line) = p.slow
        <3>1. \/ FirstKnown(line) = 0 /\ \A k \in 1 .. n : line[k] = None
              \/ /\ FirstKnown(line) \in 1 .. n /\ line[FirstKnown(line)] # None
                 /\ \A k \in 1 .. n : k < FirstKnown(line) => line[k] = None
            BY <1>2, <1>6, FirstKnownIs
        <3>2. line[p.slow] # None
            BY <1>1, <1>5, <2>1
        <3>3. FirstKnown(line) \in 1 .. n /\ ~(p.slow < FirstKnown(line))
            BY <2>1, <3>1, <3>2
        <3>4. ~(FirstKnown(line) < p.slow)
            BY <1>5, <2>1, <3>1, <3>2
        <3> QED BY <1>1, <3>3, <3>4
    <2>3. FirstKnown(line) \in 1 .. Len(line) /\ i \in 1 .. Len(line)
          /\ \A k \in 1 .. Len(line) : k >= FirstKnown(line) => line[k] \in Rational
        BY <1>1, <1>5, <1>6, <2>1, <2>2
    <2>4. IF i < FirstKnown(line) + p.signal - 1 THEN Ema(line, p.signal)[i] = None
          ELSE Ema(line, p.signal)[i] \in Rational
        BY <1>1, <1>6, <2>3, EmaLater
    <2> QED BY <1>1, <1>2, <1>7, <2>2, <2>4
<1> HIDE DEF signal
<1>8. /\ MacdTrend(p, b) \in [1 .. n -> Side]
      /\ \A i \in 1 .. n : MacdTrend(p, b)[i] # Zero => line[i] # None /\ signal[i] # None
    BY <1>2, <1>4 DEF Side, Sided
<1> QED BY <1>7, <1>8 DEF Wants, n

-----------------------------------------------------------------------------
(* Legs *)

SideState == [side : {-1, 0, 1}, since : Nat]

\* r are the sides of a rule that keeps, leaves or takes one after every bar.
SideRun(r, n) ==
    /\ r \in Seq(SideState) /\ Len(r) = n
    /\ \A i \in 1 .. n :
         \/ r[i] \in {NoSide, At(1, i), At(-1, i)}
         \/ i # 1 /\ r[i] = r[i - 1]

\* A side was taken on the bar it says, and held since.
LEMMA HeldSince ==
    ASSUME NEW n \in Nat, NEW r, SideRun(r, n), NEW i \in 1 .. n, r[i].side # 0
    PROVE  /\ r[i].since \in 1 .. i
           /\ \A m \in r[i].since .. i : r[m] = r[i]
<1> DEFINE Right(k) == r[k].side # 0 => /\ r[k].since \in 1 .. k
                                        /\ \A m \in r[k].since .. k : r[m] = r[k]
           wrong == {k \in Nat : k \in 1 .. n /\ ~ Right(k)}
<1>1. ASSUME NEW k \in 1 .. n, r[k] \in {NoSide, At(1, k), At(-1, k)} PROVE Right(k)
    BY <1>1 DEF NoSide, At
<1>2. ASSUME wrong # {} PROVE FALSE
    <2> HIDE DEF Right
    <2>1. PICK k \in wrong : \A j \in wrong : k <= j
        BY <1>2, LeastNumber
    <2>2. k \in 1 .. n /\ ~ Right(k)
        OBVIOUS
    <2>3. k # 1 /\ r[k] = r[k - 1]
        BY <1>1, <2>2 DEF SideRun
    <2>4. k - 1 \in 1 .. n /\ k - 1 \notin wrong
        BY <2>1, <2>2, <2>3
    <2>5. Right(k - 1)
        BY <2>4
    <2> HIDE DEF wrong
    <2>6. Right(k)
        <3> USE DEF Right
        <3> SUFFICES ASSUME r[k].side # 0
                     PROVE  r[k].since \in 1 .. k /\ \A m \in r[k].since .. k : r[m] = r[k]
            OBVIOUS
        <3>1. r[k].since \in 1 .. k - 1 /\ \A m \in r[k].since .. k - 1 : r[m] = r[k]
            BY <2>3, <2>5
        <3>2. ASSUME NEW m \in r[k].since .. k PROVE r[m] = r[k]
            <4>1. m = k \/ m \in r[k].since .. k - 1
                BY <2>2, <3>1
            <4> QED BY <3>1, <4>1
        <3> QED BY <2>2, <3>1, <3>2
    <2> QED BY <2>2, <2>6
<1> HIDE DEF Right
<1>3. Right(i)
    BY <1>2
<1> QED BY <1>3 DEF Right

\* The exposures of a run are its sides.
SidesOf(x, r, n) == x = [i \in 1 .. n |-> R(r[i].side)]

LEMMA ShortIs == Short = R(-1)
<1>1. R(-1) ++ One = Zero
    <2>1. R((-1) + 1) = R(-1) ++ R(1)
        BY WholesAdd
    <2> QED BY <2>1 DEF One, Zero
<1>2. R(-1) \in Rational
    BY WholeIsRational
<1> QED BY <1>1, <1>2, Constants, DifferenceIs DEF Short

LEMMA SidesAre ==
    ASSUME NEW n \in Nat, NEW r, SideRun(r, n), NEW x, SidesOf(x, r, n)
    PROVE  /\ x \in [1 .. n -> Side]
           /\ \A i \in 1 .. n : x[i] = Zero <=> r[i].side = 0
           /\ \A i, k \in 1 .. n : x[i] = x[k] <=> r[i].side = r[k].side
<1>1. ASSUME NEW i \in 1 .. n PROVE r[i].side \in {-1, 0, 1} /\ x[i] = R(r[i].side)
    <2>1. r[i] \in SideState
        BY DEF SideRun
    <2> QED BY <2>1 DEF SideState, SidesOf
<1>2. R(-1) \in Side /\ R(0) \in Side /\ R(1) \in Side
    BY ShortIs DEF Side, Zero, One
<1>3. x = [i \in 1 .. n |-> x[i]]
    BY DEF SidesOf
<1>4. x \in [1 .. n -> Side]
    BY <1>1, <1>2, <1>3
<1>5. ASSUME NEW a, NEW c, R(a) = R(c) PROVE a = c
    BY <1>5 DEF R
<1>6. \A i \in 1 .. n : x[i] = Zero <=> r[i].side = 0
    BY <1>1, <1>5 DEF Zero
<1>7. \A i, k \in 1 .. n : x[i] = x[k] <=> r[i].side = r[k].side
    BY <1>1, <1>5
<1> QED BY <1>4, <1>6, <1>7

\* A stretch of equal exposures begins no later than its side was taken.
StretchOf(x, i) == {k \in 1 .. i : \A m \in k .. i : x[m] = x[i]}

LEMMA LegIs ==
    ASSUME NEW n \in Nat, NEW r, SideRun(r, n), NEW x, SidesOf(x, r, n),
           NEW i \in 1 .. n, r[i].side # 0
    PROVE  \E first \in 1 .. i :
              /\ Length(StretchOf(x, i), i) = i - first + 1 /\ first <= r[i].since
              /\ \A m \in first .. i : r[m].side = r[i].side
<1> DEFINE S == StretchOf(x, i)
           first == CHOOSE k \in S : \A m \in S : k <= m
<1>1. r[i].since \in 1 .. i /\ \A m \in r[i].since .. i : r[m] = r[i]
    BY HeldSince
<1>2. r[i].since \in S
    <2>1. ASSUME NEW m \in r[i].since .. i PROVE x[m] = x[i]
        <3>1. m \in 1 .. n /\ r[m].side = r[i].side
            BY <1>1
        <3> QED BY <3>1, SidesAre
    <2> QED BY <1>1, <2>1 DEF StretchOf
<1>3. S \in SUBSET Nat /\ S \subseteq 1 .. i
    BY DEF StretchOf
<1> HIDE DEF S
<1>4. \E k \in S : \A m \in S : k <= m
    BY <1>2, <1>3, LeastNumber
<1>5. first \in S /\ \A m \in S : first <= m
    BY <1>4
<1>6. Length(S, i) = i - first + 1
    BY Zenon DEF Length
<1> HIDE DEF first
<1>7. ASSUME NEW m \in first .. i PROVE r[m].side = r[i].side
    <2>1. x[m] = x[i]
        BY <1>5 DEF S, StretchOf
    <2>2. m \in 1 .. n
        BY <1>3, <1>5
    <2> QED BY <2>1, <2>2, SidesAre
<1> QED BY <1>2, <1>3, <1>5, <1>6, <1>7 DEF S

-----------------------------------------------------------------------------
(* The breakout and the oscillator rule *)

Channel(p) == IF p.entry > p.exitWindow THEN p.entry ELSE p.exitWindow

\* r are the sides of a breakout.
BreakoutRun(r, p, b) ==
    /\ SideRun(r, Len(b)) /\ SidesOf(Donchian(p, b), r, Len(b))
    /\ \A i \in 1 .. Len(b) : r[i].side # 0 => i > Channel(p)
    /\ \A i \in 2 .. Len(b) :
         r[i].side = 0 /\ r[i - 1].side # 0 => i - r[i - 1].since >= p.minHold

LEMMA BreakoutRuns ==
    ASSUME NEW b \in InOrder, NEW p \in PlainRule, p.kind = "breakout", DonchianOK(p)
    PROVE  \E r : BreakoutRun(r, p, b)
<1> DEFINE n == Len(b)
           warmup == IF p.entry > p.exitWindow THEN p.entry ELSE p.exitWindow
           up(i) == Top(b, i, p.entry) \prec b[i].close
           down(i) == p.mode = "long-short" /\ b[i].close \prec Bottom(b, i, p.entry)
           left(s, i) == /\ MayLeave(p, s, i)
                         /\ IF s.side = 1 THEN b[i].close \prec Bottom(b, i, p.exitWindow)
                            ELSE Top(b, i, p.exitWindow) \prec b[i].close
           step(s, i) ==
              IF i <= warmup THEN NoSide
              ELSE IF s.side # 1 /\ up(i) THEN At(1, i)
              ELSE IF s.side # -1 /\ down(i) THEN At(-1, i)
              ELSE IF s.side # 0 /\ left(s, i) THEN NoSide ELSE s
           body(g) == [k \in 0 .. n |->
                         IF k = 0 THEN <<NoSide>> ELSE Append(g[k - 1], step(g[k - 1][k], k))]
           f == CHOOSE g : g = body(g)
           whole == Tail(f[n])
           U == SideState
           G == [y \in U \X (1 .. n) |-> step(y[1], y[2])]
<1>1. n \in Nat /\ DOMAIN b = 1 .. n
    BY DEF InOrder
<1>2. Donchian(p, b) = [i \in DOMAIN b |-> R(whole[i].side)]
    BY Zenon DEF Donchian, Scan
<1>3. p.entry \in Nat /\ p.exitWindow \in Nat /\ p.minHold \in Nat /\ warmup \in Nat
      /\ warmup = Channel(p)
    BY DEF PlainRule, Channel
<1>4. ASSUME NEW s, NEW i, left(s, i) PROVE Held(s, i) >= p.minHold
    BY <1>4 DEF MayLeave
<1> HIDE DEF n, warmup, up, down, left
<1>5. ASSUME NEW s \in SideState, NEW i \in 1 .. n
      PROVE  /\ step(s, i) \in {NoSide, At(1, i), At(-1, i), s} /\ step(s, i) \in SideState
             /\ i <= warmup => step(s, i) = NoSide
             /\ i > warmup /\ s.side # 0 /\ step(s, i).side = 0 => i - s.since >= p.minHold
    <2>1. step(s, i) \in {NoSide, At(1, i), At(-1, i), s}
        BY Zenon
    <2>2. NoSide \in SideState /\ At(1, i) \in SideState /\ At(-1, i) \in SideState
        BY <1>1 DEF SideState, NoSide, At
    <2>3. i <= warmup => step(s, i) = NoSide
        OBVIOUS
    <2>4. ASSUME i > warmup, s.side # 0, step(s, i).side = 0 PROVE i - s.since >= p.minHold
        <3>1. ~(i <= warmup)
            BY <1>1, <1>3, <2>4
        <3>2. At(1, i).side = 1 /\ At(-1, i).side = -1
            BY DEF At
        <3>3. left(s, i)
            BY <2>4, <3>1, <3>2
        <3>4. Held(s, i) = i - s.since
            BY <2>4 DEF Held
        <3> QED BY <1>4, <3>3, <3>4
    <2> HIDE DEF step
    <2> QED BY <2>1, <2>2, <2>3, <2>4
<1>10. n \in Nat /\ NoSide \in U /\ \A x \in U, k \in 1 .. n : step(x, k) \in U
    <2>1. NoSide \in SideState
        BY DEF SideState, NoSide, At
    <2> HIDE DEF step
    <2> QED BY <1>1, <1>5, <2>1
<1>11. G \in [U \X (1 .. n) -> U] /\ \A x \in U, k \in 1 .. n : G[<<x, k>>] = step(x, k)
    <2> HIDE DEF step, U
    <2>1. ASSUME NEW y \in U \X (1 .. n) PROVE step(y[1], y[2]) \in U
        <3>1. y[1] \in U /\ y[2] \in 1 .. n
            OBVIOUS
        <3> QED BY <1>10, <3>1
    <2> QED BY <2>1
<1> HIDE DEF G, step, U
<1>12. PICK F : Walked(F, n, U, NoSide, G)
    BY <1>10, <1>11, ScanExists
<1>13. f = body(f)
    <2>1. ASSUME NEW k \in 0 .. n
          PROVE  F[k] = IF k = 0 THEN <<NoSide>> ELSE Append(F[k - 1], step(F[k - 1][k], k))
        <3>1. CASE k = 0
            BY <1>12, <3>1 DEF Walked
        <3>2. CASE k # 0
            <4>1. k \in 1 .. n
                BY <1>10, <3>2
            <4>2. F[k - 1][k] \in U /\ F[k] = Append(F[k - 1], G[<<F[k - 1][k], k>>])
                BY <1>12, <4>1 DEF Walked
            <4> QED BY <1>11, <3>2, <4>1, <4>2
        <3> QED BY <3>1, <3>2
    <2>2. F = [k \in 0 .. n |-> F[k]]
        BY <1>12 DEF Walked
    <2>3. F = body(F)
        BY <2>1, <2>2
    <2> QED BY <2>3, Zenon
<1> HIDE DEF f
<1>14. ASSUME NEW k \in 0 .. n
       PROVE  f[k] = IF k = 0 THEN <<NoSide>> ELSE Append(f[k - 1], step(f[k - 1][k], k))
    <2>1. f[k] = body(f)[k]
        BY <1>13, Zenon
    <2>2. body(f)[k] = IF k = 0 THEN <<NoSide>> ELSE Append(f[k - 1], step(f[k - 1][k], k))
        OBVIOUS
    <2> HIDE DEF body
    <2> QED BY <2>1, <2>2
<1>15. whole \in Seq(U) /\ Len(whole) = n
       /\ \A k \in 1 .. n : whole[k] = step(IF k = 1 THEN NoSide ELSE whole[k - 1], k)
    <2>1. f[0] = <<NoSide>>
        BY <1>10, <1>14
    <2>2. ASSUME NEW k \in 1 .. n, NEW x \in Seq(U), f[k - 1] = x, Len(x) = k
          PROVE  f[k] = Append(x, G[<<x[k], k>>])
        <3>1. k \in 0 .. n /\ k # 0 /\ x[k] \in U
            BY <1>10, <2>2
        <3>2. f[k] = Append(x, step(x[k], k))
            BY <1>14, <2>2, <3>1
        <3> QED BY <1>11, <3>1, <3>2
    <2> HIDE DEF body
    <2>5. States(whole, n, U, NoSide, G)
        BY <1>10, <1>11, <2>1, <2>2, StatesAre
    <2>3. /\ whole \in Seq(U) /\ Len(whole) = n
          /\ \A k \in 1 .. n : whole[k] = G[<<IF k = 1 THEN NoSide ELSE whole[k - 1], k>>]
        BY <2>5 DEF States
    <2> HIDE DEF whole
    <2>4. ASSUME NEW k \in 1 .. n
          PROVE  whole[k] = step(IF k = 1 THEN NoSide ELSE whole[k - 1], k)
        <3> DEFINE before == IF k = 1 THEN NoSide ELSE whole[k - 1]
        <3>1. before \in U
            <4>1. CASE k = 1
                BY <1>10, <4>1
            <4>2. CASE k # 1
                <5>1. k - 1 \in 1 .. n
                    BY <1>10, <4>2
                <5> QED BY <2>3, <4>2, <5>1
            <4> QED BY <4>1, <4>2
        <3>2. whole[k] = G[<<before, k>>]
            BY <2>3
        <3> HIDE DEF before
        <3>3. whole[k] = step(before, k)
            BY <1>11, <3>1, <3>2
        <3> QED BY <3>3 DEF before
    <2> QED BY <2>3, <2>4
<1> HIDE DEF whole
<1> DEFINE before(k) == IF k = 1 THEN NoSide ELSE whole[k - 1]
<1>20. ASSUME NEW k \in 1 .. n
       PROVE  before(k) \in SideState /\ whole[k] = step(before(k), k)
              /\ (k = 1 => before(k) = NoSide) /\ (k # 1 => before(k) = whole[k - 1])
    <2>1. NoSide \in SideState
        BY <1>10 DEF U
    <2>2. k # 1 => k - 1 \in 1 .. n
        BY <1>1
    <2>3. k # 1 => whole[k - 1] \in SideState
        BY <1>1, <1>15, <2>2 DEF U
    <2> QED BY <1>15, <2>1, <2>3
<1> HIDE DEF before
<1>21. SideRun(whole, n)
    <2>1. ASSUME NEW i \in 1 .. n
          PROVE  \/ whole[i] \in {NoSide, At(1, i), At(-1, i)}
                 \/ i # 1 /\ whole[i] = whole[i - 1]
        <3>1. whole[i] \in {NoSide, At(1, i), At(-1, i), before(i)}
            BY <1>5, <1>20
        <3> QED BY <1>20, <3>1
    <2>2. whole \in Seq(SideState) /\ Len(whole) = n
        BY <1>15 DEF U
    <2> QED BY <2>1, <2>2 DEF SideRun
<1>22. ASSUME NEW i \in 1 .. n, whole[i].side # 0 PROVE i > warmup
    <2>1. i <= warmup => whole[i] = NoSide
        BY <1>5, <1>20
    <2>2. NoSide.side = 0
        BY DEF NoSide, At
    <2> QED BY <1>1, <1>3, <1>22, <2>1, <2>2
<1>23. ASSUME NEW i \in 2 .. n, whole[i].side = 0, whole[i - 1].side # 0
       PROVE  i - whole[i - 1].since >= p.minHold
    <2>1. i \in 1 .. n /\ i # 1 /\ i - 1 \in 1 .. n
        BY <1>1
    <2>2. i - 1 > warmup
        BY <1>22, <1>23, <2>1
    <2>3. i > warmup /\ before(i) = whole[i - 1] /\ before(i).side # 0 /\ step(before(i), i).side = 0
        BY <1>1, <1>3, <1>20, <1>23, <2>1, <2>2
    <2>4. i - before(i).since >= p.minHold
        BY <1>5, <1>20, <2>1, <2>3
    <2> QED BY <2>3, <2>4
<1>24. SidesOf(Donchian(p, b), whole, n)
    BY <1>1, <1>2 DEF SidesOf
<1>25. BreakoutRun(whole, p, b)
    BY <1>3, <1>21, <1>22, <1>23, <1>24 DEF BreakoutRun, n
<1> QED BY <1>25

LEMMA BreakoutWants ==
    ASSUME NEW b \in InOrder, NEW p \in PlainRule, p.kind = "breakout", DonchianOK(p)
    PROVE  /\ Wants(Donchian(p, b), b, Channel(p))
           /\ \A i \in 2 .. Len(b) :
                Donchian(p, b)[i] = Zero /\ Donchian(p, b)[i - 1] # Zero =>
                  Length(StretchOf(Donchian(p, b), i - 1), i - 1) >= p.minHold
<1> DEFINE n == Len(b)
           x == Donchian(p, b)
<1>1. PICK r : BreakoutRun(r, p, b)
    BY BreakoutRuns
<1>2. n \in Nat /\ p.minHold \in Nat /\ Channel(p) \in Nat
    BY DEF InOrder, PlainRule, Channel
<1>3. /\ SideRun(r, n) /\ SidesOf(x, r, n)
      /\ \A i \in 1 .. n : r[i].side # 0 => i > Channel(p)
      /\ \A i \in 2 .. n :
           r[i].side = 0 /\ r[i - 1].side # 0 => i - r[i - 1].since >= p.minHold
    BY <1>1 DEF BreakoutRun
<1> HIDE DEF x, n
<1>4. x \in [1 .. n -> Side] /\ \A i \in 1 .. n : x[i] = Zero <=> r[i].side = 0
    BY <1>2, <1>3, SidesAre
<1>5. ASSUME NEW i \in 1 .. n, x[i] # Zero PROVE i >= Channel(p)
    BY <1>2, <1>3, <1>4, <1>5
<1>6. ASSUME NEW i \in 2 .. n, x[i] = Zero, x[i - 1] # Zero
      PROVE  Length(StretchOf(x, i - 1), i - 1) >= p.minHold
    <2>1. i \in 1 .. n /\ i - 1 \in 1 .. n
        BY <1>2
    <2>2. i - r[i - 1].since >= p.minHold /\ r[i - 1].side # 0
        BY <1>3, <1>4, <1>6, <2>1
    <2>3. r[i - 1].since \in 1 .. i - 1
        BY <1>2, <1>3, <2>1, <2>2, HeldSince
    <2>4. PICK first \in 1 .. i - 1 :
             /\ Length(StretchOf(x, i - 1), i - 1) = (i - 1) - first + 1
             /\ first <= r[i - 1].since
        BY <1>2, <1>3, <2>1, <2>2, LegIs
    <2> QED BY <1>2, <2>2, <2>3, <2>4
<1> QED BY <1>4, <1>5, <1>6 DEF Wants, x, n

\* r are the sides of an oscillator rule.
OscillatorRun(r, p, b) ==
    /\ SideRun(r, Len(b)) /\ SidesOf(RsiReversion(p, b), r, Len(b))
    /\ \A i \in 1 .. Len(b) : r[i].side # 0 => i >= p.window + 1 /\ i - r[i].since < p.maxHold
    /\ \A i \in 2 .. Len(b) : r[i].side # 0 /\ r[i - 1].side # 0 => r[i] = r[i - 1]

LEMMA OscillatorRuns ==
    ASSUME NEW b \in InOrder, NEW p \in PlainRule, p.kind = "rsi-rev", RsiOK(p)
    PROVE  \E r : OscillatorRun(r, p, b)
<1> DEFINE n == Len(b)
           rsi == Rsi(Closes(b), p.window)
           low(i) == rsi[i] \prec p.oversold
           high(i) == p.mode = "long-short" /\ p.overbought \prec rsi[i]
           back(s, i) == (s.side = 1 /\ p.exit \prec rsi[i]) \/ (s.side = -1 /\ rsi[i] \prec p.exit)
           step(s, i) ==
              IF rsi[i] = None THEN NoSide
              ELSE IF s.side = 0
              THEN IF low(i) THEN At(1, i)
                   ELSE IF high(i) THEN At(-1, i)
                   ELSE s
              ELSE IF TimeUp(p, s, i) THEN NoSide
              ELSE IF back(s, i)
              THEN NoSide ELSE s
           body(g) == [k \in 0 .. n |->
                         IF k = 0 THEN <<NoSide>> ELSE Append(g[k - 1], step(g[k - 1][k], k))]
           f == CHOOSE g : g = body(g)
           whole == Tail(f[n])
           U == SideState
           G == [y \in U \X (1 .. n) |-> step(y[1], y[2])]
<1>1. n \in Nat /\ DOMAIN b = 1 .. n
    BY DEF InOrder
<1>2. RsiReversion(p, b) = [i \in DOMAIN b |-> R(whole[i].side)]
    BY Zenon DEF RsiReversion, Scan
<1>3. p.window \in Nat /\ p.maxHold \in Nat \ {0}
    BY DEF PlainRule, RsiOK
<1>4. ASSUME NEW i \in 1 .. n, rsi[i] # None PROVE i >= p.window + 1
    <2>1. i \in DOMAIN Closes(b)
        BY PricesAre
    <2>2. i <= p.window => rsi[i] = None
        BY <2>1 DEF Rsi
    <2> QED BY <1>1, <1>3, <1>4, <2>2
<1> HIDE DEF n, rsi, low, high, back
<1>5. ASSUME NEW s \in SideState, NEW i \in 1 .. n
      PROVE  /\ step(s, i) \in {NoSide, At(1, i), At(-1, i), s} /\ step(s, i) \in SideState
             /\ rsi[i] = None => step(s, i) = NoSide
             /\ s.side # 0 /\ step(s, i).side # 0 => step(s, i) = s /\ i - s.since < p.maxHold
    <2>1. step(s, i) \in {NoSide, At(1, i), At(-1, i), s}
        BY Zenon
    <2>2. NoSide \in SideState /\ At(1, i) \in SideState /\ At(-1, i) \in SideState
        BY <1>1 DEF SideState, NoSide, At
    <2>3. rsi[i] = None => step(s, i) = NoSide
        OBVIOUS
    <2>4. NoSide.side = 0
        BY DEF NoSide, At
    <2>5. ASSUME s.side # 0, step(s, i).side # 0 PROVE step(s, i) = s /\ i - s.since < p.maxHold
        <3>1. step(s, i) = s /\ ~TimeUp(p, s, i)
            BY <2>4, <2>5
        <3>2. Held(s, i) = i - s.since
            BY <2>5 DEF Held
        <3>3. s.since \in Nat
            BY DEF SideState
        <3> HIDE DEF step
        <3> QED BY <1>1, <1>3, <3>1, <3>2, <3>3 DEF TimeUp
    <2> HIDE DEF step
    <2> QED BY <2>1, <2>2, <2>3, <2>5
<1>10. n \in Nat /\ NoSide \in U /\ \A x \in U, k \in 1 .. n : step(x, k) \in U
    <2>1. NoSide \in SideState
        BY DEF SideState, NoSide, At
    <2> HIDE DEF step
    <2> QED BY <1>1, <1>5, <2>1
<1>11. G \in [U \X (1 .. n) -> U] /\ \A x \in U, k \in 1 .. n : G[<<x, k>>] = step(x, k)
    <2> HIDE DEF step, U
    <2>1. ASSUME NEW y \in U \X (1 .. n) PROVE step(y[1], y[2]) \in U
        <3>1. y[1] \in U /\ y[2] \in 1 .. n
            OBVIOUS
        <3> QED BY <1>10, <3>1
    <2> QED BY <2>1
<1> HIDE DEF G, step, U
<1>12. PICK F : Walked(F, n, U, NoSide, G)
    BY <1>10, <1>11, ScanExists
<1>13. f = body(f)
    <2>1. ASSUME NEW k \in 0 .. n
          PROVE  F[k] = IF k = 0 THEN <<NoSide>> ELSE Append(F[k - 1], step(F[k - 1][k], k))
        <3>1. CASE k = 0
            BY <1>12, <3>1 DEF Walked
        <3>2. CASE k # 0
            <4>1. k \in 1 .. n
                BY <1>10, <3>2
            <4>2. F[k - 1][k] \in U /\ F[k] = Append(F[k - 1], G[<<F[k - 1][k], k>>])
                BY <1>12, <4>1 DEF Walked
            <4> QED BY <1>11, <3>2, <4>1, <4>2
        <3> QED BY <3>1, <3>2
    <2>2. F = [k \in 0 .. n |-> F[k]]
        BY <1>12 DEF Walked
    <2>3. F = body(F)
        BY <2>1, <2>2
    <2> QED BY <2>3, Zenon
<1> HIDE DEF f
<1>14. ASSUME NEW k \in 0 .. n
       PROVE  f[k] = IF k = 0 THEN <<NoSide>> ELSE Append(f[k - 1], step(f[k - 1][k], k))
    <2>1. f[k] = body(f)[k]
        BY <1>13, Zenon
    <2>2. body(f)[k] = IF k = 0 THEN <<NoSide>> ELSE Append(f[k - 1], step(f[k - 1][k], k))
        OBVIOUS
    <2> HIDE DEF body
    <2> QED BY <2>1, <2>2
<1>15. whole \in Seq(U) /\ Len(whole) = n
       /\ \A k \in 1 .. n : whole[k] = step(IF k = 1 THEN NoSide ELSE whole[k - 1], k)
    <2>1. f[0] = <<NoSide>>
        BY <1>10, <1>14
    <2>2. ASSUME NEW k \in 1 .. n, NEW x \in Seq(U), f[k - 1] = x, Len(x) = k
          PROVE  f[k] = Append(x, G[<<x[k], k>>])
        <3>1. k \in 0 .. n /\ k # 0 /\ x[k] \in U
            BY <1>10, <2>2
        <3>2. f[k] = Append(x, step(x[k], k))
            BY <1>14, <2>2, <3>1
        <3> QED BY <1>11, <3>1, <3>2
    <2> HIDE DEF body
    <2>5. States(whole, n, U, NoSide, G)
        BY <1>10, <1>11, <2>1, <2>2, StatesAre
    <2>3. /\ whole \in Seq(U) /\ Len(whole) = n
          /\ \A k \in 1 .. n : whole[k] = G[<<IF k = 1 THEN NoSide ELSE whole[k - 1], k>>]
        BY <2>5 DEF States
    <2> HIDE DEF whole
    <2>4. ASSUME NEW k \in 1 .. n
          PROVE  whole[k] = step(IF k = 1 THEN NoSide ELSE whole[k - 1], k)
        <3> DEFINE before == IF k = 1 THEN NoSide ELSE whole[k - 1]
        <3>1. before \in U
            <4>1. CASE k = 1
                BY <1>10, <4>1
            <4>2. CASE k # 1
                <5>1. k - 1 \in 1 .. n
                    BY <1>10, <4>2
                <5> QED BY <2>3, <4>2, <5>1
            <4> QED BY <4>1, <4>2
        <3>2. whole[k] = G[<<before, k>>]
            BY <2>3
        <3> HIDE DEF before
        <3>3. whole[k] = step(before, k)
            BY <1>11, <3>1, <3>2
        <3> QED BY <3>3 DEF before
    <2> QED BY <2>3, <2>4
<1> HIDE DEF whole
<1> DEFINE before(k) == IF k = 1 THEN NoSide ELSE whole[k - 1]
<1>20. ASSUME NEW k \in 1 .. n
       PROVE  before(k) \in SideState /\ whole[k] = step(before(k), k)
              /\ (k = 1 => before(k) = NoSide) /\ (k # 1 => before(k) = whole[k - 1])
    <2>1. NoSide \in SideState
        BY <1>10 DEF U
    <2>2. k # 1 => k - 1 \in 1 .. n
        BY <1>1
    <2>3. k # 1 => whole[k - 1] \in SideState
        BY <1>1, <1>15, <2>2 DEF U
    <2> QED BY <1>15, <2>1, <2>3
<1> HIDE DEF before
<1>21. SideRun(whole, n)
    <2>1. ASSUME NEW i \in 1 .. n
          PROVE  \/ whole[i] \in {NoSide, At(1, i), At(-1, i)}
                 \/ i # 1 /\ whole[i] = whole[i - 1]
        <3>1. whole[i] \in {NoSide, At(1, i), At(-1, i), before(i)}
            BY <1>5, <1>20
        <3> QED BY <1>20, <3>1
    <2>2. whole \in Seq(SideState) /\ Len(whole) = n
        BY <1>15 DEF U
    <2> QED BY <2>1, <2>2 DEF SideRun
<1>22. ASSUME NEW i \in 1 .. n, whole[i].side # 0
       PROVE  i >= p.window + 1 /\ i - whole[i].since < p.maxHold
    <2>1. NoSide.side = 0 /\ At(1, i).since = i /\ At(-1, i).since = i
        BY DEF NoSide, At
    <2>2. rsi[i] # None
        BY <1>5, <1>20, <1>22, <2>1
    <2>3. whole[i] \in {NoSide, At(1, i), At(-1, i), before(i)}
        BY <1>5, <1>20
    <2>4. CASE whole[i] = before(i)
        BY <1>4, <1>5, <1>20, <1>22, <2>2, <2>4
    <2>5. CASE whole[i].since = i
        BY <1>1, <1>3, <1>4, <2>2, <2>5
    <2> QED BY <1>22, <2>1, <2>3, <2>4, <2>5
<1>23. ASSUME NEW i \in 2 .. n, whole[i].side # 0, whole[i - 1].side # 0
       PROVE  whole[i] = whole[i - 1]
    <2>1. i \in 1 .. n /\ i # 1
        BY <1>1
    <2> QED BY <1>5, <1>20, <1>23, <2>1
<1>24. SidesOf(RsiReversion(p, b), whole, n)
    BY <1>1, <1>2 DEF SidesOf
<1>25. OscillatorRun(whole, p, b)
    BY <1>21, <1>22, <1>23, <1>24 DEF OscillatorRun, n
<1> QED BY <1>25

LEMMA OscillatorWants ==
    ASSUME NEW b \in InOrder, NEW p \in PlainRule, p.kind = "rsi-rev", RsiOK(p)
    PROVE  /\ Wants(RsiReversion(p, b), b, p.window + 1)
           /\ \A i \in 1 .. Len(b) :
                RsiReversion(p, b)[i] # Zero =>
                  Length(StretchOf(RsiReversion(p, b), i), i) <= p.maxHold
<1> DEFINE n == Len(b)
           x == RsiReversion(p, b)
<1>1. PICK r : OscillatorRun(r, p, b)
    BY OscillatorRuns
<1>2. n \in Nat /\ p.maxHold \in Nat /\ p.window \in Nat
    BY DEF InOrder, PlainRule
<1>3. /\ SideRun(r, n) /\ SidesOf(x, r, n)
      /\ \A i \in 1 .. n : r[i].side # 0 => i >= p.window + 1 /\ i - r[i].since < p.maxHold
      /\ \A i \in 2 .. n : r[i].side # 0 /\ r[i - 1].side # 0 => r[i] = r[i - 1]
    BY <1>1 DEF OscillatorRun
<1> HIDE DEF x, n
<1>4. x \in [1 .. n -> Side] /\ \A i \in 1 .. n : x[i] = Zero <=> r[i].side = 0
    BY <1>2, <1>3, SidesAre
<1>5. ASSUME NEW i \in 1 .. n, x[i] # Zero PROVE i >= p.window + 1
    BY <1>3, <1>4, <1>5
<1>6. ASSUME NEW i \in 1 .. n, x[i] # Zero PROVE Length(StretchOf(x, i), i) <= p.maxHold
    <2>1. r[i].side # 0
        BY <1>4, <1>6
    <2> DEFINE taken == r[i].since
    <2>2. taken \in 1 .. i /\ \A m \in taken .. i : r[m] = r[i]
        BY <1>2, <1>3, <2>1, HeldSince
    <2>3. PICK first \in 1 .. i :
             /\ Length(StretchOf(x, i), i) = i - first + 1 /\ first <= taken
             /\ \A m \in first .. i : r[m].side = r[i].side
        BY <1>2, <1>3, <2>1, LegIs
    <2>4. i - taken < p.maxHold
        BY <1>3, <2>1
    <2> HIDE DEF taken
    <2>5. ASSUME first < taken PROVE FALSE
        <3>1. taken \in 2 .. n /\ taken - 1 \in 1 .. n /\ taken \in taken .. i
              /\ taken - 1 \in first .. i
            BY <1>2, <2>2, <2>3, <2>5
        <3>2. r[taken] = r[i] /\ r[taken - 1].side = r[i].side
            BY <2>2, <2>3, <3>1
        <3>3. r[taken - 1] = r[i]
            BY <1>3, <2>1, <3>1, <3>2
        <3>4. r[taken - 1].since \in 1 .. taken - 1
            BY <1>2, <1>3, <2>1, <3>1, <3>2, HeldSince
        <3> QED BY <2>2, <3>3, <3>4 DEF taken
    <2> QED BY <1>2, <2>2, <2>3, <2>4, <2>5
<1> QED BY <1>4, <1>5, <1>6 DEF Wants, x, n

-----------------------------------------------------------------------------
(* The majority *)

\* A sum of ones counts them.
LEMMA SumCounts ==
    ASSUME NEW h \in Nat, NEW S \in SUBSET (1 .. h)
    PROVE  SumOf([k \in 1 .. h |-> IF k \in S THEN One ELSE Zero])[1] = Cardinality(S)
<1> DEFINE s == [k \in 1 .. h |-> IF k \in S THEN One ELSE Zero]
           part(k) == S \cap (1 .. k)
<1>1. s \in Seq(Rational) /\ Len(s) = h /\ \A k \in 1 .. h : s[k] = IF k \in S THEN One ELSE Zero
    <2>1. \A k \in 1 .. h : s[k] \in Rational
        BY Constants
    <2>2. \A k \in 1 .. h : s[k] = IF k \in S THEN One ELSE Zero
        OBVIOUS
    <2>3. s = [k \in 1 .. h |-> s[k]]
        OBVIOUS
    <2> HIDE DEF s
    <2> QED BY <2>1, <2>2, <2>3
<1> HIDE DEF s
<1>2. PICK F : Adds(F, s) /\ SumOf(s) = F[h]
    BY <1>1, SumOfIs
<1>3. F[0] = Zero /\ \A k \in 1 .. h : F[k] = F[k - 1] ++ s[k]
    BY <1>1, <1>2 DEF Adds
<1>4. ASSUME NEW k \in 0 .. h
      PROVE  IsFiniteSet(part(k)) /\ Cardinality(part(k)) \in Nat
    <2>1. IsFiniteSet(1 .. k)
        BY FS_Interval
    <2>2. IsFiniteSet(part(k))
        BY <2>1, FS_Subset
    <2> QED BY <2>2, FS_CardinalityType
<1> DEFINE Right(k) == F[k] = R(Cardinality(part(k)))
           wrong == {k \in Nat : k \in 0 .. h /\ ~ Right(k)}
<1>5. Right(0)
    <2>1. part(0) = {}
        OBVIOUS
    <2>2. Cardinality(part(0)) = 0
        BY <2>1, FS_EmptySet
    <2> HIDE DEF part
    <2> QED BY <1>3, <2>2 DEF Zero
<1>6. ASSUME NEW k \in 1 .. h, Right(k - 1) PROVE Right(k)
    <2>1. k - 1 \in 0 .. h
        OBVIOUS
    <2>2. F[k] = R(Cardinality(part(k - 1))) ++ s[k] /\ s[k] = IF k \in S THEN One ELSE Zero
        BY <1>1, <1>3, <1>6
    <2>3. CASE k \in S
        <3>1. part(k) = part(k - 1) \cup {k} /\ k \notin part(k - 1)
            BY <2>3
        <3>2. Cardinality(part(k)) = Cardinality(part(k - 1)) + 1
            <4> HIDE DEF part
            <4> QED BY <1>4, <2>1, <3>1, FS_AddElement
        <3>3. R(Cardinality(part(k - 1)) + 1) = R(Cardinality(part(k - 1))) ++ R(1)
            <4> HIDE DEF part
            <4> QED BY <1>4, <2>1, WholesAdd
        <3> HIDE DEF part
        <3> QED BY <2>2, <2>3, <3>2, <3>3 DEF One
    <2>4. CASE k \notin S
        <3>1. part(k) = part(k - 1)
            BY <2>4
        <3>2. R(Cardinality(part(k - 1))) \in Rational
            <4> HIDE DEF part
            <4> QED BY <1>4, <2>1, WholeIsRational
        <3> HIDE DEF part
        <3> QED BY <2>2, <2>4, <3>1, <3>2, Neutral
    <2> QED BY <2>3, <2>4
<1>7. ASSUME wrong # {} PROVE FALSE
    <2> HIDE DEF Right
    <2>1. PICK k \in wrong : \A j \in wrong : k <= j
        BY <1>7, LeastNumber
    <2>2. k # 0 /\ k \in 1 .. h
        BY <1>5, <2>1
    <2>3. k - 1 \in 0 .. h /\ k - 1 \in Nat /\ k - 1 \notin wrong
        BY <2>1, <2>2
    <2> QED BY <1>6, <2>1, <2>2, <2>3
<1>8. F[h] = R(Cardinality(part(h)))
    <2>1. Right(h)
        <3> HIDE DEF Right
        <3> QED BY <1>7
    <2> QED BY <2>1
<1>9. part(h) = S
    OBVIOUS
<1> HIDE DEF part
<1>10. SumOf(s) = R(Cardinality(S))
    BY <1>2, <1>8, <1>9
<1> QED BY <1>10 DEF R, s

LEMMA MajorityIs ==
    ASSUME bars \in InOrder, job \in PlainRule, job.kind = "tsmom-blend", BlendOK(job),
           T = Blend(job, bars), NEW i \in 2 .. Len(bars), T[i] # T[i - 1]
    PROVE  T[i] = One <=> Cardinality(Moving(i, TRUE)) > Cardinality(Moving(i, FALSE))
<1> DEFINE n == Len(bars)
           h == job.horizons
           scores == BlendScores(job, bars)
           change(k) == Change(bars, i, Lookbacks(job)[k])
           ways(sign) == {k \in 1 .. h : Sign(change(k)) = sign}
           size(S) == SumOf([k \in 1 .. h |-> IF k \in S THEN One ELSE Zero])[1]
<1>1. h \in Nat /\ job.rebalance \in Nat \ {0} /\ h >= 2
    BY DEF PlainRule, BlendOK
<1>2. n \in Nat /\ DOMAIN bars = 1 .. n /\ i \in 1 .. n
    BY DEF InOrder
<1>3. DOMAIN scores = 1 .. n
      /\ scores[i] = IF i <= Lookbacks(job)[h] THEN None ELSE size(ways(1)) - size(ways(-1))
    <2>1. scores = [m \in DOMAIN bars |->
             IF m <= Lookbacks(job)[h] THEN None
             ELSE LET w(sign) == {k \in 1 .. h : Sign(Change(bars, m, Lookbacks(job)[k])) = sign}
                  IN  size(w(1)) - size(w(-1))]
        BY Zenon DEF BlendScores
    <2> HIDE DEF scores, size
    <2> QED BY <1>2, <2>1
<1>4. scores[i] # None /\ T[i] = Read(scores[i], FALSE)
    <2>1. T = OnDecisionGrid(scores, bars, job.rebalance, FALSE)
        BY DEF Blend
    <2>3. DOMAIN scores = 1 .. Len(bars)
        BY <1>3
    <2> HIDE DEF scores
    <2>2. \A k \in 2 .. Len(bars) : T[k] # T[k - 1] =>
             scores[k] # None /\ T[k] = Read(scores[k], FALSE)
        <3> DEFINE short == FALSE
                   every == job.rebalance
        <3>1. short \in BOOLEAN /\ every \in Nat \ {0} /\ T = OnDecisionGrid(scores, bars, every, short)
            BY <1>1, <2>1
        <3> HIDE DEF short, every, n, h, size, ways, change
        <3>2. GridRead(T, scores, bars, short, every * BarStep(bars))
            BY <2>3, <3>1, GridIs, Zenon
        <3>3. \A k \in 2 .. Len(bars) : T[k] # T[k - 1] =>
                 scores[k] # None /\ T[k] = Read(scores[k], short)
            BY <3>2, Zenon DEF GridRead
        <3> QED BY <3>3 DEF short
    <2> QED BY <2>2
<1>5. ~(i <= Lookbacks(job)[h]) /\ scores[i] = size(ways(1)) - size(ways(-1))
    BY <1>3, <1>4
<1>6. ASSUME NEW k \in 1 .. h PROVE change(k) \in Rational
    <2> DEFINE back == Lookbacks(job)[k]
    <2>1. back \in Nat \ {0} /\ back <= Lookbacks(job)[h] /\ Lookbacks(job)[h] \in Nat
        <3> HIDE DEF h, n, change, size, ways, scores
        <3>1. h \in 1 .. h /\ k \in 1 .. h
            BY <1>1
        <3> QED BY <3>1, LookbacksAre DEF h
    <2> HIDE DEF back
    <2>2. i - back \in 1 .. n
        BY <1>2, <1>5, <2>1
    <2>3. bars[i].close \in PositiveNumbers /\ bars[i - back].close \in PositiveNumbers
        BY <1>2, <2>2, TimesAre
    <2>4. bars[i].close // bars[i - back].close \in Rational
        BY <2>3, PositiveProduct DEF PositiveNumbers
    <2>5. (bars[i].close // bars[i - back].close) -- One \in Rational
        BY <2>4, Constants, Difference
    <2> QED BY <2>5 DEF Change, back
<1> HIDE DEF change, scores
<1>7. ways(1) = {k \in 1 .. h : Positive(change(k))}
      /\ ways(-1) = {k \in 1 .. h : change(k) \prec Zero}
    <2>1. ASSUME NEW x \in Rational
          PROVE  (Sign(x) = 1 <=> Positive(x)) /\ (Sign(x) = -1 <=> x \prec Zero)
        <3>1. x[1] \in Int /\ (Zero \preceq x <=> x[1] >= 0) /\ (x \prec Zero <=> ~(Zero \preceq x))
            BY Signs, Constants, Ordered
        <3> QED BY <3>1 DEF Sign, Positive
    <2> QED BY <1>6, <2>1
<1>8. Moving(i, TRUE) = ways(1) /\ Moving(i, FALSE) = ways(-1)
    BY <1>7 DEF Moving, change
<1>9. ASSUME NEW S \in SUBSET (1 .. h)
      PROVE  size(S) = Cardinality(S) /\ Cardinality(S) \in Nat
    <2>1. IsFiniteSet(1 .. h)
        <3> HIDE DEF h
        <3> QED BY <1>1, FS_Interval
    <2>2. IsFiniteSet(S) /\ Cardinality(S) \in Nat
        BY <2>1, FS_Subset, FS_CardinalityType
    <2> HIDE DEF h
    <2> QED BY <1>1, <2>2, SumCounts
<1>10. ways(1) \in SUBSET (1 .. h) /\ ways(-1) \in SUBSET (1 .. h)
    OBVIOUS
<1> HIDE DEF ways, size
<1>11. T[i] = IF Cardinality(ways(1)) - Cardinality(ways(-1)) > 0 THEN One ELSE Zero
    BY <1>4, <1>5, <1>9, <1>10 DEF Read
<1>12. T[i] = One <=> Cardinality(ways(1)) > Cardinality(ways(-1))
    <2>1. Cardinality(ways(1)) \in Nat /\ Cardinality(ways(-1)) \in Nat
        BY <1>9, <1>10
    <2> QED BY <1>11, <2>1, Constants
<1> QED BY <1>8, <1>12, Zenon

-----------------------------------------------------------------------------
(* Sizes *)

LEMMA SquareIs ==
    ASSUME NEW a \in Rational
    PROVE  a ** a \in AtLeastZero
<1>1. a[1] \in Int /\ a[2] \in Whole
    BY Terms
<1>2. a ** a \in Rational /\ a ** a = Lowest(a[1] * a[1], a[2] * a[2])
    BY ProductType
<1>3. a[1] * a[1] \in Int /\ a[1] * a[1] >= 0 /\ a[2] * a[2] \in Whole
    <2>1. ASSUME NEW m \in Int PROVE m * m \in Int /\ m * m >= 0
        OBVIOUS
    <2> QED BY <1>1, <2>1, WholeProduct
<1>4. ~(Lowest(a[1] * a[1], a[2] * a[2])[1] < 0)
    BY <1>3, LowestSign
<1>5. (a ** a)[1] \in Int /\ (Zero \preceq a ** a <=> (a ** a)[1] >= 0)
    BY <1>2, Signs
<1> QED BY <1>2, <1>4, <1>5 DEF AtLeastZero

\* Returns are fractions.
LEMMA ReturnsAre ==
    ASSUME NEW b \in InOrder, NEW r, r.volWindow \in Nat, r.volWindow >= 2,
           NEW i \in 2 .. Len(b)
    PROVE  VolWindow(r, b, i) \in Seq(Rational) /\ Len(VolWindow(r, b, i)) \in Nat
<1> DEFINE from == IF i - r.volWindow < 1 THEN 2 ELSE i - r.volWindow + 1
           size == i - from + 1
<1>1. Len(b) \in Nat
    BY DEF InOrder
<1>2. from \in 2 .. i /\ size \in Nat
    BY <1>1
<1>3. VolWindow(r, b, i) = [k \in 1 .. size |-> Change(b, from + k - 1, 1)]
    BY DEF VolWindow
<1> HIDE DEF from
<1>4. ASSUME NEW k \in 1 .. size PROVE Change(b, from + k - 1, 1) \in Rational
    <2> DEFINE m == from + k - 1
    <2>1. m \in 1 .. Len(b) /\ m - 1 \in 1 .. Len(b)
        BY <1>1, <1>2
    <2> HIDE DEF m
    <2>2. b[m].close \in PositiveNumbers /\ b[m - 1].close \in PositiveNumbers
        BY <2>1, TimesAre
    <2>3. b[m].close // b[m - 1].close \in Rational
        BY <2>2, PositiveProduct DEF PositiveNumbers
    <2>4. (b[m].close // b[m - 1].close) -- One \in Rational
        BY <2>3, Constants, Difference
    <2> QED BY <2>4 DEF Change, m
<1> HIDE DEF size
<1> QED BY <1>2, <1>3, <1>4

\* A variance is not negative.
LEMMA VarianceIs ==
    ASSUME NEW b \in InOrder, NEW s \in Seq(Rational), Len(s) > 0
    PROVE  Variance(s, b) \in AtLeastZero
<1> DEFINE mean == Mean(s)
           squares == [k \in DOMAIN s |-> (s[k] -- mean) ** (s[k] -- mean)]
           factor == Q(Year, BarStep(b))
<1>1. mean \in Rational
    BY MeanType
<1> HIDE DEF mean
<1>2. squares \in Seq(AtLeastZero) /\ Len(squares) > 0
    <2>1. Len(s) \in Nat /\ DOMAIN s = 1 .. Len(s)
        OBVIOUS
    <2>2. ASSUME NEW k \in 1 .. Len(s) PROVE (s[k] -- mean) ** (s[k] -- mean) \in AtLeastZero
        <3>1. s[k] \in Rational
            OBVIOUS
        <3>2. s[k] -- mean \in Rational
            BY <1>1, <3>1, Difference
        <3> QED BY <3>2, SquareIs
    <2>3. squares \in [1 .. Len(s) -> AtLeastZero]
        BY <2>1, <2>2
    <2> HIDE DEF squares
    <2> QED BY <2>1, <2>3
<1>3. Mean(squares) \in AtLeastZero
    <2> HIDE DEF squares
    <2> QED BY <1>2, MeanAboveZero
<1>4. factor \in AtLeastZero
    <2>1. BarStep(b) \in Nat \ {0} /\ Year \in Nat \ {0}
        BY BarStepIs, SeriesAssumption
    <2>2. factor \in Rational /\ Positive(factor)
        BY <2>1, CloseIsPositive
    <2> HIDE DEF factor
    <2>3. Zero \preceq factor
        BY <2>2, Signs DEF Positive
    <2> QED BY <2>2, <2>3 DEF AtLeastZero
<1>5. Variance(s, b) = Mean(squares) ** factor
    BY DEF Variance, mean
<1> HIDE DEF squares, factor
<1> QED BY <1>3, <1>4, <1>5, AboveZero

\* A number between -c and c is at most c from zero.
LEMMA DistanceWithin ==
    ASSUME NEW y \in Rational, NEW c \in Rational, Zero -- c \preceq y, y \preceq c
    PROVE  Abs(y) \preceq c
<1>1. CASE Zero \preceq y
    BY <1>1, SizeOf
<1>2. CASE ~(Zero \preceq y)
    <2> DEFINE a == Zero -- y
    <2>1. y \preceq Zero
        BY <1>2, Ordered, Constants
    <2>2. a \in Rational /\ Zero \preceq a /\ a ++ y = Zero
        BY <2>1, Constants, Apart, Difference
    <2> HIDE DEF a
    <2>3. y ++ a = Zero
        BY <2>2, SumCommutes
    <2>4. Zero -- a = y
        BY <2>2, <2>3, Constants, DifferenceIs
    <2>5. Abs(y) = a
        BY <2>2, <2>4, SizeOf
    <2>6. Zero -- c \in Rational /\ (Zero -- c) ++ c = Zero
        BY Constants, Difference
    <2>7. (Zero -- c) ++ (a ++ c) \preceq y ++ (a ++ c)
        BY <2>2, <2>6, SumType, SumOrder
    <2>8. (Zero -- c) ++ (a ++ c) = a
        <3>1. (Zero -- c) ++ (a ++ c) = (Zero -- c) ++ (c ++ a)
            BY <2>2, SumCommutes
        <3>2. (Zero -- c) ++ (c ++ a) = ((Zero -- c) ++ c) ++ a
            BY <2>2, <2>6, SumAssociates
        <3> QED BY <2>2, <2>6, <3>1, <3>2, Neutral
    <2>9. y ++ (a ++ c) = c
        <3>1. y ++ (a ++ c) = (y ++ a) ++ c
            BY <2>2, SumAssociates
        <3> QED BY <2>3, <3>1, Neutral
    <2> QED BY <2>5, <2>7, <2>8, <2>9
<1> QED BY <1>1, <1>2

\* A size is clamped to its cap on either side; one within it is kept.
Clamped(cap, x) == Greatest(Zero -- cap, Least(cap, x))

LEMMA ClampIs ==
    ASSUME NEW cap \in AtLeastZero, NEW x \in Rational
    PROVE  /\ Clamped(cap, x) \in Rational /\ Abs(Clamped(cap, x)) \preceq cap
           /\ Zero -- cap \preceq x /\ x \preceq cap => Clamped(cap, x) = x
<1> DEFINE back == Zero -- cap
           low == Least(cap, x)
           y == Greatest(back, low)
<1>1. cap \in Rational /\ Zero \preceq cap /\ back \in Rational
    BY Constants, Difference DEF AtLeastZero
<1>2. back \preceq Zero
    <2>1. back ++ cap = Zero
        BY <1>1, Constants, Difference
    <2>2. Zero \preceq cap => Zero ++ back \preceq cap ++ back
        BY <1>1, Constants, SumOrder
    <2>3. Zero ++ back = back /\ cap ++ back = back ++ cap
        BY <1>1, Neutral, SumCommutes
    <2> HIDE DEF back
    <2> QED BY <1>1, <2>1, <2>2, <2>3
<1>3. back \preceq cap
    <2> HIDE DEF back
    <2> QED BY <1>1, <1>2, Constants, OrderedSteps
<1> HIDE DEF back
<1>4. low \in Rational /\ low \preceq cap
    BY <1>1, LeastBounds
<1>5. y \in Rational /\ back \preceq y /\ y \preceq cap
    <2> HIDE DEF low
    <2> QED BY <1>1, <1>3, <1>4, LeastBounds
<1>6. ASSUME back \preceq x, x \preceq cap PROVE y = x
    <2>1. low = x
        BY <1>1, <1>6, Ordered DEF Least
    <2> HIDE DEF low
    <2> QED BY <1>1, <1>6, <2>1, Ordered DEF Greatest
<1> HIDE DEF y
<1>7. Abs(y) \preceq cap
    BY <1>1, <1>5, DistanceWithin DEF back
<1> QED BY <1>5, <1>6, <1>7 DEF Clamped, y, low, back

\* The exposure of a side of some size.
LEMMA SizedSide ==
    ASSUME NEW x \in Side, NEW s \in AtLeastZero
    PROVE  /\ x ** s \in Rational /\ Abs(x ** s) \preceq s
           /\ Zero -- s \preceq x ** s /\ x ** s \preceq s
           /\ x = Zero => x ** s = Zero
<1>1. s \in Rational /\ Zero \preceq s /\ Zero \in Rational /\ One \in Rational
    BY Constants DEF AtLeastZero
<1>2. Short \in Rational /\ Zero -- s \in Rational /\ Short ++ One = Zero /\ (Zero -- s) ++ s = Zero
    BY <1>1, Difference DEF Short
<1>3. Zero ** s = Zero /\ One ** s = s
    BY <1>1, Neutral
<1>4. Short ** s = Zero -- s
    <2>1. (Short ** s) ++ (One ** s) = (Short ++ One) ** s
        <3>1. s ** (Short ++ One) = (s ** Short) ++ (s ** One)
            BY <1>1, <1>2, ProductDistributes
        <3> QED BY <1>1, <1>2, <3>1, ProductCommutes
    <2>2. (Short ** s) ++ s = Zero
        BY <1>2, <1>3, <2>1
    <2>3. Short ** s \in Rational
        BY <1>1, <1>2, ProductType
    <2> QED BY <1>1, <2>2, <2>3, DifferenceIs
<1>5. Zero -- s \preceq Zero
    <2>1. Zero ++ (Zero -- s) \preceq s ++ (Zero -- s)
        BY <1>1, <1>2, SumOrder
    <2>2. Zero ++ (Zero -- s) = Zero -- s /\ s ++ (Zero -- s) = Zero
        BY <1>1, <1>2, Neutral, SumCommutes
    <2> QED BY <2>1, <2>2
<1>6. Zero -- s \preceq s /\ s \preceq s /\ Zero -- s \preceq Zero -- s
    BY <1>1, <1>2, <1>5, OrderedSteps, Ordered
<1>7. x ** s \in {Zero, s, Zero -- s}
    BY <1>3, <1>4 DEF Side
<1>8. x ** s \in Rational /\ Zero -- s \preceq x ** s /\ x ** s \preceq s
    BY <1>1, <1>2, <1>5, <1>6, <1>7
<1>9. Abs(x ** s) \preceq s
    BY <1>1, <1>8, DistanceWithin
<1> QED BY <1>3, <1>8, <1>9

\* The larger of two, turned round, is the smaller.
LEMMA TurnedRound ==
    ASSUME NEW a \in Rational, NEW c \in Rational, a \preceq c
    PROVE  Zero -- c \preceq Zero -- a
<1> DEFINE na == Zero -- a
           nc == Zero -- c
           both == na ++ nc
<1>1. na \in Rational /\ nc \in Rational /\ na ++ a = Zero /\ nc ++ c = Zero
    BY Constants, Difference
<1> HIDE DEF na, nc
<1>2. both \in Rational
    BY <1>1, SumType
<1>3. a ++ both = nc
    <2>1. a ++ both = (a ++ na) ++ nc
        BY <1>1, SumAssociates
    <2> QED BY <1>1, <2>1, SumCommutes, Neutral
<1>4. c ++ both = na
    <2>1. c ++ both = c ++ (nc ++ na)
        BY <1>1, SumCommutes
    <2>2. c ++ (nc ++ na) = (c ++ nc) ++ na
        BY <1>1, SumAssociates
    <2> QED BY <1>1, <2>1, <2>2, SumCommutes, Neutral
<1> HIDE DEF both
<1>5. nc \preceq na
    BY <1>2, <1>3, <1>4, SumOrder
<1> QED BY <1>5 DEF na, nc

\* The parameters of a size.
LEMMA SizesAre ==
    ASSUME NEW r \in SizedRule, ScaledOK(r)
    PROVE  /\ r.cap ** r.cap \in AtLeastZero /\ r.cap ** r.cap \preceq One
           /\ r.floor ** r.floor \in AtLeastZero
           /\ r.targetVol ** r.targetVol \in AtLeastZero
           /\ r.floor = Zero => r.floor ** r.floor = Zero
<1>1. r.cap \in Rational /\ r.floor \in Rational /\ r.targetVol \in Rational
    BY DEF SizedRule
<1>2. Zero \preceq r.floor /\ r.floor \preceq r.cap /\ r.cap \preceq One
    BY DEF ScaledOK
<1> DEFINE c == r.cap
<1>3. c \in Rational /\ Zero \preceq c /\ c \preceq One
    BY <1>1, <1>2, Constants, OrderedSteps
<1> HIDE DEF c
<1>4. c ** c \in AtLeastZero
    BY <1>3, SquareIs
<1>5. c ** c \preceq One
    <2>1. c ** c \preceq One ** c
        BY <1>3, Constants, ProductOrder
    <2>2. One ** c = c /\ c ** c \in Rational
        BY <1>3, Neutral, ProductType
    <2> QED BY <1>3, <2>1, <2>2, Constants, OrderedSteps
<1>6. r.floor = Zero => r.floor ** r.floor = Zero
    BY Neutral, Constants
<1> QED BY <1>1, <1>4, <1>5, <1>6, SquareIs DEF c

\* A scale is at most the cap, and brings a measured volatility to the target.
LEMMA ScaleIs ==
    ASSUME NEW b \in InOrder, NEW r \in SizedRule, ScaledOK(r), NEW i \in 1 .. Len(b),
           NEW returns, returns = VolWindow(r, b, i)
    PROVE  /\ ScaleSquared(r, b, i) \in AtLeastZero
           /\ i > 1 /\ Len(returns) >= r.minObservations /\ r.floor = Zero =>
                /\ ScaleSquared(r, b, i) \preceq r.cap ** r.cap
                /\ Variance(returns, b) \in AtLeastZero
                /\ ScaleSquared(r, b, i) ** Variance(returns, b)
                     \preceq r.targetVol ** r.targetVol
<1> DEFINE cap == r.cap ** r.cap
           floor == r.floor ** r.floor
           target == r.targetVol ** r.targetVol
           v == Variance(returns, b)
           scale == ScaleSquared(r, b, i)
           measured == i > 1 /\ Len(returns) >= r.minObservations
           part == Greatest(floor, Least(cap, target // v))
<1>1. /\ cap \in AtLeastZero /\ floor \in AtLeastZero /\ target \in AtLeastZero
      /\ r.floor = Zero => floor = Zero
    BY SizesAre
<1>2. r.volWindow \in Nat /\ r.volWindow >= 2 /\ r.minObservations \in Nat
      /\ r.minObservations >= 2
    BY DEF SizedRule, ScaledOK
<1>3. scale = IF i = 1 \/ Len(returns) < r.minObservations THEN One
              ELSE IF v = Zero THEN cap ELSE part
    BY Zenon DEF ScaleSquared
<1>4. One \in AtLeastZero
    BY WholeAboveZero DEF One
<1>5. CASE ~ measured
    <2> HIDE DEF part, v, cap, scale
    <2>1. i > 1 => Len(returns) \in Nat
        <3>1. i > 1 => i \in 2 .. Len(b)
            BY DEF InOrder
        <3> QED BY <1>2, <3>1, ReturnsAre
    <2>2. i = 1 \/ Len(returns) < r.minObservations
        BY <1>2, <1>5, <2>1 DEF InOrder
    <2>3. scale = One
        BY <1>3, <2>2
    <2> QED BY <1>4, <1>5, <2>3 DEF scale
<1>6. CASE measured
    <2>1. i \in 2 .. Len(b) /\ i # 1
        BY <1>6 DEF InOrder
    <2>2. returns \in Seq(Rational) /\ Len(returns) \in Nat
        BY <1>2, <2>1, ReturnsAre
    <2>3. Len(returns) > 0 /\ ~(Len(returns) < r.minObservations)
        BY <1>2, <1>6, <2>2
    <2>4. v \in AtLeastZero
        BY <2>2, <2>3, VarianceIs
    <2>5. scale = IF v = Zero THEN cap ELSE part
        <3> HIDE DEF v, cap, part, scale
        <3> QED BY <1>3, <2>1, <2>3
    <2>6. scale \in AtLeastZero
          /\ (r.floor = Zero => scale \preceq cap /\ scale ** v \preceq target)
        <3> HIDE DEF scale, cap, floor, target, v
        <3>0. cap \in Rational /\ target \in Rational /\ v \in Rational /\ Zero \preceq target
              /\ Zero \preceq v /\ floor \in Rational
            BY <1>1, <2>4 DEF AtLeastZero
        <3>1. CASE v = Zero
            <4>1. scale = cap /\ scale ** v = Zero /\ cap \preceq cap
                BY <2>5, <3>0, <3>1, Neutral, Ordered
            <4> QED BY <1>1, <3>0, <4>1
        <3>2. CASE v # Zero
            <4> DEFINE q == target // v
                       low == Least(cap, q)
            <4>1. Positive(v)
                BY <3>0, <3>2, Signs DEF Positive
            <4>2. q \in AtLeastZero /\ q ** v = target
                BY <1>1, <2>4, <4>1, AboveZero
            <4>3. scale = Greatest(floor, low)
                BY <2>5, <3>2
            <4> HIDE DEF q
            <4>4. q \in Rational /\ Zero \preceq q
                BY <4>2 DEF AtLeastZero
            <4>5. low \in AtLeastZero /\ low \preceq cap /\ low \preceq q
                BY <1>1, <3>0, <4>2, <4>4, LeastBounds
            <4> HIDE DEF low
            <4>6. low \in Rational /\ Zero \preceq low
                BY <4>5 DEF AtLeastZero
            <4>7. scale \in AtLeastZero
                BY <1>1, <3>0, <4>3, <4>5, <4>6, LeastBounds
            <4>8. ASSUME r.floor = Zero PROVE scale = low
                BY <1>1, <4>3, <4>6, <4>8 DEF Greatest
            <4>9. low ** v \preceq target
                BY <3>0, <4>2, <4>4, <4>5, <4>6, ProductOrder
            <4> QED BY <4>5, <4>7, <4>8, <4>9
        <3> QED BY <3>1, <3>2
    <2> QED BY <2>4, <2>6
<1> QED BY <1>5, <1>6

\* What sizing makes of the sides of a rule.
LEMMA ScaledIs ==
    ASSUME NEW b \in InOrder, NEW r \in SizedRule, ScaledOK(r),
           NEW inner \in [1 .. Len(b) -> Side], NEW i \in 1 .. Len(b),
           NEW returns, returns = VolWindow(r, b, i), NEW x, x = Scaled(r, inner, b)[i]
    PROVE  /\ x \in Rational /\ Abs(x) \preceq r.cap ** r.cap /\ Abs(x) \preceq One
           /\ x # Zero => inner[i] # Zero
           /\ i > 1 /\ Len(returns) >= r.minObservations /\ r.floor = Zero =>
                Abs(x) ** Variance(returns, b) \preceq r.targetVol ** r.targetVol
<1> DEFINE cap == r.cap ** r.cap
           target == r.targetVol ** r.targetVol
           v == Variance(returns, b)
           scale == ScaleSquared(r, b, i)
           y == inner[i] ** scale
           measured == i > 1 /\ Len(returns) >= r.minObservations /\ r.floor = Zero
<1>1. cap \in AtLeastZero /\ target \in AtLeastZero /\ cap \preceq One
    BY SizesAre
<1>2. x = Clamped(cap, y)
    <2>1. DOMAIN b = 1 .. Len(b)
        BY DEF InOrder
    <2> QED BY <2>1 DEF Scaled, Clamped
<1>3. /\ scale \in AtLeastZero
      /\ measured => scale \preceq cap /\ v \in AtLeastZero /\ scale ** v \preceq target
    BY ScaleIs
<1> HIDE DEF cap, target, v, scale
<1>4. /\ y \in Rational /\ Abs(y) \preceq scale /\ Zero -- scale \preceq y /\ y \preceq scale
      /\ inner[i] = Zero => y = Zero
    BY <1>3, SizedSide
<1> HIDE DEF y
<1>5. cap \in Rational /\ Zero \preceq cap /\ scale \in Rational /\ Zero -- cap \in Rational
      /\ Zero -- scale \in Rational /\ Zero \preceq scale /\ target \in Rational
    BY <1>1, <1>3, Constants, Difference DEF AtLeastZero
<1>6. x \in Rational /\ Abs(x) \preceq cap /\ (Zero -- cap \preceq y /\ y \preceq cap => x = y)
    BY <1>1, <1>2, <1>4, ClampIs
<1>7. Abs(x) \preceq One
    <2>1. Abs(x) \in Rational
        BY <1>6, Distance
    <2> QED BY <1>1, <1>5, <1>6, <2>1, Constants, OrderedSteps
<1>8. ASSUME inner[i] = Zero PROVE x = Zero
    <2>1. Zero -- cap \preceq Zero -- Zero /\ Zero -- Zero = Zero
        BY <1>5, Constants, TurnedRound, NoDifference
    <2> QED BY <1>4, <1>5, <1>6, <1>8, <2>1
<1>9. ASSUME measured PROVE Abs(x) ** v \preceq target
    <2>1. scale \preceq cap /\ v \in Rational /\ Zero \preceq v /\ scale ** v \preceq target
        BY <1>3, <1>9 DEF AtLeastZero
    <2>2. Zero -- cap \preceq Zero -- scale
        BY <1>5, <2>1, TurnedRound
    <2>3. Zero -- cap \preceq y /\ y \preceq cap
        BY <1>4, <1>5, <2>1, <2>2, OrderedSteps
    <2>4. x = y
        BY <1>6, <2>3
    <2>5. Abs(x) \in Rational /\ Abs(x) \preceq scale
        BY <1>4, <1>6, <2>4, Distance
    <2>6. Abs(x) ** v \preceq scale ** v
        BY <1>5, <2>1, <2>5, ProductOrder
    <2>7. Abs(x) ** v \in Rational /\ scale ** v \in Rational
        BY <1>5, <2>1, <2>5, ProductType
    <2> QED BY <1>5, <2>1, <2>6, <2>7, OrderedSteps
<1> QED BY <1>6, <1>7, <1>8, <1>9 DEF cap, target, v

-----------------------------------------------------------------------------
(* The registry *)

LEMMA PlainWants ==
    ASSUME NEW b \in InOrder, NEW p \in PlainRule, PlainOK(p)
    PROVE  Wants(Plain(p, b), b, PlainWarmup(p))
<1>1. None \notin Rational
    BY SeriesAssumption
<1>2. CASE p.kind = "tsmom"
    <2>1. TsmomOK(p) /\ Plain(p, b) = Tsmom(p, b) /\ PlainWarmup(p) = p.lookback
        BY <1>2 DEF PlainOK, Plain, PlainWarmup
    <2> QED BY <1>2, <2>1, TsmomWants
<1>3. CASE p.kind = "tsmom-blend"
    <2>1. /\ BlendOK(p) /\ Plain(p, b) = Blend(p, b)
          /\ PlainWarmup(p) = Lookbacks(p)[p.horizons]
        BY <1>3 DEF PlainOK, Plain, PlainWarmup
    <2> QED BY <1>3, <2>1, BlendWants
<1>4. CASE p.kind = "sma"
    <2>1. SmaOK(p) /\ Plain(p, b) = SmaTrend(p, b) /\ PlainWarmup(p) = p.window
        BY <1>4 DEF PlainOK, Plain, PlainWarmup
    <2> QED BY <1>4, <2>1, SmaTrendWants
<1>5. CASE p.kind = "sma-ls"
    <2>1. /\ p.window >= 2 /\ Plain(p, b) = SmaTrendLongShort(p, b)
          /\ PlainWarmup(p) = p.window
        BY <1>5 DEF PlainOK, Plain, PlainWarmup
    <2> QED BY <1>5, <2>1, SmaLongShortWants
<1>6. CASE p.kind = "sma-rev"
    <2>1. ReversionOK(p) /\ Plain(p, b) = SmaReversion(p, b) /\ PlainWarmup(p) = p.window
        BY <1>6 DEF PlainOK, Plain, PlainWarmup
    <2> QED BY <1>6, <2>1, SmaReversionWants
<1>7. CASE p.kind = "macd"
    <2>1. /\ MacdOK(p) /\ Plain(p, b) = MacdTrend(p, b)
          /\ PlainWarmup(p) = p.slow + p.signal - 1
        BY <1>7 DEF PlainOK, Plain, PlainWarmup
    <2> QED BY <1>1, <1>7, <2>1, MacdWants
<1>8. CASE p.kind = "breakout"
    <2>1. DonchianOK(p) /\ Plain(p, b) = Donchian(p, b) /\ PlainWarmup(p) = Channel(p)
        BY <1>8 DEF PlainOK, Plain, PlainWarmup, Channel
    <2> QED BY <1>8, <2>1, BreakoutWants
<1>9. CASE p.kind = "rsi-rev"
    <2>1. RsiOK(p) /\ Plain(p, b) = RsiReversion(p, b) /\ PlainWarmup(p) = p.window + 1
        BY <1>9 DEF PlainOK, Plain, PlainWarmup
    <2> QED BY <1>9, <2>1, OscillatorWants
<1>10. p.kind \in {"tsmom", "tsmom-blend", "sma", "sma-ls", "sma-rev", "macd", "breakout",
                   "rsi-rev"}
    BY DEF PlainRule
<1> QED BY <1>2, <1>3, <1>4, <1>5, <1>6, <1>7, <1>8, <1>9, <1>10

PlainKinds == {"tsmom", "tsmom-blend", "sma", "sma-ls", "sma-rev", "macd", "breakout",
               "rsi-rev"}

LEMMA KindsAre ==
    /\ \A r \in PlainRule : r.kind \in PlainKinds
    /\ \A r \in FilteredRule : r.kind = "volfilter" /\ r.inner \in PlainRule
    /\ \A r \in SizedRule : r.kind = "voltarget" /\ r.inner \in PlainRule \cup FilteredRule
BY DEF PlainRule, FilteredRule, SizedRule, PlainKinds

\* A filter takes exposures away and adds none.
LEMMA WrappedWants ==
    ASSUME NEW b \in InOrder, NEW r \in PlainRule \cup FilteredRule, WrappedOK(r),
           NEW p, p = IF r.kind = "volfilter" THEN r.inner ELSE r
    PROVE  Wants(Wrapped(r, Plain(p, b), b), b, PlainWarmup(p))
<1>1. CASE r \in PlainRule
    <2>1. r.kind # "volfilter"
        BY <1>1, KindsAre DEF PlainKinds
    <2>2. p = r /\ PlainOK(p) /\ Wrapped(r, Plain(p, b), b) = Plain(p, b)
        BY <2>1 DEF WrappedOK, Wrapped
    <2> QED BY <1>1, <2>2, PlainWants
<1>2. CASE r \in FilteredRule
    <2>1. r.kind = "volfilter" /\ r.inner \in PlainRule
        BY <1>2, KindsAre
    <2>2. p \in PlainRule /\ PlainOK(p)
        BY <2>1 DEF WrappedOK
    <2> DEFINE inner == Plain(p, b)
    <2>3. Wrapped(r, inner, b) = [i \in DOMAIN b |-> IF Calm(r, b, i) THEN inner[i] ELSE Zero]
        BY <2>1 DEF Wrapped, VolFiltered
    <2>4. Wants(inner, b, PlainWarmup(p))
        BY <2>2, PlainWants
    <2>5. DOMAIN b = 1 .. Len(b)
        BY DEF InOrder
    <2> HIDE DEF inner
    <2>6. Wants(Wrapped(r, inner, b), b, PlainWarmup(p))
        BY <2>3, <2>4, <2>5 DEF Wants, Side
    <2> QED BY <2>6 DEF inner
<1> QED BY <1>1, <1>2

-----------------------------------------------------------------------------
(* Rules keep their word *)

\* What the archive was read for, on what is in it.
RulesInvariant ==
    /\ SeriesInvariant /\ older \in 0 .. MaxOlder
    /\ job \in Rules => \/ bars = << >>
                        \/ T = Targets(job, bars)

LEMMA RulesStart == Init => RulesInvariant
BY SeriesStarts, SeriesAssumption DEF Init, RulesInvariant

LEMMA RulesStep == RulesInvariant /\ [Next]_vars => RulesInvariant'
<1> SUFFICES ASSUME RulesInvariant, [Next]_vars PROVE RulesInvariant'
    OBVIOUS
<1>1. SeriesInvariant'
    BY SeriesSteps DEF RulesInvariant
<1>2. CASE UNCHANGED vars
    BY <1>1, <1>2 DEF vars, RulesInvariant
<1>3. CASE Next
    <2>1. PICK candle \in Candles(job), gap \in Gaps : Rerun(candle, gap)
        BY <1>3 DEF Next
    <2>2. older' \in 0 .. MaxOlder
        BY <2>1, SeriesAssumption DEF Rerun, Collect, CollectSecond, Backfill, RulesInvariant
    <2>3. job' = job /\ Reread
        BY <2>1 DEF Rerun
    <2>4. job \in Rules => T' = Targets(job, bars')
        BY <2>3 DEF Reread, Pool
    <2> QED BY <1>1, <2>2, <2>3, <2>4 DEF RulesInvariant
<1> QED BY <1>2, <1>3

\* The exposures of every rule are within one on either side, and none before
\* its warm-up is over.
LEMMA ExposuresAre ==
    ASSUME bars \in InOrder, job \in Rules, T = Targets(job, bars)
    PROVE  \A i \in 1 .. Len(bars) :
              Abs(T[i]) \preceq One /\ (T[i] # Zero => i >= Warmup(job))
<1> DEFINE n == Len(bars)
           r == Under(job)
           p == Innermost(job)
           inner == Wrapped(r, Plain(p, bars), bars)
<1>1. job \in Rule /\ StrategyOK(job)
    BY RulesAreAccepted
<1>2. T = Outermost(job, inner, bars) /\ Warmup(job) = PlainWarmup(p)
      /\ p = IF r.kind = "volfilter" THEN r.inner ELSE r
    BY DEF Targets, Warmup, Innermost
<1>3. r \in PlainRule \cup FilteredRule /\ WrappedOK(r)
      /\ (job.kind # "voltarget" => T = inner)
      /\ (job.kind = "voltarget" => job \in SizedRule /\ ScaledOK(job) /\ T = Scaled(job, inner, bars))
    <2>1. CASE job \in SizedRule
        <3>1. job.kind = "voltarget" /\ job.inner \in PlainRule \cup FilteredRule
            BY <2>1, KindsAre
        <3>2. r = job.inner /\ ScaledOK(job) /\ WrappedOK(job.inner)
            BY <1>1, <3>1 DEF Under, StrategyOK
        <3>3. T = Scaled(job, inner, bars)
            BY <1>2, <3>1 DEF Outermost
        <3> QED BY <2>1, <3>1, <3>2, <3>3
    <2>2. CASE job \in PlainRule \cup FilteredRule
        <3>1. job.kind # "voltarget"
            BY <2>2, KindsAre DEF PlainKinds
        <3>2. r = job /\ WrappedOK(job)
            BY <1>1, <3>1 DEF Under, StrategyOK
        <3>3. T = inner
            BY <1>2, <3>1 DEF Outermost
        <3> QED BY <2>2, <3>1, <3>2, <3>3
    <2> QED BY <1>1, <2>1, <2>2 DEF Rule
<1> HIDE DEF r, p
<1>4. Wants(inner, bars, PlainWarmup(p))
    BY <1>2, <1>3, WrappedWants
<1> HIDE DEF inner
<1>5. inner \in [1 .. n -> Side]
      /\ \A i \in 1 .. n : inner[i] # Zero => i >= Warmup(job)
    BY <1>2, <1>4 DEF Wants
<1>6. CASE job.kind # "voltarget"
    <2>1. \A x \in Side : Abs(x) \preceq One
        <3>1. One \in AtLeastZero
            BY WholeAboveZero DEF One
        <3>2. ASSUME NEW x \in Side PROVE Abs(x) \preceq One
            <4>1. x ** One \in Rational /\ Abs(x ** One) \preceq One
                BY <3>1, SizedSide
            <4>2. x \in Rational
                BY Constants, Difference DEF Side, Short
            <4> QED BY <4>1, <4>2, Neutral
        <3> QED BY <3>2
    <2> QED BY <1>3, <1>5, <1>6, <2>1
<1>7. CASE job.kind = "voltarget"
    <2>1. ASSUME NEW i \in 1 .. n
          PROVE  Abs(T[i]) \preceq One /\ (T[i] # Zero => inner[i] # Zero)
        BY <1>3, <1>5, <1>7, ScaledIs
    <2> QED BY <1>5, <2>1
<1> QED BY <1>6, <1>7

\* A rule that wraps none is read as it is.
LEMMA PlainIs ==
    ASSUME NEW b, NEW r \in Rule, StrategyOK(r), r.kind \in PlainKinds
    PROVE  r \in PlainRule /\ PlainOK(r) /\ Targets(r, b) = Plain(r, b)
<1>1. r.kind # "voltarget" /\ r.kind # "volfilter"
    BY DEF PlainKinds
<1>2. r \in PlainRule
    BY <1>1, KindsAre DEF Rule
<1>3. PlainOK(r)
    BY <1>1 DEF StrategyOK, WrappedOK
<1>4. Under(r) = r /\ Innermost(r) = r
    BY <1>1 DEF Under, Innermost
<1>5. Targets(r, b) = Plain(r, b)
    BY <1>1, <1>4 DEF Targets, Outermost, Wrapped
<1> QED BY <1>2, <1>3, <1>5

LEMMA GridRule ==
    ASSUME bars \in InOrder, NEW scores, DOMAIN scores = 1 .. Len(bars),
           job.rebalance \in Nat \ {0}, NEW short \in BOOLEAN,
           T = OnDecisionGrid(scores, bars, job.rebalance, short), Connected,
           NEW i \in 2 .. Len(bars), T[i] # T[i - 1]
    PROVE  bars[i].time \div Period > bars[i - 1].time \div Period
<1>1. GridRead(T, scores, bars, short, job.rebalance * BarStep(bars))
    BY GridIs, Zenon
<1>2. GridRead(T, scores, bars, short, Period)
    BY <1>1 DEF Period
<1> QED BY <1>2 DEF GridRead, Connected

\* The grid is kept by each rule that has one.
LEMMA GridIsKept ==
    ASSUME bars \in InOrder, job \in Rules, T = Targets(job, bars)
    PROVE  RereadOnGrid
<1> SUFFICES ASSUME OnGrid, Connected, NEW i \in 2 .. Len(bars), T[i] # T[i - 1]
             PROVE  bars[i].time \div Period > bars[i - 1].time \div Period
    BY Zenon DEF RereadOnGrid
<1>1. job.kind \in {"tsmom", "tsmom-blend", "sma"} /\ job.rebalance > 1
    BY DEF OnGrid, Kind, Reads
<1>2. job \in PlainRule /\ PlainOK(job) /\ T = Plain(job, bars)
    BY <1>1, RulesAreAccepted, PlainIs DEF PlainKinds
<1>3. DOMAIN bars = 1 .. Len(bars)
    BY DEF InOrder
<1>4. CASE job.kind = "tsmom"
    <2> DEFINE scores == TsmomScores(job, bars)
               short == job.mode = "long-short"
    <2>1. TsmomOK(job) /\ T = OnDecisionGrid(scores, bars, job.rebalance, short)
        BY <1>2, <1>4 DEF PlainOK, Plain, Tsmom
    <2>2. DOMAIN scores = 1 .. Len(bars)
        BY <1>3 DEF TsmomScores
    <2>3. job.rebalance \in Nat \ {0} /\ short \in BOOLEAN
        BY <1>2, <1>4, <2>1 DEF PlainRule, TsmomOK
    <2> HIDE DEF scores, short
    <2> QED BY <2>1, <2>2, <2>3, GridRule
<1>5. CASE job.kind = "tsmom-blend"
    <2> DEFINE scores == BlendScores(job, bars)
               short == FALSE
    <2>1. BlendOK(job) /\ T = OnDecisionGrid(scores, bars, job.rebalance, short)
        BY <1>2, <1>5 DEF PlainOK, Plain, Blend
    <2>2. DOMAIN scores = 1 .. Len(bars)
        BY <1>3 DEF BlendScores
    <2>3. job.rebalance \in Nat \ {0} /\ short \in BOOLEAN
        BY <1>2, <1>5, <2>1 DEF PlainRule, BlendOK
    <2> HIDE DEF scores, short
    <2> QED BY <2>1, <2>2, <2>3, GridRule
<1>6. CASE job.kind = "sma"
    <2> DEFINE scores == SmaScores(job, bars)
               short == FALSE
    <2>1. SmaOK(job) /\ T = SmaTrend(job, bars)
        BY <1>2, <1>6 DEF PlainOK, Plain
    <2>2. job.rebalance \in Nat \ {0} /\ job.window \in Nat \ {0} /\ short \in BOOLEAN
        BY <1>2, <1>6, <2>1 DEF PlainRule, SmaOK
    <2>3. T = OnDecisionGrid(scores, bars, job.rebalance, short)
        BY <1>1, <1>2, <1>6, <2>1, SmaTrendWants
    <2>4. DOMAIN scores = 1 .. Len(bars)
        BY <2>2, SmaScoresAre
    <2> HIDE DEF scores, short
    <2> QED BY <2>2, <2>3, <2>4, GridRule
<1> QED BY <1>1, <1>4, <1>5, <1>6

LEMMA LegsAreKept ==
    ASSUME bars \in InOrder, job \in Rules, T = Targets(job, bars)
    PROVE  TimeStopHolds /\ MinHoldKept
<1>1. job \in Rule /\ StrategyOK(job) /\ Kind = job.kind
    BY RulesAreAccepted DEF Kind, Reads
<1>2. \A i : Leg(i) = StretchOf(T, i)
    BY DEF Leg, StretchOf
<1>3. DOMAIN bars = 1 .. Len(bars)
    BY DEF InOrder
<1>4. ASSUME job.kind = "rsi-rev", NEW i \in 1 .. Len(bars), T[i] # Zero
      PROVE  Length(Leg(i), i) <= job.maxHold
    <2>1. job \in PlainRule /\ PlainOK(job) /\ T = Plain(job, bars)
        BY <1>1, <1>4, PlainIs DEF PlainKinds
    <2>2. RsiOK(job) /\ T = RsiReversion(job, bars)
        BY <1>4, <2>1 DEF PlainOK, Plain
    <2>3. \A k \in 1 .. Len(bars) : T[k] # Zero => Length(StretchOf(T, k), k) <= job.maxHold
        BY <1>4, <2>1, <2>2, OscillatorWants
    <2> QED BY <1>2, <1>4, <2>3
<1>5. ASSUME job.kind = "breakout", NEW i \in 2 .. Len(bars), T[i] = Zero, T[i - 1] # Zero
      PROVE  Length(Leg(i - 1), i - 1) >= job.minHold
    <2>1. job \in PlainRule /\ PlainOK(job) /\ T = Plain(job, bars)
        BY <1>1, <1>5, PlainIs DEF PlainKinds
    <2>2. DonchianOK(job) /\ T = Donchian(job, bars)
        BY <1>5, <2>1 DEF PlainOK, Plain
    <2>3. \A k \in 2 .. Len(bars) : T[k] = Zero /\ T[k - 1] # Zero =>
             Length(StretchOf(T, k - 1), k - 1) >= job.minHold
        BY <1>5, <2>1, <2>2, BreakoutWants
    <2> QED BY <1>2, <1>5, <2>3
<1> QED BY <1>1, <1>3, <1>4, <1>5 DEF TimeStopHolds, MinHoldKept

LEMMA MajorityIsKept ==
    ASSUME bars \in InOrder, job \in Rules, T = Targets(job, bars)
    PROVE  MajorityDecides
<1> SUFFICES ASSUME Kind = "tsmom-blend", NEW i \in 2 .. Len(bars), T[i] # T[i - 1]
             PROVE  T[i] = One <=> Cardinality(Moving(i, TRUE)) > Cardinality(Moving(i, FALSE))
    BY Zenon DEF MajorityDecides
<1>1. job.kind = "tsmom-blend"
    BY DEF Kind, Reads
<1>2. job \in PlainRule /\ PlainOK(job) /\ T = Plain(job, bars)
    BY <1>1, RulesAreAccepted, PlainIs DEF PlainKinds
<1>3. BlendOK(job) /\ T = Blend(job, bars)
    BY <1>1, <1>2 DEF PlainOK, Plain
<1> QED BY <1>1, <1>2, <1>3, MajorityIs, Zenon

LEMMA BudgetIsKept ==
    ASSUME bars \in InOrder, job \in Rules, T = Targets(job, bars)
    PROVE  BudgetKept
<1> SUFFICES ASSUME Kind = "voltarget", NEW i \in DOMAIN bars
             PROVE  LET returns == VolWindow(job, bars, i) IN
                    /\ Abs(T[i]) \preceq (job.cap ** job.cap)
                    /\ i > 1 /\ Len(returns) >= job.minObservations /\ job.floor = Zero =>
                         (Abs(T[i]) ** Variance(returns, bars))
                             \preceq (job.targetVol ** job.targetVol)
    BY Zenon DEF BudgetKept
<1> DEFINE returns == VolWindow(job, bars, i)
           r == Under(job)
           p == Innermost(job)
           inner == Wrapped(r, Plain(p, bars), bars)
<1>1. job.kind = "voltarget" /\ job \in Rule /\ StrategyOK(job)
    BY RulesAreAccepted DEF Kind, Reads
<1>2. job \in SizedRule /\ ScaledOK(job) /\ r = job.inner /\ WrappedOK(r)
      /\ r \in PlainRule \cup FilteredRule
    BY <1>1, KindsAre DEF Rule, PlainKinds, Under, StrategyOK
<1>3. p = (IF r.kind = "volfilter" THEN r.inner ELSE r) /\ T = Scaled(job, inner, bars)
    BY <1>1 DEF Innermost, Targets, Outermost
<1>4. i \in 1 .. Len(bars)
    BY DEF InOrder
<1> HIDE DEF r, p
<1>5. inner \in [1 .. Len(bars) -> Side]
    BY <1>2, <1>3, WrappedWants DEF Wants
<1> HIDE DEF inner, returns
<1>6. /\ Abs(T[i]) \preceq (job.cap ** job.cap)
      /\ i > 1 /\ Len(returns) >= job.minObservations /\ job.floor = Zero =>
           (Abs(T[i]) ** Variance(returns, bars)) \preceq (job.targetVol ** job.targetVol)
    BY <1>2, <1>3, <1>4, <1>5, ScaledIs DEF returns
<1> QED BY <1>6 DEF returns

LEMMA WordsAreKept == RulesInvariant => RulesKeepTheirWord
<1> SUFFICES ASSUME RulesInvariant PROVE RulesKeepTheirWord
    OBVIOUS
<1>1. bars \in InOrder /\ DOMAIN bars = 1 .. Len(bars) /\ Len(bars) \in Nat
    BY DEF RulesInvariant, SeriesInvariant, InOrder
<1>2. job \in Rules \cup Plans \cup Baskets /\ older \in 0 .. MaxOlder
      /\ \A i \in 1 .. Len(bars) - 1 : bars[i].time < bars[i + 1].time
    BY DEF RulesInvariant, SeriesInvariant, Jobs
<1>3. CASE job \notin Rules
    <2>1. ~Reads /\ Kind = "none"
        BY <1>3 DEF Reads, Kind
    <2> QED BY <1>2, <2>1 DEF RulesKeepTheirWord, TypeOK, WarmupIsFlat, RereadOnGrid, OnGrid,
               MajorityDecides, TimeStopHolds, MinHoldKept, BudgetKept
<1>4. CASE job \in Rules /\ bars = << >>
    <2>1. DOMAIN bars = {} /\ 2 .. Len(bars) = {}
        BY <1>1, <1>4
    <2> QED BY <1>2, <2>1 DEF RulesKeepTheirWord, TypeOK, WarmupIsFlat, RereadOnGrid,
               MajorityDecides, TimeStopHolds, MinHoldKept, BudgetKept
<1>5. CASE job \in Rules /\ T = Targets(job, bars)
    <2>1. \A i \in 1 .. Len(bars) : Abs(T[i]) \preceq One /\ (T[i] # Zero => i >= Warmup(job))
        BY <1>1, <1>5, ExposuresAre
    <2>2. TypeOK /\ WarmupIsFlat
        BY <1>1, <1>2, <2>1 DEF TypeOK, WarmupIsFlat
    <2> QED BY <1>1, <1>5, <2>2, GridIsKept, LegsAreKept, MajorityIsKept, BudgetIsKept
            DEF RulesKeepTheirWord
<1> QED BY <1>3, <1>4, <1>5 DEF RulesInvariant

\* Every rule, with whatever parameters its constructor accepts, on whatever
\* series is collected and backfilled: no exposure is larger than one or taken
\* before the warm-up is over, a decision grid is only left when its period has
\* passed, a blend follows the majority of its horizons, a reversion is over
\* after max_hold bars, a breakout is not left for cash before min_hold, and
\* volatility targeting keeps inside its cap and, once it has measured, its budget.
THEOREM RulesAlwaysKeepTheirWord == Spec => []RulesKeepTheirWord
<1>1. Init => RulesInvariant
    BY RulesStart
<1>2. RulesInvariant /\ [Next]_vars => RulesInvariant'
    BY RulesStep
<1>3. RulesInvariant => RulesKeepTheirWord
    BY WordsAreKept
<1> QED BY <1>1, <1>2, <1>3, PTL DEF Spec

=============================================================================
