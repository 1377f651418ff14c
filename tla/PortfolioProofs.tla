---------------------------- MODULE PortfolioProofs ----------------------------
(***************************************************************************)
(* Theorems about Portfolio, for any finite set of symbols, any prices,    *)
(* rules and cost rate: the loop of weights and growth is an account of    *)
(* units and cash, what it holds is sound, its trade log gives its book.   *)
(***************************************************************************)
EXTENDS Portfolio, RatioProofs

Row == [Symbols -> Prices \cup {None}]
Numbers == [Symbols -> Rational]

Types ==
    /\ rule \in Rules
    /\ prints \in Seq(Row) /\ Len(prints) <= rule.bars
    /\ phase \in {"bars", "earn", "trade"}
    /\ book \in [weights : Numbers, value : Rational, fees : Rational, dropped : Nat,
                 alive : BOOLEAN]
    /\ scaled \in [unscaled : Numbers, returns : Seq(Rational), scale : Rational]
    /\ chosen \in Seq([longs : SUBSET Symbols, shorts : SUBSET Symbols])
    /\ ledger \in [units : Numbers, cash : Rational, traded : Rational, mark : Numbers,
                   passive : Numbers]

-----------------------------------------------------------------------------
(* The helpers of the model *)

LEMMA TotalIs ==
    ASSUME NEW f
    PROVE  Total(f) = SumOver(f)
BY DEF Total, FoldFunction, FoldFunctionOnSet, SumOver

\* A sum over the symbols, and what its terms say of it.
LEMMA Totals ==
    ASSUME NEW f \in Numbers
    PROVE  /\ Total(f) \in Rational
           /\ (\A s \in Symbols : Zero \preceq f[s]) => Zero \preceq Total(f)
<1>1. f \in [Symbols -> Rational] /\ IsFiniteSet(Symbols) /\ Total(f) = SumOver(f)
    BY PortfolioAssumption, TotalIs DEF Numbers
<1>2. SumOver(f) \in Rational
    BY <1>1, TotalType
<1>3. (\A s \in Symbols : Zero \preceq f[s]) => Zero \preceq SumOver(f)
    BY <1>1, TotalSign
<1> QED BY <1>1, <1>2, <1>3

LEMMA TotalsAdd ==
    ASSUME NEW f \in Numbers, NEW g \in Numbers, NEW h \in Numbers,
           \A s \in Symbols : h[s] = f[s] ++ g[s]
    PROVE  Total(h) = Total(f) ++ Total(g)
<1>1. /\ IsFiniteSet(Symbols) /\ f \in [Symbols -> Rational]
      /\ g \in [Symbols -> Rational] /\ h \in [Symbols -> Rational]
    BY PortfolioAssumption DEF Numbers
<1>2. SumOver(h) = SumOver(f) ++ SumOver(g)
    BY <1>1, TotalAdds
<1> QED BY <1>2, TotalIs

LEMMA TotalsScale ==
    ASSUME NEW f \in Numbers, NEW c \in Rational, NEW h \in Numbers,
           \A s \in Symbols : h[s] = c ** f[s]
    PROVE  Total(h) = c ** Total(f)
<1>1. /\ IsFiniteSet(Symbols) /\ f \in [Symbols -> Rational]
      /\ h \in [Symbols -> Rational]
    BY PortfolioAssumption DEF Numbers
<1>2. SumOver(h) = c ** SumOver(f)
    BY <1>1, TotalScales
<1> QED BY <1>2, TotalIs

LEMMA TotalsOrder ==
    ASSUME NEW f \in Numbers, NEW g \in Numbers, \A s \in Symbols : f[s] \preceq g[s]
    PROVE  Total(f) \preceq Total(g)
<1>1. /\ IsFiniteSet(Symbols) /\ f \in [Symbols -> Rational]
      /\ g \in [Symbols -> Rational]
    BY PortfolioAssumption DEF Numbers
<1>2. SumOver(f) \preceq SumOver(g)
    BY <1>1, TotalOrder
<1> QED BY <1>2, TotalIs

\* A nonempty bounded set of naturals has a greatest member.
LEMMA GreatestNumber ==
    ASSUME NEW b \in Int, NEW S \in SUBSET (1 .. b), S # {}
    PROVE  Newest(S) \in S /\ \A k \in S : k <= Newest(S)
<1> DEFINE D == {b - k : k \in S}
<1>1. D \in SUBSET Nat /\ D # {}
    <2>1. ASSUME NEW k \in S PROVE b - k \in Nat
        <3>1. k \in 1 .. b
            OBVIOUS
        <3> QED BY <3>1
    <2> QED BY <2>1
<1>2. \E m \in D : \A d \in D : m <= d
    <2> HIDE DEF D
    <2> QED BY <1>1, LeastNumber
<1>3. PICK k \in S : \A j \in S : b - k <= b - j
    BY <1>2
<1>4. \A j \in S : j <= k
    BY <1>3
<1>5. \E c \in S : \A d \in S : d <= c
    BY <1>4
<1> QED BY <1>5 DEF Newest

\* What a symbol last printed, if it printed lately.
LEMMA CloseType ==
    ASSUME Types, NEW s \in Symbols, NEW b \in Int, b <= Len(prints)
    PROVE  /\ CloseAt(s, b) \in (Nat \ {0}) \cup {None}
           /\ CloseAt(s, b) # None => b >= 1 /\ Fresh(s, b)
<1> DEFINE cs == IF b < 1 THEN {} ELSE Printed(s, b)
           newest == Newest(cs)
<1>1. CloseAt(s, b) = IF cs = {} \/ b - newest > rule.maxAge THEN None ELSE prints[newest][s]
    BY DEF CloseAt
<1>2. cs \in SUBSET (1 .. b) /\ cs \subseteq Printed(s, b)
    BY DEF Printed
<1>3. CASE cs = {}
    BY <1>1, <1>3
<1>4. CASE cs # {}
    <2>1. newest \in cs
        <3> HIDE DEF cs
        <3> QED BY <1>2, <1>4, GreatestNumber
    <2>2. b >= 1 /\ newest \in 1 .. b /\ prints[newest][s] # None
        BY <1>4, <2>1 DEF Printed
    <2>3. prints[newest] \in Row
        BY <2>2 DEF Types
    <2>4. prints[newest][s] \in Nat \ {0}
        BY <2>2, <2>3, PortfolioAssumption DEF Row
    <2>5. newest \in Printed(s, b)
        BY <1>2, <2>1
    <2>6. rule.maxAge \in Nat
        BY PortfolioAssumption DEF Types, IsRule
    <2> HIDE DEF newest, cs
    <2>7. CloseAt(s, b) # None => b - newest <= rule.maxAge
        BY <1>1, <2>2, <2>6
    <2> QED BY <1>1, <2>2, <2>4, <2>5, <2>7 DEF Fresh
<1> QED BY <1>3, <1>4

\* What is printed later does not change it.
LEMMA CloseStays ==
    ASSUME Types, UNCHANGED rule, prints' = prints \/ \E p : prints' = Append(prints, p),
           NEW b \in Int, b <= Len(prints), NEW s \in Symbols
    PROVE  CloseAt(s, b)' = CloseAt(s, b)
<1>1. ASSUME NEW c \in 1 .. b PROVE prints'[c] = prints[c]
    <2>1. prints \in Seq(Row) /\ c \in 1 .. Len(prints)
        BY DEF Types
    <2>2. ASSUME NEW p, prints' = Append(prints, p) PROVE prints'[c] = prints[c]
        BY <2>1, <2>2
    <2> QED BY <2>2
<1>2. Printed(s, b)' = Printed(s, b)
    BY <1>1 DEF Printed
<1>3. CASE b < 1 \/ Printed(s, b) = {}
    BY <1>2, <1>3 DEF CloseAt
<1>4. CASE ~(b < 1 \/ Printed(s, b) = {})
    <2>1. Printed(s, b) \in SUBSET (1 .. b)
        BY DEF Printed
    <2>2. Newest(Printed(s, b)) \in 1 .. b
        BY <1>4, <2>1, GreatestNumber
    <2> QED BY <1>1, <1>2, <1>4, <2>2 DEF CloseAt
<1> QED BY <1>3, <1>4

\* Fractions of a price between two bars.
LEMMA RatiosType ==
    ASSUME Types, NEW from \in Int, NEW b \in Int, from <= Len(prints), b <= Len(prints)
    PROVE  Ratios(from, b) \in Numbers /\ \A s \in Symbols : Positive(Ratios(from, b)[s])
<1>1. ASSUME NEW s \in Symbols
      PROVE  Ratios(from, b)[s] \in Rational /\ Positive(Ratios(from, b)[s])
    <2>1. /\ CloseAt(s, from) \in (Nat \ {0}) \cup {None}
          /\ CloseAt(s, b) \in (Nat \ {0}) \cup {None}
        BY CloseType
    <2>2. Ratios(from, b)[s] = IF CloseAt(s, from) = None \/ CloseAt(s, b) = None THEN One
                               ELSE Q(CloseAt(s, b), CloseAt(s, from))
        BY DEF Ratios
    <2>3. One \in Rational /\ Positive(One)
        BY Constants DEF Positive
    <2> QED BY <2>1, <2>2, <2>3, CloseIsPositive
<1>2. Ratios(from, b) = [s \in Symbols |-> Ratios(from, b)[s]]
    BY DEF Ratios
<1> HIDE DEF Ratios
<1> QED BY <1>1, <1>2, Zenon DEF Numbers

\* The growth of a period: what the cash share keeps, and what the parts became.
LEMMA GrowthIs ==
    ASSUME NEW w \in Numbers, NEW r \in Numbers
    PROVE  /\ Growth(w, r) \in Rational
           /\ Total([s \in Symbols |-> w[s] ** r[s]]) \in Rational
           /\ Growth(w, r) = (One -- Total(w)) ++ Total([s \in Symbols |-> w[s] ** r[s]])
<1> DEFINE gain == [s \in Symbols |-> w[s] ** (r[s] -- One)]
           grown == [s \in Symbols |-> w[s] ** r[s]]
<1>1. ASSUME NEW s \in Symbols
      PROVE  /\ w[s] \in Rational /\ gain[s] \in Rational /\ grown[s] \in Rational
             /\ grown[s] = gain[s] ++ w[s]
    <2>1. w[s] \in Rational /\ r[s] \in Rational
        BY DEF Numbers
    <2> QED BY <2>1, TermType
<1>2. gain \in Numbers /\ grown \in Numbers
    BY <1>1 DEF Numbers
<1>3. Growth(w, r) = One ++ Total(gain)
    BY DEF Growth
<1> HIDE DEF gain, grown
<1>4. Total(grown) = Total(gain) ++ Total(w)
    BY <1>1, <1>2, TotalsAdd
<1>5. Total(grown) \in Rational /\ Total(gain) \in Rational /\ Total(w) \in Rational
    BY <1>2, Totals
<1>6. One -- Total(w) \in Rational /\ (One -- Total(w)) ++ Total(w) = One
    BY <1>5, Difference, Constants
<1>7. One ++ Total(gain) = (One -- Total(w)) ++ (Total(gain) ++ Total(w))
    <2> DEFINE d == One -- Total(w)
               g == Total(gain)
               t == Total(w)
    <2>1. d \in Rational /\ g \in Rational /\ t \in Rational /\ d ++ t = One
        BY <1>5, <1>6
    <2> HIDE DEF d, g, t
    <2>2. (d ++ t) ++ g = d ++ (t ++ g)
        BY <2>1, SumAssociates
    <2>3. t ++ g = g ++ t
        BY <2>1, SumCommutes
    <2> QED BY <2>1, <2>2, <2>3 DEF d, g, t
<1>8. Growth(w, r) \in Rational
    BY <1>3, <1>5, SumType, Constants
<1> QED BY <1>3, <1>4, <1>5, <1>7, <1>8 DEF grown

-----------------------------------------------------------------------------
(* Choosing *)

LEMMA RuleIs == Types => IsRule(rule)
BY PortfolioAssumption DEF Types

\* A candidate has a close at the date and a lookback before it.
LEMMA CandidateIs ==
    ASSUME Types, NEW b \in Int, b <= Len(prints), NEW s \in Candidates(b)
    PROVE  /\ s \in Symbols /\ s \in Nat /\ Momentum(s, b) \in Rational
           /\ CloseAt(s, b) # None /\ CloseAt(s, b - rule.lookback) # None
           /\ Fresh(s, b) /\ Fresh(s, b - rule.lookback)
<1>1. s \in Symbols /\ s \in Nat /\ Momentum(s, b) # None
    BY PortfolioAssumption DEF Candidates
<1>2. b - rule.lookback \in Int /\ b - rule.lookback <= Len(prints)
    <2>1. rule.lookback \in Nat /\ Len(prints) \in Nat
        BY RuleIs DEF IsRule, Types
    <2> QED BY <2>1
<1> DEFINE value == CloseAt(s, b)
           past == CloseAt(s, b - rule.lookback)
<1>3. value # None /\ past # None /\ Momentum(s, b) = Q(value, past) -- One
    BY <1>1 DEF Momentum
<1>4. /\ value \in Nat \ {0} /\ past \in Nat \ {0}
      /\ Fresh(s, b) /\ Fresh(s, b - rule.lookback)
    BY <1>1, <1>2, <1>3, CloseType
<1>5. Q(value, past) \in Rational
    <2> HIDE DEF value, past
    <2> QED BY <1>4, CloseIsPositive
<1>6. Momentum(s, b) \in Rational
    <2> HIDE DEF value, past
    <2> QED BY <1>3, <1>5, Difference, Constants
<1> QED BY <1>1, <1>3, <1>4, <1>6

\* The ranking is an order: who is behind a symbol is behind those ahead of it.
LEMMA Ranking ==
    ASSUME Types, NEW b \in Int, b <= Len(prints),
           NEW s \in Candidates(b), NEW t \in Candidates(b), NEW u \in Candidates(b)
    PROVE  /\ Stronger(s, t, b) /\ Stronger(t, u, b) => Stronger(s, u, b)
           /\ ~Stronger(s, s, b)
           /\ ~Stronger(t, s, b) => Momentum(t, b) \preceq Momentum(s, b)
<1> DEFINE ms == Momentum(s, b)
           mt == Momentum(t, b)
           mu == Momentum(u, b)
<1>1. /\ ms \in Rational /\ mt \in Rational /\ mu \in Rational
      /\ s \in Nat /\ t \in Nat /\ u \in Nat
    BY CandidateIs
<1>2. /\ Stronger(s, t, b) <=> (mt \prec ms \/ (ms = mt /\ s < t))
      /\ Stronger(t, u, b) <=> (mu \prec mt \/ (mt = mu /\ t < u))
      /\ Stronger(s, u, b) <=> (mu \prec ms \/ (ms = mu /\ s < u))
      /\ Stronger(s, s, b) <=> (ms \prec ms \/ (ms = ms /\ s < s))
      /\ Stronger(t, s, b) <=> (ms \prec mt \/ (mt = ms /\ t < s))
    BY DEF Stronger
<1> HIDE DEF ms, mt, mu
<1>3. mt \prec ms /\ mu \prec mt => mu \prec ms
    BY <1>1, Ordered, OrderedSteps
<1>4. ~(ms \prec ms) /\ (~(ms \prec mt) => mt \preceq ms)
    BY <1>1, Ordered
<1>5. ~(s < s) /\ (s < t /\ t < u => s < u)
    BY <1>1
<1>6. Stronger(s, t, b) /\ Stronger(t, u, b) => Stronger(s, u, b)
    BY <1>2, <1>3, <1>5
<1> QED BY <1>2, <1>4, <1>5, <1>6 DEF ms, mt

\* A threshold's mirror lies below it.
LEMMA Mirror ==
    ASSUME NEW a \in Rational
    PROVE  Zero -- Abs(a) \in Rational /\ Zero -- Abs(a) \preceq a
<1>1. Abs(a) \in Rational /\ Zero -- Abs(a) \in Rational
      /\ (Zero -- Abs(a)) ++ Abs(a) = Zero
    BY Distance, Difference, Constants
<1>2. CASE a[1] < 0
    <2>1. a = <<a[1], a[2]>> /\ a[1] \in Int /\ a[2] \in Int
        BY Terms
    <2>2. Abs(a) = <<-a[1], a[2]>>
        BY <1>2 DEF Abs
    <2>3. <<-(-a[1]), a[2]>> = a
        BY <2>1
    <2>4. Zero -- Abs(a) = Zero ++ a
        BY <2>2, <2>3 DEF --
    <2> QED BY <1>1, <2>4, Neutral, Ordered
<1>3. CASE ~(a[1] < 0)
    <2>1. Abs(a) = a /\ a[1] \in Int /\ Zero \preceq a
        BY <1>3, Signs DEF Abs
    <2>2. Zero -- Abs(a) \preceq Zero
        BY <1>1, <2>1, SumOrder, Neutral, Constants
    <2> QED BY <1>1, <2>1, <2>2, OrderedSteps, Constants
<1> QED BY <1>2, <1>3

LEMMA SliceSizeType ==
    ASSUME Types, NEW n \in Nat
    PROVE  SliceSize(n) \in Int
<1>1. rule.top \in Rational /\ R(n) ** rule.top \in Rational
    <2>1. rule.top \in Rational
        BY RuleIs DEF IsRule
    <2>2. R(n) \in Rational
        BY WholeIsRational
    <2> QED BY <2>1, <2>2, ProductType
<1>2. ASSUME NEW a \in Rational PROVE a[1] \div a[2] \in Int
    BY Terms, Division
<1>3. ASSUME NEW a \in Rational PROVE Rounded(a) \in Int
    <2> DEFINE down == a[1] \div a[2]
    <2>1. down \in Int
        BY <1>2
    <2>2. Rounded(a) = down + 1 \/ Rounded(a) = down
        BY DEF Rounded
    <2> HIDE DEF down
    <2> QED BY <2>1, <2>2
<1> DEFINE r == Rounded(R(n) ** rule.top)
           k == rule.top[1] \div rule.top[2]
<1>4. r \in Int /\ k \in Int
    BY <1>1, <1>2, <1>3
<1>5. SliceSize(n) \in {1, r, k, n}
    BY DEF SliceSize
<1> HIDE DEF r, k
<1> QED BY <1>4, <1>5

\* The slice is an upper part of the ranking.
LEMMA SliceIsStrongest ==
    ASSUME Types, NEW b \in Int, b <= Len(prints),
           NEW l \in Slice(b), NEW s \in Candidates(b), s \notin Slice(b)
    PROVE  Momentum(s, b) \preceq Momentum(l, b)
<1> DEFINE Ahead(x) == {t \in Candidates(b) : Stronger(t, x, b)}
           size == SliceSize(Cardinality(Candidates(b)))
<1>1. l \in Candidates(b) /\ Cardinality(Ahead(l)) < size /\ ~(Cardinality(Ahead(s)) < size)
    BY DEF Slice
<1>2. IsFiniteSet(Ahead(l)) /\ IsFiniteSet(Ahead(s))
    <2>1. Ahead(l) \in SUBSET Symbols /\ Ahead(s) \in SUBSET Symbols
        BY DEF Candidates
    <2> HIDE DEF Ahead
    <2> QED BY <2>1, FS_Subset, PortfolioAssumption
<1>3. SUFFICES ASSUME Stronger(s, l, b) PROVE FALSE
    BY <1>1, Ranking
<1>4. Ahead(s) \in SUBSET Ahead(l)
    BY <1>1, <1>3, Ranking
<1>5. Cardinality(Ahead(s)) <= Cardinality(Ahead(l)) /\ Cardinality(Ahead(l)) \in Nat
      /\ Cardinality(Ahead(s)) \in Nat
    <2> HIDE DEF Ahead
    <2> QED BY <1>2, <1>4, FS_Subset, FS_CardinalityType
<1>6. size \in Int
    <2>1. Candidates(b) \in SUBSET Symbols
        BY DEF Candidates
    <2>2. Cardinality(Candidates(b)) \in Nat
        BY <2>1, FS_Subset, FS_CardinalityType, PortfolioAssumption
    <2> QED BY <2>2, SliceSizeType
<1> HIDE DEF Ahead, size
<1> QED BY <1>1, <1>5, <1>6

\* What is selected: candidates, none twice, the longs the stronger.
LEMMA SelectIs ==
    ASSUME Types, NEW b \in Int, b <= Len(prints)
    PROVE  /\ Select(b) \in [longs : SUBSET Symbols, shorts : SUBSET Symbols]
           /\ Select(b).longs \cup Select(b).shorts \subseteq Candidates(b)
           /\ Select(b).longs \cap Select(b).shorts = {}
           /\ \A l \in Select(b).longs, s \in Select(b).shorts :
                  Momentum(s, b) \preceq Momentum(l, b)
<1>0. Candidates(b) \in SUBSET Symbols
    BY DEF Candidates
<1>1. CASE rule.select = "sign"
    <2> DEFINE ms == [s \in Candidates(b) |-> Momentum(s, b)]
               drop == Zero -- Abs(rule.threshold)
               longs == {s \in Candidates(b) : rule.threshold \prec Momentum(s, b)}
               shorts == {s \in Candidates(b) : rule.mode = "long-short"
                                                 /\ Momentum(s, b) \prec drop}
    <2>1. Select(b) = [longs |-> longs, shorts |-> shorts]
        BY <1>1 DEF Select
    <2>2. rule.threshold \in Rational /\ drop \in Rational /\ drop \preceq rule.threshold
        BY RuleIs, Mirror DEF IsRule
    <2>3. ASSUME NEW l \in longs, NEW s \in shorts
          PROVE  Momentum(s, b) \preceq Momentum(l, b) /\ l # s
        <3> DEFINE m == Momentum(s, b)
                   n == Momentum(l, b)
                   th == rule.threshold
        <3>1. m \in Rational /\ n \in Rational /\ m \prec drop /\ th \prec n
            BY CandidateIs
        <3>2. th \in Rational /\ drop \in Rational /\ drop \preceq th
            BY <2>2
        <3> HIDE DEF m, n, th, drop
        <3>3. m \preceq drop /\ th \preceq n /\ ~(n \preceq th)
            BY <3>1, <3>2, Ordered
        <3>4. m \preceq th
            BY <3>1, <3>2, <3>3, OrderedSteps
        <3>5. m \preceq n
            BY <3>1, <3>2, <3>3, <3>4, OrderedSteps
        <3>6. m # n
            BY <3>3, <3>4
        <3> QED BY <3>5, <3>6 DEF m, n
    <2>4. longs \subseteq Candidates(b) /\ shorts \subseteq Candidates(b)
        OBVIOUS
    <2> HIDE DEF longs, shorts
    <2> QED BY <1>0, <2>1, <2>3, <2>4
<1>2. CASE rule.select # "sign"
    <2>1. /\ Select(b).longs = Slice(b)
          /\ Select(b).shorts \subseteq Weakest(b) \ Slice(b)
          /\ Select(b) = [longs |-> Select(b).longs, shorts |-> Select(b).shorts]
        BY <1>2 DEF Select
    <2>2. Slice(b) \subseteq Candidates(b) /\ Weakest(b) \subseteq Candidates(b)
        BY DEF Slice, Weakest
    <2> QED BY <1>0, <2>1, <2>2, SliceIsStrongest
<1> QED BY <1>1, <1>2

-----------------------------------------------------------------------------
(* Sizing *)

LEMMA WeightType ==
    ASSUME NEW a \in Rational, NEW b \in Rational
    PROVE  /\ Abs(a ** b) \in Rational /\ Zero \preceq Abs(a)
           /\ Zero \preceq b => Abs(a ** b) = b ** Abs(a)
<1>1. a ** b \in Rational /\ b \in Rational /\ Abs(a) \in Rational /\ Abs(a ** b) \in Rational
    BY ProductType, Distance
<1>2. Zero \preceq Abs(a)
    BY <1>1, Distance, Signs
<1>3. ASSUME Zero \preceq b PROVE Abs(a ** b) = b ** Abs(a)
    <2>1. /\ a[1] \in Int /\ a[2] \in Whole /\ b[1] \in Int /\ b[2] \in Whole /\ b[1] >= 0
          /\ a = <<a[1], a[2]>> /\ b = <<b[1], b[2]>>
        BY <1>3, Terms, Signs
    <2> DEFINE p == a[1]
               q == a[2]
               u == b[1]
               v == b[2]
    <2>2. /\ p \in Int /\ q \in Whole /\ u \in Int /\ v \in Whole /\ u >= 0
          /\ q \in Int /\ q > 0 /\ v \in Int /\ v > 0
          /\ a ** b = Lowest(p * u, q * v) /\ q * v \in Whole
        <3>1. a ** b = Lowest(p * u, q * v)
            BY ProductType
        <3>2. q * v \in Whole
            BY <2>1, WholeProduct
        <3> QED BY <2>1, <3>1, <3>2 DEF Whole
    <2>3. Abs(a) = <<IF p < 0 THEN -p ELSE p, q>>
        BY <2>1 DEF Abs
    <2> HIDE DEF p, q, u, v
    <2>4. b ** Abs(a) = Lowest(u * (IF p < 0 THEN -p ELSE p), v * q)
        <3>1. (IF p < 0 THEN -p ELSE p) \in Int
            BY <2>2
        <3> QED BY <2>1, <2>2, <2>3, <3>1, ProductOfTerms DEF u, v
    <2>5. v * q = q * v
        BY <2>2
    <2>6. CASE p < 0 /\ u > 0
        <3>1. p * u < 0 /\ p * u \in Int /\ u * (-p) = -(p * u)
            BY <2>2, <2>6
        <3>2. Abs(Lowest(p * u, q * v)) = Lowest(-(p * u), q * v)
            BY <2>2, <3>1, AbsOfLowest
        <3> QED BY <2>2, <2>4, <2>5, <2>6, <3>1, <3>2
    <2>7. CASE ~(p < 0 /\ u > 0)
        <3>1. ~(p * u < 0) /\ p * u \in Int /\ p * u = u * (IF p < 0 THEN -p ELSE p)
            BY <2>2, <2>7
        <3>2. Abs(Lowest(p * u, q * v)) = Lowest(p * u, q * v)
            BY <2>2, <3>1, LowestSign DEF Abs
        <3> QED BY <2>2, <2>4, <2>5, <3>1, <3>2
    <2> QED BY <2>6, <2>7
<1> QED BY <1>1, <1>2, <1>3

\* A part of the account for each of some names.
LEMMA PartIs ==
    ASSUME NEW side \in Rational, Zero \preceq side, NEW names \in SUBSET Symbols, names # {}
    PROVE  LET part == side // R(Cardinality(names))
           IN  /\ part \in Rational /\ Zero \preceq part
               /\ part ** R(Cardinality(names)) = side
<1> DEFINE n == Cardinality(names)
           part == side // R(n)
<1>1. n \in Nat /\ n # 0
    <2>1. IsFiniteSet(names)
        BY PortfolioAssumption, FS_Subset
    <2> QED BY <2>1, FS_CardinalityType, FS_EmptySet
<1> HIDE DEF n
<1>2. R(n) \in Rational /\ R(n) # Zero /\ Positive(R(n))
    <2>1. n \in Nat \ {0}
        BY <1>1
    <2> QED BY <2>1, CloseIsPositive
<1>3. part \in Rational /\ part ** R(n) = side
    BY <1>2, Quotient
<1> HIDE DEF part
<1>4. Zero \preceq part
    <2>1. /\ part[1] \in Int /\ side[1] \in Int /\ side[1] >= 0
          /\ (part ** R(n))[1] < 0 <=> part[1] < 0
        BY <1>2, <1>3, ProductSign, Signs
    <2> QED BY <1>3, <2>1, Signs
<1> QED BY <1>3, <1>4 DEF part, n

\* The longs hold a part each and the shorts owe one, together no more than all.
LEMMA UnscaledIs ==
    ASSUME NEW pick \in [longs : SUBSET Symbols, shorts : SUBSET Symbols],
           pick.longs \cap pick.shorts = {}
    PROVE  /\ Unscaled(pick) \in Numbers
           /\ [s \in Symbols |-> Abs(Unscaled(pick)[s])] \in Numbers
           /\ Total([s \in Symbols |-> Abs(Unscaled(pick)[s])]) \preceq One
           /\ \A s \in Symbols : s \notin pick.longs \cup pick.shorts =>
                                     Unscaled(pick)[s] = Zero
           /\ pick.shorts = {} => \A s \in Symbols : Zero \preceq Unscaled(pick)[s]
<1> DEFINE L == pick.longs
           S == pick.shorts
           side == IF S # {} THEN <<1, 2>> ELSE One
           l == IF L = {} THEN Zero ELSE side // R(Cardinality(L))
           o == IF S = {} THEN Zero ELSE side // R(Cardinality(S))
           held == [s \in Symbols |-> IF s \in L THEN l ELSE Zero]
           owed == [s \in Symbols |-> IF s \in S THEN o ELSE Zero]
           u == Unscaled(pick)
           size == [s \in Symbols |-> Abs(u[s])]
<1>1. L \in SUBSET Symbols /\ S \in SUBSET Symbols /\ L \cap S = {}
    OBVIOUS
<1>2. side \in Rational /\ Zero \preceq side /\ side \preceq One /\ Zero \preceq One
      /\ (S # {} => side ++ side = One) /\ (S = {} => side = One)
    BY HalfIs, Constants, Ordered, Signs
<1>3. u = [s \in Symbols |-> held[s] -- owed[s]]
    <2>1. \A s \in Symbols :
            (IF s \in L THEN side // R(Cardinality(L)) ELSE Zero) = held[s]
            /\ (IF s \in S THEN side // R(Cardinality(S)) ELSE Zero) = owed[s]
        OBVIOUS
    <2>2. u = [s \in Symbols |->
                (IF s \in L THEN side // R(Cardinality(L)) ELSE Zero)
                  -- (IF s \in S THEN side // R(Cardinality(S)) ELSE Zero)]
        BY DEF Unscaled
    <2> HIDE DEF held, owed, u, side, L, S
    <2> QED BY <2>1, <2>2
<1> HIDE DEF L, S, side, u
<1>4. l \in Rational /\ Zero \preceq l /\ (L # {} => l ** R(Cardinality(L)) = side)
    BY <1>1, <1>2, PartIs, Constants, Ordered
<1>5. o \in Rational /\ Zero \preceq o /\ (S # {} => o ** R(Cardinality(S)) = side)
    BY <1>1, <1>2, PartIs, Constants, Ordered
<1> HIDE DEF l, o
<1>6. held \in Numbers /\ owed \in Numbers
    BY <1>4, <1>5, Constants DEF Numbers
<1>7. ASSUME NEW s \in Symbols
      PROVE  /\ u[s] \in Rational /\ size[s] \in Rational /\ size[s] = held[s] ++ owed[s]
             /\ s \notin L \cup S => u[s] = Zero
             /\ s \notin S => Zero \preceq u[s]
    <2>1. u[s] = held[s] -- owed[s] /\ size[s] = Abs(u[s])
        BY <1>3
    <2>2. CASE s \in S
        <3>1. held[s] = Zero /\ owed[s] = o
            BY <1>1, <2>2
        <3> QED BY <1>5, <2>1, <2>2, <3>1, SizeOf, Neutral
    <2>3. CASE s \notin S
        <3>1. owed[s] = Zero /\ held[s] \in {l, Zero} /\ (s \notin L => held[s] = Zero)
            BY <2>3
        <3>2. held[s] \in Rational /\ Zero \preceq held[s]
            <4>1. Zero \in Rational /\ Zero \preceq Zero
                BY Constants, Ordered
            <4> QED BY <1>4, <3>1, <4>1
        <3>3. u[s] = held[s]
            BY <2>1, <3>1, <3>2, NoDifference
        <3>4. Abs(held[s]) = held[s] /\ held[s] ++ Zero = held[s]
            BY <3>2, SizeOf, Neutral
        <3> QED BY <2>1, <2>3, <3>1, <3>2, <3>3, <3>4
    <2> QED BY <2>2, <2>3
<1>8. size \in Numbers /\ u \in Numbers
    <2>1. u = [s \in Symbols |-> u[s]]
        BY <1>3
    <2> QED BY <1>7, <2>1 DEF Numbers
<1>9. Total(size) = Total(held) ++ Total(owed)
    <2> HIDE DEF size, held, owed
    <2> QED BY <1>6, <1>7, <1>8, TotalsAdd
<1>10. Total(held) = l ** R(Cardinality(L)) /\ Total(owed) = o ** R(Cardinality(S))
    <2>1. /\ held \in [Symbols -> Rational] /\ owed \in [Symbols -> Rational]
          /\ \A s \in Symbols : held[s] = IF s \in L THEN l ELSE Zero
          /\ \A s \in Symbols : owed[s] = IF s \in S THEN o ELSE Zero
        BY <1>6 DEF Numbers
    <2>2. IsFiniteSet(Symbols)
        BY PortfolioAssumption
    <2> HIDE DEF held, owed
    <2>3. SumOver(held) = l ** R(Cardinality(L))
        BY <1>1, <1>4, <2>1, <2>2, TotalOfPart
    <2>4. SumOver(owed) = o ** R(Cardinality(S))
        BY <1>1, <1>5, <2>1, <2>2, TotalOfPart
    <2> QED BY <2>3, <2>4, TotalIs
<1>11. (L = {} => Total(held) = Zero) /\ (L # {} => Total(held) = side)
    <2>1. L = {} => l = Zero /\ Cardinality(L) = 0
        BY FS_EmptySet DEF l
    <2>2. Zero ** R(0) = Zero
        BY Constants, Neutral DEF Zero
    <2> QED BY <1>4, <1>10, <2>1, <2>2
<1>12. (S = {} => Total(owed) = Zero) /\ (S # {} => Total(owed) = side)
    <2>1. S = {} => o = Zero /\ Cardinality(S) = 0
        BY FS_EmptySet DEF o
    <2>2. Zero ** R(0) = Zero
        BY Constants, Neutral DEF Zero
    <2> QED BY <1>5, <1>10, <2>1, <2>2
<1>13. Total(size) \preceq One
    <2>1. Total(size) \in {Zero, side, One}
        <3>1. Zero ++ Zero = Zero /\ side ++ Zero = side /\ Zero ++ side = side
            BY <1>2, Neutral, Constants
        <3> QED BY <1>2, <1>9, <1>11, <1>12, <3>1
    <2> QED BY <1>2, <2>1, Constants, Ordered
<1> QED BY <1>7, <1>8, <1>13 DEF u, L, S

\* The multiplier stays between nothing and the cap.
LEMMA ScaleIs ==
    ASSUME Types, NEW returns \in Seq(Rational)
    PROVE  /\ Scale(returns) \in Rational /\ Zero \preceq Scale(returns)
           /\ Scale(returns) \preceq One
           /\ Scale(returns) \preceq (IF rule.vol = None \/ Len(returns) < 2 THEN One
                                      ELSE rule.vol.cap)
<1>1. CASE rule.vol = None \/ Len(returns) < 2
    <2>1. Scale(returns) = One
        BY <1>1 DEF Scale
    <2>2. Zero \preceq One /\ One \preceq One
        BY Constants, Ordered, Signs
    <2> QED BY <1>1, <2>1, <2>2, Constants
<1>2. CASE ~(rule.vol = None \/ Len(returns) < 2)
    <2> DEFINE gap == Abs(returns[Len(returns)] -- returns[Len(returns) - 1])
               sigma == gap // R(2)
               v == rule.vol
               x == v.target // sigma
    <2>1. Scale(returns) = IF sigma = Zero THEN v.cap
                           ELSE Greatest(v.floor, Least(v.cap, x))
        BY <1>2 DEF Scale
    <2>2. /\ v.target \in Rational /\ v.cap \in Rational /\ v.floor \in Rational
          /\ Positive(v.target) /\ Zero \preceq v.floor /\ v.floor \preceq v.cap
          /\ v.cap \preceq One
        BY <1>2, RuleIs DEF IsRule, IsVol
    <2>3. gap \in Rational
        <3>1. returns[Len(returns)] \in Rational /\ returns[Len(returns) - 1] \in Rational
            BY <1>2
        <3> QED BY <3>1, Difference, Distance
    <2>4. R(2) \in Rational /\ R(2) # Zero
        <3>1. 2 \in Nat \ {0}
            OBVIOUS
        <3> QED BY <3>1, CloseIsPositive
    <2> HIDE DEF gap
    <2>5. sigma \in Rational
        BY <2>3, <2>4, Quotient
    <2> HIDE DEF sigma, v
    <2>6. sigma # Zero => x \in Rational
        BY <2>2, <2>5, Quotient
    <2> HIDE DEF x
    <2>7. Scale(returns) \in Rational /\ Zero \preceq Scale(returns)
          /\ Scale(returns) \preceq v.cap
        <3>1. CASE sigma = Zero
            BY <2>1, <2>2, <3>1, OrderedSteps, Ordered, Constants
        <3>2. CASE sigma # Zero
            <4> DEFINE y == Least(v.cap, x)
                       z == Greatest(v.floor, y)
            <4>1. y \in Rational /\ y \preceq v.cap
                BY <2>2, <2>6, <3>2, LeastBounds
            <4> HIDE DEF y
            <4>2. z \in Rational /\ z \in {v.floor, y} /\ v.floor \preceq z
                BY <2>2, <4>1, LeastBounds
            <4>3. z = Scale(returns)
                BY <2>1, <3>2 DEF y
            <4> HIDE DEF z
            <4>4. Zero \preceq z /\ z \preceq v.cap
                BY <2>2, <4>1, <4>2, OrderedSteps, Constants
            <4> QED BY <4>2, <4>3, <4>4
        <3> QED BY <3>1, <3>2
    <2>8. Scale(returns) \preceq One
        BY <2>2, <2>7, OrderedSteps, Constants
    <2> QED BY <1>2, <2>7, <2>8 DEF v
<1> QED BY <1>1, <1>2

\* The book bought: no larger than its multiplier, without shorts not negative.
LEMMA SizedIs ==
    ASSUME NEW pick \in [longs : SUBSET Symbols, shorts : SUBSET Symbols],
           pick.longs \cap pick.shorts = {},
           NEW scale \in Rational, Zero \preceq scale
    PROVE  LET w == Sized(Unscaled(pick), scale)
               size == [s \in Symbols |-> Abs(w[s])]
           IN  /\ w \in Numbers /\ size \in Numbers
               /\ Total(size) \preceq scale
               /\ \A s \in Symbols : w[s] # Zero => s \in pick.longs \cup pick.shorts
               /\ pick.shorts = {} => \A s \in Symbols : Zero \preceq w[s]
<1> DEFINE u == Unscaled(pick)
           usize == [s \in Symbols |-> Abs(u[s])]
           w == Sized(u, scale)
           size == [s \in Symbols |-> Abs(w[s])]
<1>1. /\ u \in Numbers /\ usize \in Numbers /\ Total(usize) \preceq One
      /\ \A s \in Symbols : s \notin pick.longs \cup pick.shorts => u[s] = Zero
      /\ pick.shorts = {} => \A s \in Symbols : Zero \preceq u[s]
    BY UnscaledIs
<1>2. \A s \in Symbols : w[s] = u[s] ** scale /\ usize[s] = Abs(u[s]) /\ size[s] = Abs(w[s])
    BY DEF Sized
<1>3. /\ w = [s \in Symbols |-> w[s]] /\ size = [s \in Symbols |-> size[s]]
    BY DEF Sized
<1> HIDE DEF u, w, usize, size
<1>4. ASSUME NEW s \in Symbols
      PROVE  /\ w[s] \in Rational /\ size[s] \in Rational
             /\ size[s] = scale ** usize[s]
             /\ u[s] = Zero => w[s] = Zero
             /\ Zero \preceq u[s] => Zero \preceq w[s]
    <2>1. u[s] \in Rational
        BY <1>1 DEF Numbers
    <2>2. w[s] \in Rational /\ size[s] \in Rational /\ size[s] = scale ** usize[s]
        <3>1. /\ w[s] = u[s] ** scale /\ usize[s] = Abs(u[s]) /\ size[s] = Abs(u[s] ** scale)
            BY <1>2
        <3>2. u[s] ** scale \in Rational
            BY <2>1, ProductType
        <3>3. Abs(u[s] ** scale) \in Rational /\ Abs(u[s] ** scale) = scale ** Abs(u[s])
            BY <2>1, WeightType
        <3> QED BY <3>1, <3>2, <3>3
    <2>3. u[s] = Zero => w[s] = Zero
        BY <1>2, Neutral
    <2>4. ASSUME Zero \preceq u[s] PROVE Zero \preceq w[s]
        <3>1. Zero ** scale \preceq u[s] ** scale
            BY <2>1, <2>4, ProductOrder, Constants
        <3> QED BY <1>2, <3>1, Neutral
    <2> QED BY <2>2, <2>3, <2>4
<1>5. w \in Numbers /\ size \in Numbers
    BY <1>3, <1>4 DEF Numbers
<1>6. Total(size) = scale ** Total(usize)
    BY <1>1, <1>4, <1>5, TotalsScale
<1>7. Total(size) \preceq scale
    <2>1. Total(usize) \in Rational
        BY <1>1, Totals
    <2>2. Total(usize) ** scale \preceq One ** scale
        BY <1>1, <2>1, ProductOrder, Constants
    <2> QED BY <1>6, <2>1, <2>2, ProductCommutes, Neutral
<1> QED BY <1>1, <1>4, <1>5, <1>7 DEF u, w, size

-----------------------------------------------------------------------------
(* The inductive invariant, by parts *)

At(s, k) == CloseAt(s, DateBar(k))

\* Where the calendar stands, and which periods have been earned.
Calendar ==
    /\ phase = "bars" => IF chosen = <<>> THEN prints = <<>>
                         ELSE DateBar(Len(chosen)) <= Len(prints)
                              /\ Len(prints) < DateBar(Len(chosen) + 1)
    /\ phase # "bars" => Len(prints) = DateBar(Len(chosen) + 1)
    /\ phase = "earn" => chosen # <<>>
    /\ Len(scaled.returns) = IF phase = "trade" \/ chosen = <<>> THEN Len(chosen)
                             ELSE Len(chosen) - 1
    /\ book.alive \/ phase = "trade"

\* Each position is worth its weight of the value, at the price it was sampled
\* at, and the cash is worth the rest; what was paid is the rate on what moved.
Balanced ==
    /\ Zero \preceq book.value
    /\ book.alive => \A s \in Symbols :
           ledger.units[s] ** ledger.mark[s] = book.weights[s] ** book.value
    /\ phase # "trade" =>
           /\ ledger.cash = book.value ** (One -- Total(book.weights))
           /\ \A s \in Symbols : ledger.units[s] # Zero =>
                  \E k \in 1 .. Len(chosen) :
                     /\ k = Len(chosen) /\ At(s, k) # None
                     /\ ledger.mark[s] = R(At(s, k))
    /\ phase = "trade" => book.value = Greatest(Worth, Zero)
    /\ FeesAreTraded

\* The dates up to m at which a symbol has a close, the latest of these closes,
\* and the share of the account bought at the first of them.
KnownAt(s, m) == {k \in 1 .. m : At(s, k) # None}
MarkOf(s, m) == IF KnownAt(s, m) = {} THEN Zero ELSE R(At(s, Newest(KnownAt(s, m))))
ShareOf(s, m) ==
    (IF KnownAt(s, m) = {} THEN One
     ELSE (MarkOf(s, m) // R(At(s, First(KnownAt(s, m))))) ** Power(One -- CostRate, 2))
       // R(Cardinality(Symbols))

\* How many dates the marks have seen.
Marked == IF phase = "trade" /\ chosen # <<>> THEN Len(chosen) + 1 ELSE Len(chosen)
BuyAndHold ==
    \E m \in Nat :
        /\ m = Marked
        /\ \A s \in Symbols :
               ledger.mark[s] = MarkOf(s, m) /\ ledger.passive[s] = ShareOf(s, m)

\* What is held was selected at the last date, and is sized for it.
WellChosen ==
    /\ Zero \preceq scaled.scale /\ scaled.scale \preceq One
    /\ \A c \in Range(chosen) : c.longs \cap c.shorts = {}
    /\ phase # "trade" /\ chosen # <<>> =>
           /\ book.weights = Sized(Unscaled(Last(chosen)), scaled.scale)
           /\ rule.vol # None /\ Len(scaled.returns) >= 2 =>
                  scaled.scale \preceq rule.vol.cap
    /\ Decided => \E b \in Nat : b = Len(prints) /\ Last(chosen) = Select(b)

\* Nothing dropped: every holding still had a close a period later.
Dropping ==
    /\ book.dropped <= Cardinality(Symbols) * Len(scaled.returns)
    /\ book.dropped = 0 =>
           \A j \in 1 .. Len(scaled.returns) :
               \A s \in chosen[j].longs \cup chosen[j].shorts : At(s, j + 1) # None

\* Without shorts the book owes nothing and is never ruined.
Unborrowed ==
    (\A c \in Range(chosen) : c.shorts = {}) =>
        /\ book.alive /\ Positive(book.value)
        /\ Total(book.weights) \preceq One
        /\ \A s \in Symbols : Zero \preceq book.weights[s]

-----------------------------------------------------------------------------
(* Types *)

\* What a bar adds.
LEMMA BarIs ==
    ASSUME Types, NEW p \in Row, Bar(p)
    PROVE  /\ Types' /\ Len(prints') = Len(prints) + 1
           /\ phase' = IF ~IsDate(Len(prints) + 1) THEN "bars"
                       ELSE IF chosen = <<>> THEN "trade" ELSE "earn"
<1>1. Len(prints) \in Nat /\ prints' = Append(prints, p) /\ Len(prints) + 1 <= rule.bars
    BY DEF Types, Bar
<1>2. prints' \in Seq(Row) /\ Len(prints') = Len(prints) + 1
    BY <1>1 DEF Types
<1>3. phase' = IF ~IsDate(Len(prints) + 1) THEN "bars"
               ELSE IF chosen = <<>> THEN "trade" ELSE "earn"
    BY DEF Bar
<1> QED BY <1>1, <1>2, <1>3 DEF Types, Bar

LEMMA GreatestType ==
    ASSUME NEW a \in Rational
    PROVE  After(a) \in Rational /\ Zero \preceq After(a)
           /\ (Zero \preceq a => After(a) = a) /\ (~Positive(a) => After(a) = Zero)
<1>1. Zero \in Rational
    BY Constants
<1>2. Greatest(a, Zero) \in {a, Zero} /\ a \preceq Greatest(a, Zero)
      /\ Zero \preceq Greatest(a, Zero)
    BY <1>1, LeastBounds
<1>3. ASSUME Zero \preceq a PROVE Greatest(a, Zero) = a
    BY <1>1, <1>2, <1>3, Ordered
<1>4. ASSUME ~Positive(a) PROVE Greatest(a, Zero) = Zero
    BY <1>1, <1>2, <1>4, Ordered, Signs DEF Greatest
<1> QED BY <1>1, <1>2, <1>3, <1>4 DEF After

\* Marks and shares are numbers.
LEMMA MarksType ==
    ASSUME Types, NEW b \in Int, b <= Len(prints)
    PROVE  Marks(b) \in Numbers
<1>1. ASSUME NEW s \in Symbols PROVE Marks(b)[s] \in Rational
    <2>1. CloseAt(s, b) \in (Nat \ {0}) \cup {None} /\ ledger.mark[s] \in Rational
        BY CloseType DEF Types, Numbers
    <2>2. Marks(b)[s] = IF CloseAt(s, b) = None THEN ledger.mark[s] ELSE R(CloseAt(s, b))
        BY DEF Marks
    <2> QED BY <2>1, <2>2, CloseIsPositive
<1>2. Marks(b) = [s \in Symbols |-> Marks(b)[s]]
    BY DEF Marks
<1> HIDE DEF Marks
<1> QED BY <1>1, <1>2, Zenon DEF Numbers

\* What two sides' commissions leave of a price.
LEMMA KeptIs ==
    Power(One -- CostRate, 2) \in Rational /\ Positive(Power(One -- CostRate, 2))
<1>1. CostRate \in Rational /\ CostRate \prec One
    BY PortfolioAssumption
<1>2. One -- CostRate \in Rational /\ (One -- CostRate) ++ CostRate = One
    BY <1>1, Difference, Constants
<1>3. Positive(One -- CostRate)
    <2> DEFINE d == One -- CostRate
    <2>1. d \in Rational /\ d ++ CostRate = One
        BY <1>2
    <2> HIDE DEF d
    <2>2. SUFFICES ASSUME d \preceq Zero PROVE FALSE
        BY <2>1, Signs DEF d
    <2>3. d ++ CostRate \preceq Zero ++ CostRate
        BY <1>1, <2>1, <2>2, SumOrder, Constants
    <2>4. One \preceq CostRate
        BY <1>1, <2>1, <2>3, Neutral
    <2> QED BY <1>1, <2>4, Ordered, Constants
<1> QED BY <1>2, <1>3, PowerIsPositive

LEMMA PassiveType ==
    ASSUME Types, NEW marks \in Numbers
    PROVE  Passive(marks) \in Numbers
<1>1. ASSUME NEW s \in Symbols PROVE Passive(marks)[s] \in Rational
    <2> DEFINE old == ledger.passive[s]
               mark == ledger.mark[s]
               kept == Power(One -- CostRate, 2)
    <2>1. old \in Rational /\ mark \in Rational /\ marks[s] \in Rational /\ kept \in Rational
        BY KeptIs DEF Types, Numbers
    <2>2. Passive(marks)[s] = IF marks[s] = Zero THEN old
                              ELSE IF mark = Zero THEN old ** kept
                              ELSE old ** (marks[s] // mark)
        BY DEF Passive
    <2> HIDE DEF old, mark, kept
    <2>3. old ** kept \in Rational
        BY <2>1, ProductType
    <2>4. mark # Zero => old ** (marks[s] // mark) \in Rational
        BY <2>1, ProductType, Quotient
    <2> QED BY <2>1, <2>2, <2>3, <2>4
<1>2. Passive(marks) = [s \in Symbols |-> Passive(marks)[s]]
    BY DEF Passive
<1> HIDE DEF Passive
<1> QED BY <1>1, <1>2, Zenon DEF Numbers

\* A book's two sides.
Pick == [longs : SUBSET Symbols, shorts : SUBSET Symbols]

LEMMA LastOf ==
    ASSUME NEW S, NEW q \in Seq(S), q # <<>>
    PROVE  /\ Last(q) \in S /\ Last(q) = q[Len(q)] /\ Len(q) \in Nat \ {0}
           /\ Last(q) \in Range(q)
<1>1. Len(q) \in Nat \ {0} /\ Len(q) \in DOMAIN q /\ q[Len(q)] \in S
    OBVIOUS
<1>2. Last(q) = q[Len(q)]
    BY DEF Last
<1>3. q[Len(q)] \in {q[i] : i \in DOMAIN q}
    BY <1>1
<1> QED BY <1>1, <1>2, <1>3 DEF Range

LEMMA LastPick ==
    ASSUME Types, chosen # <<>>
    PROVE  /\ Last(chosen) \in Pick /\ Last(chosen) = chosen[Len(chosen)]
           /\ Len(chosen) \in Nat \ {0} /\ Last(chosen) \in Range(chosen)
<1>1. chosen \in Seq(Pick)
    BY DEF Types, Pick
<1> QED BY <1>1, LastOf

\* Where a period starts and ends.
LEMMA PeriodIs ==
    ASSUME Types, Calendar, phase # "bars"
    PROVE  /\ Len(prints) \in Nat /\ Len(chosen) \in Nat /\ rule.every \in Nat \ {0}
           /\ Len(prints) = 1 + Len(chosen) * rule.every
           /\ Len(prints) - rule.every \in Int /\ Len(prints) - rule.every <= Len(prints)
           /\ Len(prints) = DateBar(Len(chosen) + 1)
           /\ Len(prints) - rule.every = DateBar(Len(chosen))
<1>1. Len(prints) \in Nat /\ Len(chosen) \in Nat /\ rule.every \in Nat \ {0}
    BY RuleIs DEF Types, IsRule
<1> DEFINE e == rule.every
           n == Len(chosen)
<1>2. Len(prints) = DateBar(n + 1)
    BY DEF Calendar
<1>3. DateBar(n + 1) = 1 + ((n + 1) - 1) * e /\ DateBar(n) = 1 + (n - 1) * e
    BY DEF DateBar
<1>4. e \in Nat /\ e > 0 /\ n \in Nat
    BY <1>1
<1> HIDE DEF e, n
<1>5. ((n + 1) - 1) * e = n * e /\ (n - 1) * e = n * e - e /\ n * e \in Nat
    BY <1>4
<1>6. /\ Len(prints) = 1 + n * e /\ DateBar(n) = 1 + (n * e - e)
      /\ Len(prints) - e \in Int /\ Len(prints) - e <= Len(prints)
      /\ Len(prints) - e = DateBar(n)
    BY <1>1, <1>2, <1>3, <1>4, <1>5
<1> QED BY <1>1, <1>2, <1>6 DEF e, n

\* The ratios and the growth of the period that ends on this date.
Moves == Ratios(Len(prints) - rule.every, Len(prints))
Grew == Growth(book.weights, Moves)

LEMMA DriftType ==
    ASSUME NEW g \in Rational, NEW r \in Numbers, book.weights \in Numbers
    PROVE  /\ Drifted(r, g) \in Numbers
           /\ ~Positive(g) => Drifted(r, g) = book.weights
           /\ Positive(g) => \A s \in Symbols : Drifted(r, g)[s] ** g = book.weights[s] ** r[s]
<1>1. CASE ~Positive(g)
    BY <1>1 DEF Drifted
<1>2. CASE Positive(g)
    <2> DEFINE d == Drifted(r, g)
    <2>1. d = [s \in Symbols |-> (book.weights[s] ** r[s]) // g]
        BY <1>2 DEF Drifted
    <2>2. ASSUME NEW s \in Symbols
          PROVE  d[s] \in Rational /\ d[s] ** g = book.weights[s] ** r[s]
        <3> DEFINE x == book.weights[s] ** r[s]
        <3>1. book.weights[s] \in Rational /\ r[s] \in Rational
            BY DEF Numbers
        <3>2. x \in Rational
            BY <3>1, ProductType
        <3>3. g # Zero
            BY <1>2, PositiveProduct
        <3>4. d[s] = x // g
            BY <2>1
        <3> HIDE DEF x, d
        <3>5. x // g \in Rational /\ (x // g) ** g = x
            BY <3>2, <3>3, Quotient
        <3> QED BY <3>4, <3>5 DEF x
    <2>3. d = [s \in Symbols |-> d[s]]
        BY <2>1
    <2> HIDE DEF d
    <2>4. d \in Numbers
        BY <2>2, <2>3, Zenon DEF Numbers
    <2> QED BY <1>2, <2>2, <2>4 DEF d
<1> QED BY <1>1, <1>2

\* What earning a period changes.
LEMMA EarnIs ==
    ASSUME Types, Calendar, Earn
    PROVE  /\ phase = "earn" /\ phase' = "trade" /\ UNCHANGED <<rule, prints, chosen>>
           /\ Moves \in Numbers /\ Grew \in Rational
           /\ book'.weights = Drifted(Moves, Grew)
           /\ book'.value = After(book.value ** Grew)
           /\ book'.fees = book.fees
           /\ book'.dropped = book.dropped
                + Cardinality({s \in Held : CloseAt(s, Len(prints)) = None})
           /\ book'.alive = Positive(book.value ** Grew)
           /\ scaled'.unscaled = scaled.unscaled /\ scaled'.scale = scaled.scale
           /\ \E x \in Rational : scaled'.returns = Append(scaled.returns, x)
           /\ ledger'.units = ledger.units /\ ledger'.cash = ledger.cash
           /\ ledger'.traded = ledger.traded
           /\ ledger'.mark = Marks(Len(prints))
           /\ ledger'.passive = Passive(Marks(Len(prints)))
           /\ Types'
<1>1. phase = "earn" /\ phase' = "trade" /\ UNCHANGED <<rule, prints, chosen>>
    BY DEF Earn
<1> DEFINE b == Len(prints)
           r == Moves
           g == Grew
           after == book.value ** g
           gone == {s \in Held : CloseAt(s, b) = None}
           x == Growth(scaled.unscaled, r) -- One
           marks == Marks(b)
           w == Drifted(r, g)
           v == After(after)
           p == Passive(marks)
           up == Positive(after)
<1>2. Earned(b, r, g)
    BY DEF Earn, EarnedAt, Moves, Grew
<1>3. b \in Int /\ b - rule.every \in Int /\ b - rule.every <= b
    BY <1>1, PeriodIs
<1>4. r \in Numbers
    BY <1>3, RatiosType DEF Moves
<1>5. /\ book.weights \in Numbers /\ scaled.unscaled \in Numbers /\ book.value \in Rational
      /\ book.dropped \in Nat
    BY DEF Types
<1>6. g \in Rational /\ after \in Rational /\ v \in Rational
    <2>1. g \in Rational
        BY <1>4, <1>5, GrowthIs DEF Grew
    <2> QED BY <1>5, <2>1, ProductType, GreatestType
<1>7. w \in Numbers
    BY <1>4, <1>5, <1>6, DriftType
<1>8. x \in Rational
    <2>1. Growth(scaled.unscaled, r) \in Rational
        BY <1>4, <1>5, GrowthIs
    <2> QED BY <2>1, Difference, Constants
<1>9. marks \in Numbers /\ p \in Numbers
    BY <1>3, MarksType, PassiveType
<1>10. Cardinality(gone) \in Nat
    <2>1. gone \in SUBSET Symbols
        <3>1. Held \in SUBSET Symbols
            <4>1. ASSUME chosen # <<>>
                  PROVE  Last(chosen) \in [longs : SUBSET Symbols, shorts : SUBSET Symbols]
                BY <4>1, LastPick DEF Pick
            <4>2. CASE chosen = <<>>
                BY <4>2 DEF Held
            <4>3. CASE chosen # <<>>
                BY <4>1, <4>3 DEF Held
            <4> QED BY <4>2, <4>3
        <3> QED BY <3>1
    <2> HIDE DEF gone
    <2> QED BY <2>1, FS_Subset, FS_CardinalityType, PortfolioAssumption
<1>11. /\ book' = [book EXCEPT !.weights = w, !.value = v,
                    !.dropped = @ + Cardinality(gone), !.alive = up]
       /\ scaled' = [scaled EXCEPT !.returns = Append(@, x)]
       /\ ledger' = [ledger EXCEPT !.mark = marks, !.passive = p]
    BY <1>2 DEF Earned
<1>12. up \in BOOLEAN /\ Append(scaled.returns, x) \in Seq(Rational)
    BY <1>8 DEF Positive, Types
<1> HIDE DEF gone, x, marks, w, v, p, up, after, r, g
<1>13. book' \in [weights : Numbers, value : Rational, fees : Rational, dropped : Nat,
                 alive : BOOLEAN]
    <2> DEFINE Flags == BOOLEAN
               lost == book.dropped + Cardinality(gone)
    <2>1. /\ book \in [weights : Numbers, value : Rational, fees : Rational, dropped : Nat,
                       alive : Flags]
          /\ up \in Flags /\ lost \in Nat
          /\ book' = [book EXCEPT !.weights = w, !.value = v, !.dropped = lost, !.alive = up]
        BY <1>5, <1>10, <1>11, <1>12 DEF Types
    <2> HIDE DEF Flags, lost
    <2>2. book' \in [weights : Numbers, value : Rational, fees : Rational, dropped : Nat,
                     alive : Flags]
        BY <1>6, <1>7, <2>1
    <2> QED BY <2>2 DEF Flags
<1>14. scaled' \in [unscaled : Numbers, returns : Seq(Rational), scale : Rational]
    BY <1>11, <1>12 DEF Types
<1>15. ledger' \in [units : Numbers, cash : Rational, traded : Rational, mark : Numbers,
                   passive : Numbers]
    BY <1>9, <1>11 DEF Types
<1>16. Types'
    BY <1>1, <1>13, <1>14, <1>15 DEF Types
<1>17. /\ book'.weights = w /\ book'.value = v /\ book'.fees = book.fees
       /\ book'.dropped = book.dropped + Cardinality(gone)
       /\ book'.alive = up
    BY <1>11 DEF Types
<1>18. /\ scaled'.unscaled = scaled.unscaled /\ scaled'.scale = scaled.scale
       /\ scaled'.returns = Append(scaled.returns, x)
    BY <1>11 DEF Types
<1>19. /\ ledger'.units = ledger.units /\ ledger'.cash = ledger.cash
       /\ ledger'.traded = ledger.traded /\ ledger'.mark = marks /\ ledger'.passive = p
    BY <1>11 DEF Types
<1> QED BY <1>1, <1>4, <1>6, <1>8, <1>16, <1>17, <1>18, <1>19
        DEF gone, marks, w, v, p, up, after, r, g

\* What is chosen on this date, its weights, what they cost, today's prices.
Choice == Select(Len(prints))
Targets == Sized(Unscaled(Choice), Scale(scaled.returns))
Fee == (book.value ** Turnover(Targets)) ** CostRate
Today == Marks(Len(prints))

\* The target weights; a symbol with one has a price today.
LEMMA TargetsAre ==
    ASSUME Types
    PROVE  /\ Choice \in Pick /\ Choice.longs \cap Choice.shorts = {}
           /\ Unscaled(Choice) \in Numbers
           /\ Scale(scaled.returns) \in Rational
           /\ Zero \preceq Scale(scaled.returns) /\ Scale(scaled.returns) \preceq One
           /\ Targets \in Numbers /\ Today \in Numbers
           /\ \A s \in Symbols : Targets[s] # Zero =>
                  /\ CloseAt(s, Len(prints)) # None /\ Today[s] # Zero
                  /\ Today[s] = R(CloseAt(s, Len(prints)))
<1> DEFINE b == Len(prints)
           sc == Scale(scaled.returns)
<1>1. b \in Int /\ b <= b /\ scaled.returns \in Seq(Rational)
    BY DEF Types
<1>2. /\ Choice \in Pick /\ Choice.longs \cap Choice.shorts = {}
      /\ Choice.longs \cup Choice.shorts \subseteq Candidates(b)
    BY <1>1, SelectIs DEF Choice, Pick
<1>3. sc \in Rational /\ Zero \preceq sc /\ sc \preceq One
    BY <1>1, ScaleIs
<1>4. Unscaled(Choice) \in Numbers
    BY <1>2, UnscaledIs DEF Pick
<1>5. /\ Targets \in Numbers
      /\ \A s \in Symbols : Targets[s] # Zero => s \in Choice.longs \cup Choice.shorts
    <2> HIDE DEF sc
    <2>1. Choice \in [longs : SUBSET Symbols, shorts : SUBSET Symbols]
        BY <1>2 DEF Pick
    <2> QED BY <1>2, <1>3, <2>1, SizedIs DEF Targets, sc
<1>6. Today \in Numbers
    BY <1>1, MarksType DEF Today
<1>7. ASSUME NEW s \in Symbols, Targets[s] # Zero
      PROVE  CloseAt(s, b) # None /\ Today[s] # Zero /\ Today[s] = R(CloseAt(s, b))
    <2>1. s \in Candidates(b)
        BY <1>2, <1>5, <1>7
    <2>2. CloseAt(s, b) # None
        BY <1>1, <2>1, CandidateIs
    <2>3. CloseAt(s, b) \in Nat \ {0}
        BY <1>1, <2>2, CloseType
    <2>4. Today[s] = R(CloseAt(s, b))
        BY <2>2 DEF Today, Marks
    <2> QED BY <2>2, <2>3, <2>4, CloseIsPositive
<1> HIDE DEF b, sc
<1> QED BY <1>2, <1>3, <1>4, <1>5, <1>6, <1>7 DEF b, sc

\* What a trade moves: the distance of two lists of weights.
LEMMA TurnoverIs ==
    ASSUME NEW t \in Numbers, book.weights \in Numbers
    PROVE  /\ [s \in Symbols |-> Abs(t[s] -- book.weights[s])] \in Numbers
           /\ Turnover(t) = Total([s \in Symbols |-> Abs(t[s] -- book.weights[s])])
           /\ Turnover(t) \in Rational /\ Zero \preceq Turnover(t)
<1> DEFINE d == [s \in Symbols |-> Abs(t[s] -- book.weights[s])]
<1>1. ASSUME NEW s \in Symbols
      PROVE  d[s] \in Rational /\ Zero \preceq d[s]
    <2>1. t[s] \in Rational /\ book.weights[s] \in Rational
        BY DEF Numbers
    <2>2. t[s] -- book.weights[s] \in Rational
        BY <2>1, Difference
    <2> QED BY <2>2, Distance, Signs
<1>2. Turnover(t) = Total(d)
    BY DEF Turnover
<1>3. d = [s \in Symbols |-> d[s]]
    OBVIOUS
<1> HIDE DEF d
<1>4. d \in Numbers
    BY <1>1, <1>3, Zenon DEF Numbers
<1>5. Total(d) \in Rational /\ Zero \preceq Total(d)
    BY <1>1, <1>4, Totals
<1> QED BY <1>2, <1>4, <1>5 DEF d

\* What trading changes.
LEMMA RebalanceIs ==
    ASSUME Types, Rebalance
    PROVE  /\ phase = "trade" /\ book.alive /\ phase' = "bars" /\ UNCHANGED <<rule, prints>>
           /\ chosen' = Append(chosen, Choice)
           /\ Fee \in Rational
           /\ book'.weights = Targets
           /\ book'.value = After(book.value -- Fee)
           /\ book'.fees = book.fees ++ Fee
           /\ book'.dropped = book.dropped /\ book'.alive = book.alive
           /\ scaled'.unscaled = Unscaled(Choice)
           /\ scaled'.scale = Scale(scaled.returns)
           /\ scaled'.returns = scaled.returns
           /\ ledger'.units = [s \in Symbols |->
                IF Targets[s] = Zero THEN Zero ELSE (Targets[s] ** book'.value) // Today[s]]
           /\ ledger'.cash = book'.value ** (One -- Total(Targets))
           /\ ledger'.traded = ledger.traded ++ Total([s \in Symbols |->
                Abs((Targets[s] ** book.value) -- (ledger.units[s] ** ledger.mark[s]))])
           /\ ledger'.mark = Today
           /\ ledger'.passive = IF chosen = <<>> THEN Passive(Today) ELSE ledger.passive
           /\ Types'
<1> DEFINE t == Targets
           v == After(book.value -- Fee)
           u == Unscaled(Choice)
           sc == Scale(scaled.returns)
           today == Today
           units == [s \in Symbols |->
                      IF t[s] = Zero THEN Zero ELSE (t[s] ** v) // today[s]]
           cash == v ** (One -- Total(t))
           moved == [s \in Symbols |->
                      Abs((t[s] ** book.value) -- (ledger.units[s] ** ledger.mark[s]))]
           traded == ledger.traded ++ Total(moved)
           passive == IF chosen = <<>> THEN Passive(today) ELSE ledger.passive
<1>1. /\ phase = "trade" /\ book.alive /\ phase' = "bars" /\ UNCHANGED <<rule, prints>>
      /\ Taken(Choice, u, sc)
    BY DEF Rebalance, Picked, Choice
<1>2. /\ chosen' = Append(chosen, Choice)
      /\ scaled' = [scaled EXCEPT !.unscaled = u, !.scale = sc]
      /\ PaidFor(t, Fee)
    BY <1>1 DEF Taken, Bought, Targets, Fee
<1>3. /\ t \in Numbers /\ today \in Numbers /\ u \in Numbers /\ sc \in Rational
      /\ Choice \in Pick
      /\ \A s \in Symbols : t[s] # Zero => today[s] # Zero
    BY TargetsAre
<1>4. /\ book.value \in Rational /\ book.weights \in Numbers /\ book.fees \in Rational
      /\ ledger.units \in Numbers /\ ledger.mark \in Numbers /\ ledger.traded \in Rational
      /\ ledger.passive \in Numbers /\ CostRate \in Rational
    BY PortfolioAssumption DEF Types
<1>5. Fee \in Rational /\ v \in Rational
    <2>1. Turnover(t) \in Rational
        BY <1>3, <1>4, TurnoverIs
    <2>2. Fee \in Rational
        BY <1>4, <2>1, ProductType DEF Fee
    <2> QED BY <1>4, <2>2, Difference, GreatestType
<1>6. /\ book' = [book EXCEPT !.weights = t, !.value = After(@ -- Fee), !.fees = @ ++ Fee]
      /\ ledger' = Traded(t, book'.value, today)
    BY <1>2 DEF PaidFor, Today
<1>7. book.fees ++ Fee \in Rational
    BY <1>4, <1>5, SumType
<1> HIDE DEF t, v, u, sc, today
<1>8. ASSUME NEW s \in Symbols PROVE units[s] \in Rational /\ moved[s] \in Rational
    <2>1. /\ t[s] \in Rational /\ today[s] \in Rational /\ ledger.units[s] \in Rational
          /\ ledger.mark[s] \in Rational
        BY <1>3, <1>4 DEF Numbers
    <2>2. t[s] ** v \in Rational /\ t[s] ** book.value \in Rational
          /\ ledger.units[s] ** ledger.mark[s] \in Rational
        BY <1>4, <1>5, <2>1, ProductType
    <2>3. moved[s] \in Rational
        BY <2>2, Difference, Distance
    <2>4. units[s] \in Rational
        <3>1. t[s] # Zero => (t[s] ** v) // today[s] \in Rational
            BY <1>3, <2>1, <2>2, Quotient
        <3> QED BY <3>1, Constants
    <2> QED BY <2>3, <2>4
<1>9. units \in Numbers /\ moved \in Numbers
    BY <1>8 DEF Numbers
<1>10. cash \in Rational /\ traded \in Rational /\ passive \in Numbers
    <2>1. Total(t) \in Rational /\ Total(moved) \in Rational
        <3> HIDE DEF moved
        <3> QED BY <1>3, <1>9, Totals
    <2>2. cash \in Rational
        BY <1>5, <2>1, Difference, Constants, ProductType
    <2>3. traded \in Rational
        BY <1>4, <2>1, SumType
    <2>4. Passive(today) \in Numbers
        BY <1>3, PassiveType
    <2> QED BY <1>4, <2>2, <2>3, <2>4
<1>11. book' \in [weights : Numbers, value : Rational, fees : Rational, dropped : Nat,
                  alive : BOOLEAN]
       /\ book'.weights = t /\ book'.value = v /\ book'.fees = book.fees ++ Fee
       /\ book'.dropped = book.dropped /\ book'.alive = book.alive
    <2> DEFINE Flags == BOOLEAN
               fees == book.fees ++ Fee
    <2>1. /\ book \in [weights : Numbers, value : Rational, fees : Rational, dropped : Nat,
                       alive : Flags]
          /\ book' = [book EXCEPT !.weights = t, !.value = v, !.fees = fees]
        BY <1>6 DEF Types, v
    <2> HIDE DEF Flags, fees
    <2>2. book' \in [weights : Numbers, value : Rational, fees : Rational, dropped : Nat,
                     alive : Flags]
          /\ book'.weights = t /\ book'.value = v /\ book'.fees = fees
          /\ book'.dropped = book.dropped /\ book'.alive = book.alive
        BY <1>3, <1>5, <1>7, <2>1 DEF fees
    <2> QED BY <2>2 DEF Flags, fees
<1>12. ledger' = [units |-> units, cash |-> cash, traded |-> traded, mark |-> today,
                  passive |-> passive]
    BY <1>6, <1>11 DEF Traded
<1> HIDE DEF units, cash, moved, traded, passive
<1>13. ledger' \in [units : Numbers, cash : Rational, traded : Rational, mark : Numbers,
                    passive : Numbers]
    BY <1>3, <1>9, <1>10, <1>12
<1>14. scaled' \in [unscaled : Numbers, returns : Seq(Rational), scale : Rational]
       /\ scaled'.unscaled = u /\ scaled'.scale = sc /\ scaled'.returns = scaled.returns
    BY <1>2, <1>3 DEF Types
<1>15. chosen' \in Seq(Pick)
    <2>1. chosen \in Seq(Pick)
        BY DEF Types, Pick
    <2> QED BY <1>2, <1>3, <2>1
<1>16. Types'
    BY <1>1, <1>11, <1>13, <1>14, <1>15 DEF Types, Pick
<1>17. /\ ledger'.units = units /\ ledger'.cash = cash /\ ledger'.traded = traded
       /\ ledger'.mark = today /\ ledger'.passive = passive
    BY <1>12
<1> QED BY <1>1, <1>2, <1>5, <1>11, <1>14, <1>16, <1>17
        DEF t, v, u, sc, today, units, cash, moved, traded, passive

LEMMA InitTypes == Init => Types
<1> SUFFICES ASSUME Init PROVE Types
    OBVIOUS
<1>1. rule \in Rules /\ IsRule(rule)
    BY PortfolioAssumption DEF Init
<1>2. Nothing \in Numbers
    BY Constants DEF Nothing, Numbers
<1>3. [s \in Symbols |-> Q(1, Cardinality(Symbols))] \in Numbers
    <2>1. Cardinality(Symbols) \in Nat \ {0}
        BY PortfolioAssumption, FS_CardinalityType, FS_EmptySet
    <2>2. Q(1, Cardinality(Symbols)) \in Rational
        BY <2>1, CloseIsPositive
    <2> QED BY <2>2 DEF Numbers
<1>4. One \in Rational /\ Zero \in Rational
    BY Constants
<1>5. prints = <<>> /\ Len(prints) <= rule.bars /\ rule.bars \in Nat
    BY <1>1 DEF Init, IsRule
<1> DEFINE even == [s \in Symbols |-> Q(1, Cardinality(Symbols))]
<1>6. ledger = [units |-> Nothing, cash |-> One, traded |-> Zero, mark |-> Nothing,
                passive |-> even]
    BY DEF Init
<1> HIDE DEF even
<1>7. ledger \in [units : Numbers, cash : Rational, traded : Rational, mark : Numbers,
                  passive : Numbers]
    BY <1>2, <1>3, <1>4, <1>6 DEF even
<1> QED BY <1>1, <1>2, <1>4, <1>5, <1>7 DEF Init, Types

LEMMA TypesStep == Types /\ Calendar /\ [Next]_vars => Types'
<1> SUFFICES ASSUME Types, Calendar, [Next]_vars PROVE Types'
    OBVIOUS
<1>1. ASSUME NEW p \in Row, Bar(p) PROVE Types'
    BY <1>1, BarIs
<1>2. CASE Earn
    BY <1>2, EarnIs
<1>3. CASE Rebalance
    BY <1>3, RebalanceIs
<1>4. CASE UNCHANGED vars
    BY <1>4 DEF Types, vars
<1> QED BY <1>1, <1>2, <1>3, <1>4 DEF Next, Row

-----------------------------------------------------------------------------
(* The calendar *)

\* Between two multiples.
LEMMA Between ==
    ASSUME NEW e \in Nat \ {0}, NEW m \in Int, NEW x \in Int
    PROVE  /\ m * e < x /\ x <= (m + 1) * e => (x % e = 0 <=> x = (m + 1) * e)
           /\ m * e <= x /\ x < (m + 1) * e => x \div e = m
           /\ m * e < (m + 1) * e /\ m * e \in Int /\ (m + 1) * e \in Int
<1> DEFINE q == x \div e
           r == x % e
<1>1. x = e * q + r /\ r \in 0 .. e - 1 /\ q \in Int
    <2>1. e \in Whole
        BY DEF Whole
    <2> QED BY <2>1, Division
<1> HIDE DEF q, r
<1>2. e \in Int /\ e > 0 /\ r \in Int /\ 0 <= r /\ r < e
    BY <1>1
<1>3. (m + 1) * e = m * e + e /\ m * e \in Int /\ e * q \in Int
    BY <1>1, <1>2
<1>4. ASSUME m * e <= x, x < (m + 1) * e PROVE q = m
    <2>1. m * e < e * q + e /\ e * q < m * e + e
        BY <1>1, <1>2, <1>3, <1>4
    <2>2. e * (m - q - 1) < 0 /\ e * (q - m - 1) < 0
        BY <1>1, <1>2, <2>1
    <2>3. m - q - 1 < 0 /\ q - m - 1 < 0
        BY <1>1, <1>2, <2>2
    <2> QED BY <1>1, <2>3
<1>5. ASSUME m * e < x, x <= (m + 1) * e, r = 0 PROVE x = (m + 1) * e
    <2>1. m * e < e * q /\ e * q <= m * e + e /\ x = e * q
        BY <1>1, <1>2, <1>3, <1>5
    <2>2. e * (q - m) > 0 /\ e * (q - m - 1) <= 0
        BY <1>1, <1>2, <2>1
    <2>3. q - m > 0 /\ q - m - 1 <= 0
        BY <1>1, <1>2, <2>2
    <2>4. q = m + 1
        BY <1>1, <2>3
    <2> QED BY <2>1, <2>4
<1>6. ASSUME x = (m + 1) * e PROVE r = 0
    <2>1. r = e * (m + 1 - q)
        BY <1>1, <1>2, <1>6
    <2>2. e * (m + 1 - q) >= 0 /\ e * (m - q) < 0
        BY <1>1, <1>2, <2>1
    <2>3. m + 1 - q >= 0 /\ m - q < 0
        BY <1>1, <1>2, <2>2
    <2>4. m + 1 - q = 0
        BY <1>1, <2>3
    <2> QED BY <2>1, <2>4
<1>7. m * e < (m + 1) * e /\ (m + 1) * e \in Int
    BY <1>2, <1>3
<1> QED BY <1>3, <1>4, <1>5, <1>6, <1>7 DEF q, r

LEMMA DateBars ==
    ASSUME Types, NEW k \in Int
    PROVE  /\ DateBar(k) = 1 + (k - 1) * rule.every /\ DateBar(k + 1) = 1 + k * rule.every
           /\ DateBar(k) \in Int /\ DateBar(k) < DateBar(k + 1)
           /\ k >= 1 => DateBar(k) >= k
<1> DEFINE e == rule.every
<1>1. e \in Nat \ {0} /\ e \in Int /\ e >= 1
    BY RuleIs DEF IsRule
<1>2. DateBar(k) = 1 + (k - 1) * e /\ DateBar(k + 1) = 1 + ((k + 1) - 1) * e
    BY DEF DateBar
<1> HIDE DEF e
<1>3. (k + 1) - 1 = k /\ k - 1 \in Int /\ (k - 1) + 1 = k
    OBVIOUS
<1>4. (k - 1) * e < k * e /\ (k - 1) * e \in Int /\ k * e \in Int
    BY <1>1, <1>3, Between
<1>5. k >= 1 => (k - 1) * e >= k - 1
    BY <1>1
<1> QED BY <1>2, <1>3, <1>4, <1>5 DEF e

LEMMA CalendarStep == Types /\ Calendar /\ [Next]_vars => Calendar'
<1> SUFFICES ASSUME Types, Calendar, [Next]_vars PROVE Calendar'
    OBVIOUS
<1> DEFINE n == Len(chosen)
           e == rule.every
           x == Len(prints)
<1>0. /\ n \in Nat /\ x \in Nat /\ e \in Nat \ {0} /\ (chosen = <<>> => n = 0)
      /\ (prints = <<>> => x = 0)
    BY RuleIs DEF Types, IsRule
<1>1. ASSUME NEW p \in Row, Bar(p) PROVE Calendar'
    <2>1. /\ phase = "bars" /\ book.alive /\ chosen' = chosen /\ rule' = rule
          /\ book' = book /\ scaled' = scaled
        BY <1>1 DEF Bar
    <2>2. /\ Types' /\ Len(prints') = x + 1
          /\ phase' = IF ~IsDate(x + 1) THEN "bars"
                      ELSE IF chosen = <<>> THEN "trade" ELSE "earn"
        BY <1>1, BarIs
    <2>3. IsDate(x + 1) <=> x % e = 0
        <3>1. (x + 1) - 1 = x
            BY <1>0
        <3> QED BY <3>1 DEF IsDate
    <2>5. Len(scaled'.returns) = IF phase' = "trade" \/ chosen' = <<>> THEN n ELSE n - 1
        <3>1. Len(scaled.returns) = IF chosen = <<>> THEN n ELSE n - 1
            BY <2>1 DEF Calendar
        <3> QED BY <2>1, <2>2, <3>1
    <2>6. CASE chosen = <<>>
        <3>1. x = 0
            BY <1>0, <2>1, <2>6 DEF Calendar
        <3>2. x % e = 0
            <4>1. 0 % e = 0
                BY <1>0
            <4> QED BY <3>1, <4>1
        <3>3. phase' = "trade"
            BY <2>2, <2>3, <2>6, <3>2
        <3>4. Len(chosen') = 0 /\ Len(prints') = 1 /\ rule'.every = e
            BY <1>0, <2>1, <2>2, <2>6, <3>1
        <3>5. 1 = 1 + ((0 + 1) - 1) * e
            BY <1>0
        <3>6. Len(prints') = 1 + ((Len(chosen') + 1) - 1) * rule'.every
            BY <3>4, <3>5
        <3> QED BY <2>1, <2>5, <3>3, <3>6 DEF Calendar, DateBar
    <2>7. CASE chosen # <<>>
        <3>1. DateBar(n) <= x /\ x < DateBar(n + 1)
            BY <2>1, <2>7 DEF Calendar
        <3>2. /\ DateBar(n) = 1 + (n - 1) * e /\ DateBar(n + 1) = 1 + n * e
              /\ (n - 1) * e \in Int /\ n * e \in Int
              /\ ((n - 1) * e < x /\ x <= ((n - 1) + 1) * e
                    => (x % e = 0 <=> x = ((n - 1) + 1) * e))
            <4>1. n - 1 \in Int /\ n \in Int /\ x \in Int
                BY <1>0
            <4>2. (n - 1) * e \in Int /\ n * e \in Int
                BY <1>0, <4>1
            <4> HIDE DEF n, e, x
            <4> QED BY <1>0, <4>1, <4>2, Between, DateBars DEF e
        <3>3. (n - 1) + 1 = n
            BY <1>0
        <3> HIDE DEF n, e, x
        <3>4. x % e = 0 <=> x = n * e
            BY <1>0, <3>1, <3>2, <3>3
        <3>5. CASE x % e = 0
            <4>1. phase' = "earn" /\ Len(prints') = 1 + ((n + 1) - 1) * e
                BY <1>0, <2>2, <2>3, <2>7, <3>3, <3>4, <3>5
            <4>2. Len(prints') = 1 + ((Len(chosen') + 1) - 1) * rule'.every
                BY <2>1, <4>1 DEF n, e
            <4> QED BY <2>1, <2>5, <2>7, <4>1, <4>2 DEF Calendar, DateBar
        <3>6. CASE ~(x % e = 0)
            <4>1. /\ phase' = "bars" /\ 1 + (n - 1) * e <= Len(prints')
                  /\ Len(prints') < 1 + n * e
                BY <1>0, <2>2, <2>3, <3>1, <3>2, <3>4, <3>6
            <4>2. n * e = ((n + 1) - 1) * e
                BY <1>0
            <4>3. /\ 1 + (Len(chosen') - 1) * rule'.every <= Len(prints')
                  /\ Len(prints') < 1 + ((Len(chosen') + 1) - 1) * rule'.every
                BY <2>1, <4>1, <4>2 DEF n, e
            <4> QED BY <2>1, <2>5, <2>7, <4>1, <4>3 DEF Calendar, DateBar
        <3> QED BY <3>5, <3>6
    <2> QED BY <2>6, <2>7
<1>2. CASE Earn
    <2>1. /\ phase = "earn" /\ phase' = "trade" /\ UNCHANGED <<rule, prints, chosen>>
          /\ \E y \in Rational : scaled'.returns = Append(scaled.returns, y)
        BY <1>2, EarnIs
    <2>2. chosen # <<>> /\ Len(scaled.returns) = n - 1 /\ scaled.returns \in Seq(Rational)
        BY <2>1 DEF Calendar, Types
    <2>3. Len(scaled'.returns) = n
        BY <1>0, <2>1, <2>2
    <2>4. x = DateBar(n + 1) /\ DateBar(n + 1)' = DateBar(n + 1)
        BY <2>1 DEF Calendar, DateBar
    <2> QED BY <2>1, <2>3, <2>4 DEF Calendar
<1>3. CASE Rebalance
    <2>1. /\ phase = "trade" /\ book.alive /\ phase' = "bars" /\ UNCHANGED <<rule, prints>>
          /\ chosen' = Append(chosen, Choice) /\ book'.alive = book.alive
          /\ scaled'.returns = scaled.returns
        BY <1>3, RebalanceIs
    <2>2. chosen' # <<>> /\ Len(chosen') = n + 1
        BY <2>1 DEF Types
    <2>3. x = DateBar(n + 1) /\ Len(scaled.returns) = n
        BY <2>1 DEF Calendar
    <2>4. n + 1 \in Int /\ x = DateBar(n + 1) /\ DateBar(n + 1) < DateBar((n + 1) + 1)
        <3>1. n + 1 \in Int
            BY <1>0
        <3> HIDE DEF n
        <3>2. DateBar(n + 1) < DateBar((n + 1) + 1)
            BY <3>1, DateBars
        <3> QED BY <2>3, <3>1, <3>2
    <2>5. x = 1 + ((n + 1) - 1) * e /\ x < 1 + (((n + 1) + 1) - 1) * e
        BY <2>4 DEF DateBar
    <2>6. /\ 1 + (Len(chosen') - 1) * rule'.every <= Len(prints')
          /\ Len(prints') < 1 + ((Len(chosen') + 1) - 1) * rule'.every
        BY <1>0, <2>1, <2>2, <2>5
    <2>7. Len(scaled'.returns) = Len(chosen') - 1
        BY <1>0, <2>1, <2>2, <2>3
    <2> QED BY <2>1, <2>2, <2>6, <2>7 DEF Calendar, DateBar
<1>4. CASE UNCHANGED vars
    BY <1>4 DEF Calendar, vars, DateBar
<1> QED BY <1>1, <1>2, <1>3, <1>4 DEF Next, Row

-----------------------------------------------------------------------------
(* The account of units and cash *)

\* A close sampled on a date stays what it was.
LEMMA AtStays ==
    ASSUME Types, UNCHANGED rule, prints' = prints \/ \E p : prints' = Append(prints, p),
           NEW k \in Int, DateBar(k) <= Len(prints), NEW s \in Symbols
    PROVE  At(s, k)' = At(s, k)
<1>1. DateBar(k) \in Int
    BY DateBars
<1>2. ASSUME NEW b \in Int, b = DateBar(k) PROVE CloseAt(s, b)' = CloseAt(s, b)
    BY <1>2, CloseStays
<1>3. ASSUME NEW b \in Int, b = DateBar(k)
      PROVE  At(s, k) = CloseAt(s, b) /\ At(s, k)' = CloseAt(s, b)'
    <2>1. At(s, k) = CloseAt(s, b)
        BY <1>3 DEF At
    <2>2. b = DateBar(k)'
        BY <1>3 DEF DateBar
    <2>3. At(s, k)' = CloseAt(s, b)'
        BY <2>2 DEF At
    <2> QED BY <2>1, <2>3
<1> QED BY <1>1, <1>2, <1>3

LEMMA TotalNothing ==
    ASSUME NEW f \in Numbers, \A s \in Symbols : f[s] = Zero
    PROVE  Total(f) = Zero
<1>1. \A s \in Symbols : f[s] = Zero ** f[s]
    BY Neutral, Constants
<1>2. Total(f) = Zero ** Total(f)
    BY <1>1, TotalsScale, Constants
<1> QED BY <1>2, Totals, Neutral

\* What the positions are worth.
Positions == [s \in Symbols |-> ledger.units[s] ** ledger.mark[s]]

LEMMA PositionsType == Types => Positions \in Numbers
<1> SUFFICES ASSUME Types PROVE Positions \in Numbers
    OBVIOUS
<1>1. ASSUME NEW s \in Symbols PROVE ledger.units[s] ** ledger.mark[s] \in Rational
    <2>1. ledger.units[s] \in Rational /\ ledger.mark[s] \in Rational
        BY DEF Types, Numbers
    <2> QED BY <2>1, ProductType
<1> QED BY <1>1 DEF Positions, Numbers

LEMMA WorthIs ==
    ASSUME Types, ledger.cash = book.value ** (One -- Total(book.weights)),
           \A s \in Symbols :
               ledger.units[s] ** ledger.mark[s] = book.weights[s] ** book.value
    PROVE  Worth = book.value
<1> DEFINE v == book.value
           w == book.weights
<1>1. v \in Rational /\ w \in Numbers /\ Positions \in Numbers
    BY PositionsType DEF Types
<1>2. ASSUME NEW s \in Symbols PROVE Positions[s] = v ** w[s]
    <2>1. w[s] \in Rational /\ Positions[s] = w[s] ** v
        BY <1>1 DEF Positions, Numbers
    <2> QED BY <1>1, <2>1, ProductCommutes
<1>3. Total(Positions) = v ** Total(w) /\ Total(w) \in Rational
    <2> HIDE DEF v, w
    <2> QED BY <1>1, <1>2, TotalsScale, Totals
<1>4. Worth = Total(Positions) ++ (v ** (One -- Total(w)))
    BY DEF Worth, Positions
<1> HIDE DEF v, w
<1>5. (v ** Total(w)) ++ (v ** (One -- Total(w))) = v
    BY <1>1, <1>3, PartAndRest
<1> QED BY <1>3, <1>4, <1>5 DEF v

LEMMA InitBalanced == Init => Balanced
<1> SUFFICES ASSUME Init PROVE Balanced
    OBVIOUS
<1>1. Types
    BY InitTypes
<1>2. /\ book.value = One /\ book.weights = Nothing /\ book.fees = Zero
      /\ ledger.units = Nothing /\ ledger.mark = Nothing /\ ledger.cash = One
      /\ ledger.traded = Zero /\ phase = "bars"
    BY DEF Init
<1>3. Nothing \in Numbers /\ \A s \in Symbols : Nothing[s] = Zero
    BY Constants DEF Nothing, Numbers
<1>4. Total(Nothing) = Zero /\ One -- Zero = One /\ One ** One = One
    BY <1>3, TotalNothing, NoDifference, Neutral, Constants
<1>5. Zero ** Zero = Zero /\ Zero ** One = Zero /\ Zero \preceq One
    BY Neutral, Constants, Signs
<1>6. CostRate ** Zero = Zero
    BY PortfolioAssumption, Neutral
<1> QED BY <1>2, <1>3, <1>4, <1>5, <1>6 DEF Balanced, FeesAreTraded

LEMMA BarBalanced ==
    ASSUME Types, Calendar, Balanced, NEW p \in Row, Bar(p)
    PROVE  Balanced'
<1>1. /\ phase = "bars" /\ book.alive /\ UNCHANGED <<rule, book, scaled, chosen, ledger>>
      /\ prints' = Append(prints, p)
    BY DEF Bar
<1>2. Worth = book.value /\ book.value = Greatest(book.value, Zero)
    <2>1. Worth = book.value
        BY <1>1, WorthIs DEF Balanced
    <2>2. book.value \in Rational /\ Zero \preceq book.value
        BY DEF Types, Balanced
    <2> QED BY <2>1, <2>2, GreatestType DEF After
<1>3. Worth' = Worth
    BY <1>1 DEF Worth
<1>4. ASSUME NEW s \in Symbols, ledger.units[s] # Zero
      PROVE  \E k \in 1 .. Len(chosen) :
                 k = Len(chosen) /\ At(s, k)' # None /\ ledger.mark[s] = R(At(s, k)')
    <2>1. PICK k \in 1 .. Len(chosen) :
              k = Len(chosen) /\ At(s, k) # None /\ ledger.mark[s] = R(At(s, k))
        BY <1>1, <1>4 DEF Balanced
    <2>2. k \in Int /\ chosen # <<>>
        BY <2>1 DEF Types
    <2>3. DateBar(k) <= Len(prints)
        BY <1>1, <2>1, <2>2 DEF Calendar
    <2>4. At(s, k)' = At(s, k)
        BY <1>1, <2>2, <2>3, AtStays
    <2> QED BY <2>1, <2>4
<1> QED BY <1>1, <1>2, <1>3, <1>4 DEF Balanced, FeesAreTraded

\* A position held through a period is worth what its weight became.
LEMMA MarkedIs ==
    ASSUME Types, Calendar, Balanced, phase = "earn", NEW s \in Symbols
    PROVE  ledger.units[s] ** Today[s] = (book.weights[s] ** Moves[s]) ** book.value
<1> DEFINE u == ledger.units[s]
           mark == ledger.mark[s]
           w == book.weights[s]
           v == book.value
           r == Moves[s]
           today == Today[s]
           b == Len(prints)
           end == CloseAt(s, b)
<1>1. u \in Rational /\ mark \in Rational /\ w \in Rational /\ v \in Rational
    BY DEF Types, Numbers
<1>2. /\ b \in Int /\ b - rule.every \in Int /\ b - rule.every <= b
      /\ b - rule.every = DateBar(Len(chosen))
    BY PeriodIs
<1>3. r \in Rational /\ today \in Rational /\ end \in (Nat \ {0}) \cup {None}
    <2>1. Moves \in Numbers
        BY <1>2, RatiosType DEF Moves
    <2>2. Today \in Numbers
        BY <1>2, MarksType DEF Today
    <2> QED BY <1>2, <2>1, <2>2, CloseType DEF Numbers
<1>4. u ** mark = w ** v
    BY DEF Balanced, Calendar
<1>5. CASE u = Zero
    <2> HIDE DEF u, mark, w, v, r, today
    <2>1. w ** v = Zero /\ u ** today = Zero
        BY <1>1, <1>3, <1>4, <1>5, Neutral
    <2>2. (w ** r) ** v = (w ** v) ** r
        BY <1>1, <1>3, SwapFactors
    <2>3. (w ** r) ** v = u ** today
        BY <1>3, <2>1, <2>2, Neutral
    <2> QED BY <2>3 DEF u, w, v, r, today
<1>6. CASE u # Zero
    <2>1. PICK k \in 1 .. Len(chosen) : k = Len(chosen) /\ At(s, k) # None /\ mark = R(At(s, k))
        BY <1>6 DEF Balanced
    <2> DEFINE start == CloseAt(s, b - rule.every)
    <2>2. start = At(s, k)
        BY <1>2, <2>1 DEF At
    <2>3. start # None /\ mark = R(start) /\ start \in Nat \ {0}
        <3>1. start # None /\ mark = R(start)
            BY <2>1, <2>2
        <3> QED BY <1>2, <3>1, CloseType
    <2>4. /\ r = IF start = None \/ end = None THEN One ELSE Q(end, start)
          /\ today = IF end = None THEN mark ELSE R(end)
        BY DEF Moves, Ratios, Today, Marks
    <2> HIDE DEF u, mark, w, v, r, today, start, end
    <2>5. today = mark ** r
        BY <1>1, <1>3, <2>3, <2>4, CloseIsPositive, Neutral
    <2>6. u ** today = (u ** mark) ** r
        BY <1>1, <1>3, <2>5, ProductAssociates
    <2>7. (w ** v) ** r = (w ** r) ** v
        BY <1>1, <1>3, SwapFactors
    <2>8. u ** today = (w ** r) ** v
        BY <1>4, <2>6, <2>7
    <2> QED BY <2>8 DEF u, w, v, r, today
<1> QED BY <1>5, <1>6

LEMMA EarnBalanced ==
    ASSUME Types, Calendar, Balanced, Earn
    PROVE  Balanced'
<1> DEFINE v == book.value
           w == book.weights
           g == Grew
           grown == [s \in Symbols |-> w[s] ** Moves[s]]
           after == v ** g
           d == Drifted(Moves, Grew)
           marked == [s \in Symbols |-> ledger.units[s] ** Today[s]]
<1>1. /\ phase = "earn" /\ phase' = "trade" /\ book'.weights = d
      /\ book'.value = After(after) /\ book'.fees = book.fees
      /\ book'.alive = Positive(after) /\ ledger'.units = ledger.units
      /\ ledger'.cash = ledger.cash /\ ledger'.traded = ledger.traded
      /\ ledger'.mark = Today /\ Moves \in Numbers /\ g \in Rational
    BY EarnIs DEF Today
<1>2. v \in Rational /\ w \in Numbers /\ ledger.units \in Numbers /\ Today \in Numbers
    <2>1. Len(prints) \in Int /\ Len(prints) <= Len(prints)
        BY DEF Types
    <2> QED BY <2>1, MarksType DEF Types, Today
<1>3. Zero \preceq v /\ ledger.cash = v ** (One -- Total(w)) /\ FeesAreTraded
    BY <1>1 DEF Balanced
<1>4. g = (One -- Total(w)) ++ Total(grown) /\ Total(grown) \in Rational
      /\ Total(w) \in Rational
    BY <1>1, <1>2, GrowthIs, Totals DEF Grew
<1>5. \A s \in Symbols : marked[s] = grown[s] ** v
    BY <1>1, MarkedIs
<1>6. ASSUME NEW s \in Symbols
      PROVE  /\ grown[s] \in Rational /\ marked[s] \in Rational
             /\ grown[s] ** v = v ** grown[s]
    <2>1. w[s] \in Rational /\ Moves[s] \in Rational /\ ledger.units[s] \in Rational
          /\ Today[s] \in Rational
        BY <1>1, <1>2 DEF Numbers
    <2>2. grown[s] \in Rational /\ marked[s] \in Rational
        BY <2>1, ProductType
    <2> HIDE DEF grown, v
    <2> QED BY <1>2, <2>2, ProductCommutes
<1>7. grown \in Numbers /\ marked \in Numbers
    BY <1>6 DEF Numbers
<1>8. Worth' = Total(marked) ++ ledger.cash
    BY <1>1 DEF Worth
<1> HIDE DEF v, w, g, grown, marked
<1>9. Total(marked) = v ** Total(grown)
    BY <1>2, <1>5, <1>6, <1>7, TotalsScale
<1>10. Worth' = v ** g
    <2> DEFINE rest == One -- Total(w)
               t == Total(grown)
    <2>1. rest \in Rational /\ t \in Rational /\ v ** rest \in Rational /\ v ** t \in Rational
        BY <1>2, <1>4, Difference, Constants, ProductType
    <2>2. Worth' = (v ** t) ++ (v ** rest) /\ g = rest ++ t
        BY <1>3, <1>4, <1>8, <1>9
    <2> HIDE DEF rest, t
    <2>3. v ** (rest ++ t) = (v ** rest) ++ (v ** t)
        BY <1>2, <2>1, ProductDistributes
    <2>4. (v ** t) ++ (v ** rest) = (v ** rest) ++ (v ** t)
        BY <2>1, SumCommutes
    <2> QED BY <2>2, <2>3, <2>4
<1>11. after \in Rational /\ After(after) \in Rational /\ Zero \preceq After(after)
       /\ (Zero \preceq after => After(after) = after)
    <2>1. after \in Rational
        BY <1>1, <1>2, ProductType
    <2> HIDE DEF after
    <2> QED BY <2>1, GreatestType
<1>12. ASSUME Positive(after), NEW s \in Symbols
       PROVE  marked[s] = d[s] ** After(after)
    <2>1. Positive(g)
        <3>1. v[1] \in Int /\ v[1] >= 0 /\ g[1] \in Int
            BY <1>1, <1>2, <1>3, Signs
        <3>2. v # Zero
            <4>1. SUFFICES ASSUME v = Zero PROVE FALSE
                OBVIOUS
            <4>2. after = Zero
                BY <1>1, <4>1, Neutral
            <4> QED BY <1>12, <4>2, Constants DEF Positive
        <3>3. Positive(v)
            BY <1>2, <3>1, <3>2, Signs DEF Positive
        <3>4. g ** v = after
            BY <1>1, <1>2, ProductCommutes
        <3> QED BY <1>1, <1>2, <1>12, <3>3, <3>4, ProductSign DEF Positive
    <2>2. /\ d \in Numbers /\ d[s] ** g = w[s] ** Moves[s]
        BY <1>1, <1>2, <2>1, DriftType DEF w, g
    <2>3. d[s] \in Rational /\ grown[s] = d[s] ** g
        BY <2>2 DEF Numbers, grown
    <2>4. Zero \preceq after
        BY <1>11, <1>12, Signs, Constants, Ordered
    <2> HIDE DEF d
    <2>5. marked[s] = (d[s] ** g) ** v
        BY <1>5, <2>3
    <2>6. (d[s] ** g) ** v = d[s] ** (g ** v) /\ g ** v = after
        BY <1>1, <1>2, <2>3, ProductAssociates, ProductCommutes
    <2> QED BY <1>11, <2>4, <2>5, <2>6
<1>13. \A s \in Symbols : book'.alive =>
           ledger'.units[s] ** ledger'.mark[s] = book'.weights[s] ** book'.value
    BY <1>1, <1>12 DEF marked
<1>14. book'.value = Greatest(Worth', Zero) /\ Zero \preceq book'.value
    BY <1>1, <1>10, <1>11 DEF After
<1>15. FeesAreTraded'
    BY <1>1, <1>3 DEF FeesAreTraded
<1> QED BY <1>1, <1>13, <1>14, <1>15 DEF Balanced

\* The money a trade moves is the turnover's share of the value.
LEMMA MovedIs ==
    ASSUME Types, Balanced, book.alive
    PROVE  LET moved == [s \in Symbols |-> Abs((Targets[s] ** book.value)
                                                -- (ledger.units[s] ** ledger.mark[s]))]
           IN  /\ Total(moved) \in Rational
               /\ Total(moved) = book.value ** Turnover(Targets)
<1> DEFINE t == Targets
           v == book.value
           w == book.weights
           moved == [s \in Symbols |-> Abs((t[s] ** v) -- (ledger.units[s] ** ledger.mark[s]))]
           apart == [s \in Symbols |-> Abs(t[s] -- w[s])]
<1>1. t \in Numbers /\ v \in Rational /\ w \in Numbers /\ Zero \preceq v
    BY TargetsAre DEF Types, Balanced
<1>2. apart \in Numbers /\ Turnover(t) = Total(apart) /\ Turnover(t) \in Rational
    BY <1>1, TurnoverIs
<1>3. ASSUME NEW s \in Symbols
      PROVE  moved[s] = v ** apart[s] /\ moved[s] \in Rational
    <2> DEFINE a == t[s]
               b == w[s]
    <2>1. ledger.units[s] ** ledger.mark[s] = b ** v
        BY DEF Balanced
    <2>2. a \in Rational /\ b \in Rational
        BY <1>1 DEF Numbers
    <2>3. moved[s] = Abs((a ** v) -- (b ** v)) /\ apart[s] = Abs(a -- b)
        BY <2>1
    <2> HIDE DEF a, b, moved, apart, v
    <2>4. a -- b \in Rational /\ (a ** v) -- (b ** v) = (a -- b) ** v
        BY <1>1, <2>2, DifferenceScales
    <2>5. Abs((a -- b) ** v) = v ** Abs(a -- b) /\ Abs((a -- b) ** v) \in Rational
        BY <1>1, <2>4, WeightType
    <2> QED BY <2>3, <2>4, <2>5
<1>4. moved = [s \in Symbols |-> moved[s]]
    OBVIOUS
<1> HIDE DEF moved, apart, t, v, w
<1>5. moved \in Numbers
    BY <1>3, <1>4, Zenon DEF Numbers
<1>6. Total(moved) = v ** Total(apart) /\ Total(moved) \in Rational
    BY <1>1, <1>2, <1>3, <1>5, TotalsScale, Totals
<1> QED BY <1>2, <1>6 DEF moved, t, v

LEMMA RebalanceBalanced ==
    ASSUME Types, Calendar, Balanced, Rebalance
    PROVE  Balanced'
<1> DEFINE v == book'.value
           t == Targets
           moved == [s \in Symbols |-> Abs((t[s] ** book.value)
                                           -- (ledger.units[s] ** ledger.mark[s]))]
<1>1. /\ phase = "trade" /\ book.alive /\ phase' = "bars" /\ UNCHANGED <<rule, prints>>
      /\ chosen' = Append(chosen, Choice) /\ book'.weights = t
      /\ v = After(book.value -- Fee) /\ book'.fees = book.fees ++ Fee /\ Fee \in Rational
      /\ ledger'.units = [s \in Symbols |->
             IF t[s] = Zero THEN Zero ELSE (t[s] ** v) // Today[s]]
      /\ ledger'.cash = v ** (One -- Total(t))
      /\ ledger'.traded = ledger.traded ++ Total(moved)
      /\ ledger'.mark = Today /\ Types'
    BY RebalanceIs
<1>2. /\ t \in Numbers /\ Today \in Numbers
      /\ \A s \in Symbols : t[s] # Zero =>
             /\ CloseAt(s, Len(prints)) # None /\ Today[s] # Zero
             /\ Today[s] = R(CloseAt(s, Len(prints)))
    BY TargetsAre
<1>3. v \in Rational /\ Zero \preceq v
    <2>1. book.value -- Fee \in Rational
        BY <1>1, Difference DEF Types
    <2> QED BY <1>1, <2>1, GreatestType
<1>4. Total(moved) \in Rational /\ Total(moved) = book.value ** Turnover(t)
    BY <1>1, MovedIs
<1> HIDE DEF v, t, moved
<1>5. ASSUME NEW s \in Symbols
      PROVE  ledger'.units[s] ** ledger'.mark[s] = book'.weights[s] ** v
    <2>1. t[s] \in Rational /\ Today[s] \in Rational
        BY <1>2 DEF Numbers
    <2>2. ledger'.units[s] = IF t[s] = Zero THEN Zero ELSE (t[s] ** v) // Today[s]
        BY <1>1
    <2>3. CASE t[s] = Zero
        BY <1>1, <1>3, <2>1, <2>2, <2>3, Neutral
    <2>4. CASE t[s] # Zero
        <3>1. t[s] ** v \in Rational /\ Today[s] # Zero
            BY <1>2, <1>3, <2>1, <2>4, ProductType
        <3>2. ((t[s] ** v) // Today[s]) ** Today[s] = t[s] ** v
            BY <2>1, <3>1, Quotient
        <3> QED BY <1>1, <2>2, <2>4, <3>2
    <2> QED BY <2>3, <2>4
<1>6. ASSUME NEW s \in Symbols, ledger'.units[s] # Zero
      PROVE  \E k \in 1 .. Len(chosen') :
                 k = Len(chosen') /\ At(s, k)' # None /\ ledger'.mark[s] = R(At(s, k)')
    <2>1. t[s] # Zero
        BY <1>1, <1>6
    <2>2. CloseAt(s, Len(prints)) # None /\ ledger'.mark[s] = R(CloseAt(s, Len(prints)))
        BY <1>1, <1>2, <2>1
    <2>3. PICK k \in Nat : k = Len(chosen) + 1
        BY DEF Types
    <2>4. k \in 1 .. Len(chosen') /\ k = Len(chosen')
        BY <1>1, <2>3 DEF Types
    <2>5. Len(prints) = DateBar(k) /\ k \in Int
        BY <1>1, <2>3, PeriodIs
    <2>6. At(s, k) = CloseAt(s, Len(prints))
        BY <2>5 DEF At
    <2>7. At(s, k)' = At(s, k)
        <3>1. DateBar(k) <= Len(prints)
            BY <2>5 DEF Types
        <3> QED BY <1>1, <2>5, <3>1, AtStays
    <2> QED BY <2>2, <2>4, <2>6, <2>7
<1>7. FeesAreTraded'
    <2> DEFINE c == CostRate
               m == Total(moved)
               tr == ledger.traded
               tau == Turnover(t)
    <2>1. c \in Rational /\ tr \in Rational /\ m \in Rational /\ tau \in Rational
          /\ book.value \in Rational /\ book.fees = c ** tr
        <3>1. book.weights \in Numbers
            BY DEF Types
        <3>2. tau \in Rational
            BY <1>2, <3>1, TurnoverIs
        <3> QED BY <1>4, <3>2, PortfolioAssumption DEF Types, Balanced, FeesAreTraded
    <2>2. Fee = m ** c
        BY <1>4 DEF Fee, t
    <2> HIDE DEF c, m, tr, tau
    <2>3. m ** c = c ** m /\ c ** (tr ++ m) = (c ** tr) ++ (c ** m)
        BY <2>1, ProductCommutes, ProductDistributes
    <2>4. book'.fees = c ** (tr ++ m)
        BY <1>1, <2>1, <2>2, <2>3
    <2> QED BY <1>1, <2>4 DEF FeesAreTraded, c, m, tr
<1> QED BY <1>1, <1>3, <1>5, <1>6, <1>7 DEF Balanced, v

LEMMA BalancedStep == Types /\ Calendar /\ Balanced /\ [Next]_vars => Balanced'
<1> SUFFICES ASSUME Types, Calendar, Balanced, [Next]_vars PROVE Balanced'
    OBVIOUS
<1>1. ASSUME NEW p \in Row, Bar(p) PROVE Balanced'
    BY <1>1, BarBalanced
<1>2. CASE Earn
    BY <1>2, EarnBalanced
<1>3. CASE Rebalance
    BY <1>3, RebalanceBalanced
<1>4. CASE UNCHANGED vars
    <2>1. Worth' = Worth
        BY <1>4 DEF Worth, vars
    <2>2. \A s \in Symbols, k \in 1 .. Len(chosen) : At(s, k)' = At(s, k)
        BY <1>4 DEF vars, At, DateBar, CloseAt, Printed
    <2> QED BY <1>4, <2>1, <2>2 DEF Balanced, vars, FeesAreTraded
<1> QED BY <1>1, <1>2, <1>3, <1>4 DEF Next, Row

-----------------------------------------------------------------------------
(* The benchmark *)

\* A nonempty set of naturals has a least member, and the choice finds it.
LEMMA FirstIs ==
    ASSUME NEW S \in SUBSET Nat, S # {}
    PROVE  First(S) \in S /\ \A k \in S : First(S) <= k
<1>1. \E m \in S : \A k \in S : m <= k
    BY LeastNumber
<1> QED BY <1>1 DEF First

LEMMA KnownIs ==
    ASSUME Types, NEW m \in Nat, NEW s \in Symbols
    PROVE  /\ KnownAt(s, m) \in SUBSET (1 .. m) /\ KnownAt(s, m) \in SUBSET Nat
           /\ At(s, m + 1) = None => KnownAt(s, m + 1) = KnownAt(s, m)
           /\ At(s, m + 1) # None =>
                  /\ KnownAt(s, m + 1) = KnownAt(s, m) \cup {m + 1}
                  /\ Newest(KnownAt(s, m + 1)) = m + 1
                  /\ MarkOf(s, m + 1) = R(At(s, m + 1))
<1> DEFINE K == KnownAt(s, m)
           K1 == KnownAt(s, m + 1)
<1>1. K \in SUBSET (1 .. m) /\ K \in SUBSET Nat /\ K1 \in SUBSET (1 .. m + 1)
    BY DEF KnownAt
<1>2. At(s, m + 1) = None => K1 = K
    <2>1. 1 .. m + 1 = (1 .. m) \cup {m + 1}
        OBVIOUS
    <2> QED BY <2>1 DEF KnownAt
<1>3. ASSUME At(s, m + 1) # None PROVE K1 = K \cup {m + 1}
    <2>1. 1 .. m + 1 = (1 .. m) \cup {m + 1}
        OBVIOUS
    <2> QED BY <1>3, <2>1 DEF KnownAt
<1>4. ASSUME At(s, m + 1) # None
      PROVE  Newest(K1) = m + 1 /\ MarkOf(s, m + 1) = R(At(s, m + 1))
    <2>1. m + 1 \in K1 /\ K1 # {} /\ m + 1 \in Int
        BY <1>3, <1>4
    <2> HIDE DEF K1
    <2>2. Newest(K1) \in K1 /\ m + 1 <= Newest(K1)
        BY <1>1, <2>1, GreatestNumber
    <2>3. Newest(K1) \in 1 .. m + 1
        BY <1>1, <2>2
    <2>4. Newest(K1) = m + 1
        BY <2>2, <2>3
    <2> QED BY <2>1, <2>4 DEF MarkOf, K1
<1> QED BY <1>1, <1>2, <1>3, <1>4

\* The latest close that was sampled is a price, the first of them as well.
LEMMA KnownPrices ==
    ASSUME Types, NEW m \in Nat, NEW s \in Symbols, \A k \in 1 .. m : DateBar(k) <= Len(prints),
           KnownAt(s, m) # {}
    PROVE  /\ MarkOf(s, m) \in Rational /\ MarkOf(s, m) # Zero
           /\ R(At(s, First(KnownAt(s, m)))) \in Rational
           /\ R(At(s, First(KnownAt(s, m)))) # Zero
<1> DEFINE K == KnownAt(s, m)
<1>1. K \in SUBSET (1 .. m) /\ K \in SUBSET Nat /\ K # {} /\ m \in Int
    BY KnownIs
<1>2. ASSUME NEW k \in K PROVE R(At(s, k)) \in Rational /\ R(At(s, k)) # Zero
    <2>1. k \in 1 .. m /\ At(s, k) # None /\ k \in Int
        BY <1>1 DEF KnownAt
    <2>2. DateBar(k) \in Int /\ DateBar(k) <= Len(prints)
        BY <2>1, DateBars
    <2>3. At(s, k) \in Nat \ {0}
        BY <2>1, <2>2, CloseType DEF At
    <2> QED BY <2>3, CloseIsPositive
<1>3. MarkOf(s, m) = R(At(s, Newest(K)))
    BY DEF MarkOf
<1> HIDE DEF K
<1>4. Newest(K) \in K /\ First(K) \in K
    BY <1>1, GreatestNumber, FirstIs
<1> QED BY <1>2, <1>3, <1>4 DEF K

\* Buying at the first price that was sampled, then following the price.
LEMMA ShareFollows ==
    ASSUME NEW f \in Rational, f # Zero, NEW mark \in Rational, mark # Zero,
           NEW today \in Rational, NEW kept \in Rational, NEW n \in Rational, n # Zero
    PROVE  /\ (One // n) ** kept = ((today // today) ** kept) // n \/ today = Zero
           /\ (((mark // f) ** kept) // n) ** (today // mark) = ((today // f) ** kept) // n
<1>1. (One // n) ** kept = (One ** kept) // n
    BY Constants, QuotientScales
<1>2. today # Zero => today // today = One
    BY SelfQuotient
<1> DEFINE x == mark // f
           y == today // mark
           z == today // f
<1>3. x \in Rational /\ y \in Rational /\ z \in Rational /\ x ** y = z
    BY Quotient, QuotientChain
<1> HIDE DEF x, y, z
<1>4. x ** kept \in Rational
    BY <1>3, ProductType
<1>5. ((x ** kept) // n) ** y = ((x ** kept) ** y) // n
    BY <1>3, <1>4, QuotientScales
<1>6. (x ** kept) ** y = (x ** y) ** kept
    BY <1>3, SwapFactors
<1> QED BY <1>1, <1>2, <1>3, <1>5, <1>6 DEF x, y, z

LEMMA Parts ==
    /\ R(Cardinality(Symbols)) \in Rational /\ R(Cardinality(Symbols)) # Zero
    /\ One // R(Cardinality(Symbols)) = Q(1, Cardinality(Symbols))
<1> DEFINE N == Cardinality(Symbols)
<1>1. N \in Nat \ {0} /\ 1 \in Nat \ {0}
    BY PortfolioAssumption, FS_CardinalityType, FS_EmptySet
<1> HIDE DEF N
<1>2. /\ R(N) \in Rational /\ R(N) # Zero /\ Q(1, N) \in Rational /\ R(N) ** Q(1, N) = R(1)
    BY <1>1, CloseIsPositive
<1>3. Q(1, N) ** R(N) = One
    BY <1>2, ProductCommutes DEF One
<1>4. One // R(N) = Q(1, N)
    BY <1>2, <1>3, QuotientIs, Constants
<1> QED BY <1>2, <1>4 DEF N

\* One date more is one date more of marks and of shares.
LEMMA MarksFollow ==
    ASSUME Types, NEW m \in Nat, NEW s \in Symbols,
           \A k \in 1 .. m + 1 : DateBar(k) <= Len(prints), DateBar(m + 1) = Len(prints),
           ledger.mark[s] = MarkOf(s, m), ledger.passive[s] = ShareOf(s, m)
    PROVE  Today[s] = MarkOf(s, m + 1) /\ Passive(Today)[s] = ShareOf(s, m + 1)
<1> DEFINE K == KnownAt(s, m)
           K1 == KnownAt(s, m + 1)
           kept == Power(One -- CostRate, 2)
           N == R(Cardinality(Symbols))
           mark == ledger.mark[s]
           share == ledger.passive[s]
           close == At(s, m + 1)
           today == Today[s]
<1>1. close = CloseAt(s, Len(prints)) /\ close \in (Nat \ {0}) \cup {None}
    <2>1. Len(prints) \in Int /\ Len(prints) <= Len(prints)
        BY DEF Types
    <2> QED BY <2>1, CloseType DEF At
<1>2. today = IF close = None THEN mark ELSE R(close)
    BY <1>1 DEF Today, Marks
<1>3. Passive(Today)[s] = IF today = Zero THEN share
                          ELSE IF mark = Zero THEN share ** kept
                          ELSE share ** (today // mark)
    BY DEF Passive
<1>4. /\ mark \in Rational /\ share \in Rational /\ kept \in Rational
      /\ N \in Rational /\ N # Zero
    BY KeptIs, Parts DEF Types, Numbers
<1>5. /\ K \in SUBSET Nat /\ K \in SUBSET (1 .. m)
      /\ (K = {} => mark = Zero /\ share = One // N)
      /\ (K # {} => /\ mark = R(At(s, Newest(K)))
                    /\ share = ((mark // R(At(s, First(K)))) ** kept) // N)
    BY KnownIs DEF MarkOf, ShareOf
<1>6. \A k \in 1 .. m : DateBar(k) <= Len(prints)
    OBVIOUS
<1>7. K # {} => mark # Zero /\ R(At(s, First(K))) \in Rational /\ R(At(s, First(K))) # Zero
    BY <1>6, KnownPrices
<1>8. CASE close = None
    <2>1. K1 = K /\ today = mark
        BY <1>2, <1>8, KnownIs
    <2>2. MarkOf(s, m + 1) = mark /\ ShareOf(s, m + 1) = share
        BY <2>1 DEF MarkOf, ShareOf
    <2>3. mark # Zero => share ** (mark // mark) = share
        BY <1>4, SelfQuotient, Neutral
    <2> QED BY <1>3, <2>1, <2>2, <2>3
<1>9. CASE close # None
    <2>1. /\ K1 = K \cup {m + 1} /\ Newest(K1) = m + 1 /\ MarkOf(s, m + 1) = R(close)
        BY <1>9, KnownIs
    <2>2. today = R(close) /\ today \in Rational /\ today # Zero
        BY <1>1, <1>2, <1>9, CloseIsPositive
    <2>3. K1 # {}
        BY <2>1
    <2>4. ShareOf(s, m + 1) = ((today // R(At(s, First(K1)))) ** kept) // N
        BY <2>1, <2>2, <2>3 DEF ShareOf
    <2>5. CASE K = {}
        <3>1. K1 = {m + 1} /\ {m + 1} \in SUBSET Nat
            BY <2>1, <2>5
        <3>2. First(K1) = m + 1
            <4>1. First({m + 1}) \in {m + 1}
                BY <3>1, FirstIs
            <4> QED BY <3>1, <4>1
        <3>3. ShareOf(s, m + 1) = ((today // today) ** kept) // N
            BY <2>2, <2>4, <3>2
        <3> HIDE DEF K, K1, kept, N, mark, share, today
        <3>4. (One // N) ** kept = ((today // today) ** kept) // N
            BY <1>4, <2>2, ShareFollows
        <3> QED BY <1>3, <1>5, <2>1, <2>2, <2>5, <3>3, <3>4 DEF today
    <2>6. CASE K # {}
        <3>1. First(K1) = First(K)
            <4> HIDE DEF K, K1
            <4>1. First(K) \in K /\ \A k \in K : First(K) <= k
                BY <1>5, <2>6, FirstIs
            <4>2. K1 \in SUBSET Nat
                BY <1>5, <2>1
            <4>3. First(K1) \in K1 /\ \A k \in K1 : First(K1) <= k
                BY <2>3, <4>2, FirstIs
            <4>4. First(K) \in 1 .. m /\ First(K) \in K1
                BY <1>5, <2>1, <4>1
            <4>5. First(K1) \in Nat /\ First(K1) <= First(K) /\ First(K) \in Nat
                BY <1>5, <4>1, <4>2, <4>3, <4>4
            <4>6. First(K1) # m + 1
                BY <4>4, <4>5
            <4>7. First(K1) \in K
                BY <2>1, <4>3, <4>6
            <4>8. First(K) <= First(K1)
                BY <4>1, <4>7
            <4> QED BY <4>5, <4>8
        <3> DEFINE f == R(At(s, First(K)))
        <3>2. f \in Rational /\ f # Zero /\ mark # Zero
            BY <1>7, <2>6
        <3>3. share = ((mark // f) ** kept) // N
              /\ ShareOf(s, m + 1) = ((today // f) ** kept) // N
            BY <1>5, <2>4, <2>6, <3>1
        <3> HIDE DEF K, K1, kept, N, mark, share, today, f
        <3>4. (((mark // f) ** kept) // N) ** (today // mark) = ((today // f) ** kept) // N
            BY <1>4, <2>2, <3>2, ShareFollows
        <3> QED BY <1>3, <2>1, <2>2, <3>2, <3>3, <3>4 DEF today
    <2> QED BY <2>5, <2>6
<1> QED BY <1>8, <1>9

\* What was sampled up to a date stays.
LEMMA MarksStay ==
    ASSUME Types, UNCHANGED rule, prints' = prints \/ \E p : prints' = Append(prints, p),
           NEW m \in Nat, \A k \in 1 .. m : DateBar(k) <= Len(prints), NEW s \in Symbols
    PROVE  MarkOf(s, m)' = MarkOf(s, m) /\ ShareOf(s, m)' = ShareOf(s, m)
<1>1. \A k \in 1 .. m : At(s, k)' = At(s, k)
    BY AtStays
<1>2. KnownAt(s, m)' = KnownAt(s, m)
    BY <1>1 DEF KnownAt
<1>3. KnownAt(s, m) # {} => Newest(KnownAt(s, m)) \in 1 .. m
                            /\ First(KnownAt(s, m)) \in 1 .. m
    <2>1. KnownAt(s, m) \in SUBSET (1 .. m) /\ KnownAt(s, m) \in SUBSET Nat /\ m \in Int
        BY KnownIs
    <2>2. KnownAt(s, m) # {} => Newest(KnownAt(s, m)) \in KnownAt(s, m)
                                /\ First(KnownAt(s, m)) \in KnownAt(s, m)
        BY <2>1, GreatestNumber, FirstIs
    <2> QED BY <2>1, <2>2
<1>4. KnownAt(s, m) # {} =>
        /\ At(s, Newest(KnownAt(s, m)))' = At(s, Newest(KnownAt(s, m)))
        /\ At(s, First(KnownAt(s, m)))' = At(s, First(KnownAt(s, m)))
    <2>1. ASSUME KnownAt(s, m) # {}, NEW k \in 1 .. m, k = Newest(KnownAt(s, m))
          PROVE  At(s, Newest(KnownAt(s, m)))' = At(s, k)'
        BY <1>2, <2>1 DEF At, DateBar
    <2>2. ASSUME KnownAt(s, m) # {}, NEW k \in 1 .. m, k = First(KnownAt(s, m))
          PROVE  At(s, First(KnownAt(s, m)))' = At(s, k)'
        BY <1>2, <2>2 DEF At, DateBar
    <2> QED BY <1>1, <1>3, <2>1, <2>2
<1>5. MarkOf(s, m)' = MarkOf(s, m)
    BY <1>2, <1>4 DEF MarkOf
<1> QED BY <1>2, <1>4, <1>5 DEF ShareOf

LEMMA DateBarsRise ==
    ASSUME Types
    PROVE  /\ \A k \in Nat : DateBar(k) \in Int
           /\ \A k \in Nat : DateBar(k) < DateBar(k + 1)
<1>1. ASSUME NEW k \in Nat PROVE DateBar(k) \in Int /\ DateBar(k) < DateBar(k + 1)
    <2>1. k \in Int
        OBVIOUS
    <2> QED BY <2>1, DateBars
<1> QED BY <1>1

LEMMA DatesInOrder ==
    ASSUME Types, NEW m \in Nat, NEW k \in 1 .. m
    PROVE  DateBar(k) <= DateBar(m)
<1> DEFINE e == rule.every
<1>1. e \in Nat \ {0} /\ k \in Int /\ m \in Int /\ k - 1 <= m - 1
    BY RuleIs DEF IsRule
<1> HIDE DEF e
<1>2. (k - 1) * e <= (m - 1) * e
    BY <1>1
<1> QED BY <1>1, <1>2 DEF DateBar, e

\* The dates whose closes the marks have seen are over.
LEMMA DatesPassed ==
    ASSUME Types, Calendar
    PROVE  /\ Marked \in Nat /\ \A k \in 1 .. Marked : DateBar(k) <= Len(prints)
           /\ phase # "bars" => \A k \in 1 .. Len(chosen) + 1 : DateBar(k) <= Len(prints)
<1> DEFINE n == Len(chosen)
<1>1. n \in Nat /\ Len(prints) \in Nat /\ Marked \in Nat
    BY DEF Types, Marked
<1>2. ASSUME phase # "bars", NEW k \in 1 .. n + 1 PROVE DateBar(k) <= Len(prints)
    <2>1. Len(prints) = DateBar(n + 1) /\ n + 1 \in Nat
        BY <1>1, <1>2 DEF Calendar
    <2> HIDE DEF n
    <2>2. DateBar(k) <= DateBar(n + 1)
        BY <1>2, <2>1, DatesInOrder
    <2> QED BY <2>1, <2>2
<1>3. ASSUME phase = "bars", NEW k \in 1 .. Marked PROVE DateBar(k) <= Len(prints)
    <2>1. Marked = n /\ chosen # <<>>
        BY <1>1, <1>3 DEF Marked
    <2>2. DateBar(n) <= Len(prints)
        BY <1>3, <2>1 DEF Calendar
    <2>3. k \in 1 .. n /\ k \in Int
        BY <1>1, <1>3, <2>1
    <2> HIDE DEF n
    <2>4. DateBar(k) <= DateBar(n)
        BY <1>1, <2>3, DatesInOrder
    <2>5. DateBar(k) \in Int /\ DateBar(n) \in Int
        <3>1. k \in Nat
            BY <1>1, <2>3
        <3> QED BY <1>1, <3>1, DateBarsRise
    <2> QED BY <1>1, <2>2, <2>4, <2>5
<1>4. phase # "bars" => 1 .. Marked \subseteq 1 .. n + 1
    BY <1>1 DEF Marked
<1> QED BY <1>1, <1>2, <1>3, <1>4

LEMMA InitBuyAndHold == Init => BuyAndHold
<1> SUFFICES ASSUME Init PROVE BuyAndHold
    OBVIOUS
<1>1. /\ Marked = 0 /\ ledger.mark = Nothing
      /\ ledger.passive = [s \in Symbols |-> Q(1, Cardinality(Symbols))]
    BY DEF Init, Marked
<1>2. \A s \in Symbols : KnownAt(s, 0) = {}
    BY DEF KnownAt
<1>3. \A s \in Symbols : MarkOf(s, 0) = Zero /\ ShareOf(s, 0) = Q(1, Cardinality(Symbols))
    BY <1>2, Parts DEF MarkOf, ShareOf
<1> QED BY <1>1, <1>3 DEF BuyAndHold, Nothing

LEMMA BuyAndHoldStep == Types /\ Calendar /\ BuyAndHold /\ [Next]_vars => BuyAndHold'
<1> SUFFICES ASSUME Types, Calendar, BuyAndHold, [Next]_vars PROVE BuyAndHold'
    OBVIOUS
<1> DEFINE n == Len(chosen)
<1>1. PICK m \in Nat :
          /\ m = Marked
          /\ \A s \in Symbols :
                 ledger.mark[s] = MarkOf(s, m) /\ ledger.passive[s] = ShareOf(s, m)
    BY DEF BuyAndHold
<1>2. n \in Nat /\ (chosen = <<>> => n = 0) /\ \A k \in 1 .. m : DateBar(k) <= Len(prints)
    <2>1. \A k \in 1 .. m : DateBar(k) <= Len(prints)
        BY <1>1, DatesPassed
    <2> QED BY <2>1 DEF Types
<1>3. ASSUME NEW p \in Row, Bar(p) PROVE BuyAndHold'
    <2>1. /\ phase = "bars" /\ UNCHANGED <<rule, book, scaled, chosen, ledger>>
          /\ prints' = Append(prints, p)
        BY <1>3 DEF Bar
    <2>2. phase' = "trade" => chosen = <<>>
        BY <1>3, BarIs
    <2>3. m = Marked'
        BY <1>1, <2>1, <2>2 DEF Marked
    <2>4. \A s \in Symbols : MarkOf(s, m)' = MarkOf(s, m) /\ ShareOf(s, m)' = ShareOf(s, m)
        BY <1>2, <2>1, MarksStay
    <2> QED BY <1>1, <2>1, <2>3, <2>4 DEF BuyAndHold
<1>4. ASSUME phase # "bars", UNCHANGED <<rule, prints>>, m = n, m + 1 = Marked',
             ledger'.mark = Today, ledger'.passive = Passive(Today)
      PROVE  BuyAndHold'
    <2>1. /\ DateBar(m + 1) = Len(prints) /\ m + 1 \in Nat
          /\ \A k \in 1 .. m + 1 : DateBar(k) <= Len(prints)
        BY <1>4, DatesPassed, PeriodIs
    <2>2. ASSUME NEW s \in Symbols
          PROVE  Today[s] = MarkOf(s, m + 1) /\ Passive(Today)[s] = ShareOf(s, m + 1)
        BY <1>1, <2>1, MarksFollow
    <2>3. PICK k \in Nat : k = m + 1
        BY <2>1
    <2>4. \A s \in Symbols : MarkOf(s, k)' = MarkOf(s, k) /\ ShareOf(s, k)' = ShareOf(s, k)
        BY <1>4, <2>1, <2>3, MarksStay
    <2>5. \A s \in Symbols :
              ledger'.mark[s] = MarkOf(s, k)' /\ ledger'.passive[s] = ShareOf(s, k)'
        BY <1>4, <2>2, <2>3, <2>4
    <2> QED BY <1>4, <2>3, <2>5 DEF BuyAndHold
<1>5. CASE Earn
    <2>1. /\ phase = "earn" /\ phase' = "trade" /\ UNCHANGED <<rule, prints, chosen>>
          /\ ledger'.mark = Today /\ ledger'.passive = Passive(Today)
        BY <1>5, EarnIs DEF Today
    <2>2. chosen # <<>> /\ m = n /\ m + 1 = Marked'
        BY <1>1, <2>1 DEF Marked, Calendar
    <2> QED BY <1>4, <2>1, <2>2
<1>6. CASE Rebalance
    <2>1. /\ phase = "trade" /\ phase' = "bars" /\ UNCHANGED <<rule, prints>>
          /\ chosen' = Append(chosen, Choice) /\ ledger'.mark = Today
          /\ ledger'.passive = IF chosen = <<>> THEN Passive(Today) ELSE ledger.passive
        BY <1>6, RebalanceIs
    <2>2. Marked' = n + 1
        BY <2>1 DEF Marked, Types
    <2>3. CASE chosen = <<>>
        <3>1. m = n
            BY <1>1, <2>3 DEF Marked
        <3> QED BY <1>4, <2>1, <2>2, <2>3, <3>1
    <2>4. CASE chosen # <<>>
        <3>1. m = n + 1
            BY <1>1, <2>1, <2>4 DEF Marked
        <3>2. ASSUME NEW s \in Symbols PROVE Today[s] = ledger.mark[s]
            <4>1. n \in Nat /\ At(s, n + 1) = CloseAt(s, Len(prints))
                BY <1>2, <2>1, PeriodIs DEF At
            <4>2. At(s, n + 1) # None => MarkOf(s, n + 1) = R(At(s, n + 1))
                BY <1>2, KnownIs
            <4> QED BY <1>1, <3>1, <4>1, <4>2 DEF Today, Marks
        <3>3. \A s \in Symbols : MarkOf(s, m)' = MarkOf(s, m) /\ ShareOf(s, m)' = ShareOf(s, m)
            BY <1>2, <2>1, MarksStay
        <3> QED BY <1>1, <2>1, <2>2, <2>4, <3>1, <3>2, <3>3 DEF BuyAndHold
    <2> QED BY <2>3, <2>4
<1>7. CASE UNCHANGED vars
    <2>1. Marked' = Marked
        BY <1>7 DEF Marked, vars
    <2>2. \A s \in Symbols : MarkOf(s, m)' = MarkOf(s, m) /\ ShareOf(s, m)' = ShareOf(s, m)
        BY <1>2, <1>7, MarksStay DEF vars
    <2> QED BY <1>1, <1>7, <2>1, <2>2 DEF BuyAndHold, vars
<1> QED BY <1>3, <1>5, <1>6, <1>7 DEF Next, Row

\* The benchmark computed anew is what these shares add up to.
LEMMA BenchmarkIs ==
    ASSUME Types, Calendar, BuyAndHold
    PROVE  BenchmarkIsBuyAndHold
<1> SUFFICES ASSUME chosen # <<>>, phase # "earn" PROVE Benchmark = Total(ledger.passive)
    BY DEF BenchmarkIsBuyAndHold
<1> DEFINE n == Len(chosen)
           e == rule.every
           x == Len(prints) - 1
<1>1. PICK m \in Nat :
          /\ m = Marked
          /\ \A s \in Symbols :
                 ledger.mark[s] = MarkOf(s, m) /\ ledger.passive[s] = ShareOf(s, m)
    BY DEF BuyAndHold
<1>2. n \in Nat /\ n > 0 /\ e \in Nat \ {0} /\ Len(prints) \in Nat
    <2>1. n \in Nat /\ n # 0 /\ Len(prints) \in Nat
        BY DEF Types
    <2> QED BY <2>1, RuleIs DEF IsRule
<1>3. Dates = m
    <2>1. m \in Int /\ DateBar(m) = 1 + (m - 1) * e /\ DateBar(m + 1) = 1 + m * e
        BY DateBars
    <2>2. DateBar(m) <= Len(prints) /\ Len(prints) < DateBar(m + 1)
        <3>1. CASE phase = "bars"
            BY <1>1, <3>1 DEF Marked, Calendar
        <3>2. CASE phase = "trade"
            <4>1. m = n + 1 /\ Len(prints) = DateBar(m)
                BY <1>1, <3>2 DEF Marked, Calendar
            <4>2. DateBar(m) < DateBar(m + 1) /\ DateBar(m) \in Int
                BY DateBarsRise
            <4> QED BY <1>2, <4>1, <4>2
        <3> QED BY <3>1, <3>2 DEF Types
    <2>3. prints # <<>>
        <3>1. m >= 1 /\ DateBar(m) >= m
            <4>1. m >= 1 /\ m \in Int
                BY <1>1, <1>2 DEF Marked
            <4> QED BY <4>1, DateBars
        <3>2. DateBar(m) \in Int
            BY DateBars
        <3>3. Len(prints) >= 1
            BY <1>2, <2>2, <3>1, <3>2
        <3> QED BY <3>3
    <2>4. Dates = 1 + x \div e
        BY <2>3 DEF Dates
    <2> HIDE DEF e, x
    <2>5. /\ m - 1 \in Int /\ x \in Int /\ (m - 1) * e <= x /\ x < ((m - 1) + 1) * e
        BY <1>2, <2>1, <2>2 DEF x
    <2>6. x \div e = m - 1
        BY <1>2, <2>5, Between
    <2> QED BY <2>4, <2>6
<1>4. \A s \in Symbols : Sampled(s) = KnownAt(s, m)
    BY <1>3 DEF Sampled, KnownAt, At
<1>5. ASSUME NEW s \in Symbols
      PROVE  ((IF Sampled(s) = {} THEN One
               ELSE (Latest(s) // R(CloseAt(s, DateBar(First(Sampled(s))))))
                      ** Power(One -- CostRate, 2)) // R(Cardinality(Symbols)))
             = ledger.passive[s]
    <2>1. ledger.passive[s] = ShareOf(s, m)
        BY <1>1
    <2>2. KnownAt(s, m) # {} => Latest(s) = MarkOf(s, m)
        BY <1>4 DEF Latest, MarkOf, At
    <2> QED BY <1>4, <2>1, <2>2 DEF ShareOf, At
<1>6. Benchmark = Total([s \in Symbols |-> ledger.passive[s]])
    BY <1>5 DEF Benchmark
<1>7. ledger.passive = [s \in Symbols |-> ledger.passive[s]]
    BY DEF Types, Numbers
<1> QED BY <1>6, <1>7

-----------------------------------------------------------------------------
(* What is held *)

\* Choosing reads the rule and what was printed, nothing else.
LEMMA SelectStays ==
    ASSUME UNCHANGED <<rule, prints>>, NEW b \in Nat
    PROVE  Select(b)' = Select(b)
<1>1. ASSUME NEW s PROVE Momentum(s, b)' = Momentum(s, b)
    BY DEF Momentum, CloseAt, Printed
<1>2. ASSUME NEW s PROVE GateOk(s, b)' <=> GateOk(s, b)
    <2>1. Printed(s, b)' = Printed(s, b) /\ CloseAt(s, b)' = CloseAt(s, b)
        BY DEF CloseAt, Printed
    <2> QED BY <2>1 DEF GateOk
<1>3. ASSUME NEW s, NEW t PROVE Stronger(s, t, b)' <=> Stronger(s, t, b)
    BY <1>1 DEF Stronger
<1>4. Candidates(b)' = Candidates(b)
    BY <1>1, <1>2 DEF Candidates
<1>5. ASSUME NEW n PROVE SliceSize(n)' = SliceSize(n)
    BY DEF SliceSize
<1>6. Slice(b)' = Slice(b) /\ Weakest(b)' = Weakest(b)
    BY <1>3, <1>4 DEF Slice, Weakest, SliceSize
<1>7. [s \in Candidates(b) |-> Momentum(s, b)]' = [s \in Candidates(b) |-> Momentum(s, b)]
    BY <1>1, <1>4
<1> QED BY <1>6, <1>7 DEF Select

LEMMA RangeGrows ==
    ASSUME NEW S, NEW q \in Seq(S), NEW x \in S
    PROVE  /\ Range(Append(q, x)) = Range(q) \cup {x} /\ Last(Append(q, x)) = x
           /\ Append(q, x) # <<>>
<1> DEFINE r == Append(q, x)
<1>1. /\ Len(q) \in Nat /\ r \in Seq(S) /\ Len(r) = Len(q) + 1 /\ r[Len(q) + 1] = x
      /\ \A i \in 1 .. Len(q) : r[i] = q[i]
    OBVIOUS
<1>2. Len(q) + 1 \in 1 .. Len(r) /\ 1 .. Len(q) \subseteq 1 .. Len(r)
    BY <1>1
<1>3. DOMAIN q = 1 .. Len(q) /\ DOMAIN r = 1 .. Len(r)
    BY <1>1
<1>4. 1 .. Len(r) = (1 .. Len(q)) \cup {Len(q) + 1}
    BY <1>1
<1> HIDE DEF r
<1>5. Range(r) = Range(q) \cup {x}
    BY <1>1, <1>3, <1>4 DEF Range
<1>6. Last(r) = x /\ r # <<>>
    BY <1>1 DEF Last
<1> QED BY <1>5, <1>6 DEF r

LEMMA InitWellChosen == Init => WellChosen
<1> SUFFICES ASSUME Init PROVE WellChosen
    OBVIOUS
<1>1. chosen = <<>> /\ scaled.scale = One /\ Range(<<>>) = {}
    BY DEF Init, Range
<1>2. Zero \preceq One /\ One \preceq One
    BY Constants, Ordered, Signs
<1> QED BY <1>1, <1>2 DEF WellChosen, Decided

LEMMA WellChosenStep == Types /\ Calendar /\ WellChosen /\ [Next]_vars => WellChosen'
<1> SUFFICES ASSUME Types, Calendar, WellChosen, [Next]_vars PROVE WellChosen'
    OBVIOUS
<1>1. ASSUME NEW p \in Row, Bar(p) PROVE WellChosen'
    <2>1. /\ phase = "bars" /\ UNCHANGED <<rule, book, scaled, chosen, ledger>>
        BY <1>1 DEF Bar
    <2>2. /\ Len(prints') = Len(prints) + 1
          /\ phase' = "bars" => ~IsDate(Len(prints) + 1)
        BY <1>1, BarIs
    <2>3. ~Decided'
        BY <2>1, <2>2 DEF Decided, IsDate
    <2> QED BY <2>1, <2>3 DEF WellChosen
<1>2. CASE Earn
    <2>1. /\ phase' = "trade" /\ UNCHANGED <<rule, prints, chosen>>
          /\ scaled'.scale = scaled.scale
        BY <1>2, EarnIs
    <2> QED BY <2>1 DEF WellChosen, Decided
<1>3. CASE Rebalance
    <2>1. /\ phase' = "bars" /\ UNCHANGED <<rule, prints>>
          /\ chosen' = Append(chosen, Choice) /\ book'.weights = Targets
          /\ scaled'.scale = Scale(scaled.returns) /\ scaled'.returns = scaled.returns
        BY <1>3, RebalanceIs
    <2>2. /\ Choice \in Pick /\ Choice.longs \cap Choice.shorts = {}
          /\ Zero \preceq scaled'.scale /\ scaled'.scale \preceq One
        BY <2>1, TargetsAre
    <2>3. /\ Range(chosen') = Range(chosen) \cup {Choice} /\ Last(chosen') = Choice
        <3>1. chosen \in Seq(Pick)
            BY DEF Types, Pick
        <3> QED BY <2>1, <2>2, <3>1, RangeGrows
    <2>4. rule.vol # None /\ Len(scaled.returns) >= 2 => scaled'.scale \preceq rule.vol.cap
        <3>1. scaled.returns \in Seq(Rational) /\ Len(scaled.returns) \in Nat
            BY DEF Types
        <3>2. Scale(scaled.returns) \preceq
                (IF rule.vol = None \/ Len(scaled.returns) < 2 THEN One ELSE rule.vol.cap)
            BY <3>1, ScaleIs
        <3> QED BY <2>1, <3>1, <3>2
    <2>5. PICK b \in Nat : b = Len(prints)
        BY DEF Types
    <2>6. b = Len(prints') /\ Last(chosen') = Select(b)'
        <3>1. Select(b)' = Select(b)
            BY <2>1, SelectStays
        <3> QED BY <2>1, <2>3, <2>5, <3>1 DEF Choice
    <2>7. \A c \in Range(chosen') : c.longs \cap c.shorts = {}
        BY <2>2, <2>3 DEF WellChosen
    <2>8. book'.weights = Sized(Unscaled(Last(chosen')), scaled'.scale)
        BY <2>1, <2>3 DEF Targets
    <2> QED BY <2>1, <2>2, <2>4, <2>6, <2>7, <2>8 DEF WellChosen
<1>4. CASE UNCHANGED vars
    <2>1. Decided' <=> Decided
        BY <1>4 DEF Decided, IsDate, vars
    <2>2. \A b \in Nat : Select(b)' = Select(b)
        BY <1>4, SelectStays DEF vars
    <2> QED BY <1>4, <2>1, <2>2 DEF WellChosen, vars
<1> QED BY <1>1, <1>2, <1>3, <1>4 DEF Next, Row

\* What was selected on a date printed lately, and its longs outrank its shorts.
LEMMA ChosenIsSound ==
    ASSUME Types, WellChosen
    PROVE  StaleIsOut /\ LongsOutrankShorts /\ GrossIsCapped
<1>1. ASSUME Decided
      PROVE  /\ Last(chosen) = Select(Len(prints)) /\ chosen # <<>> /\ phase = "bars"
             /\ Len(prints) \in Int /\ Len(prints) <= Len(prints)
    BY <1>1 DEF WellChosen, Decided, Types
<1>2. StaleIsOut
    <2> SUFFICES ASSUME Decided, NEW s \in Held
                 PROVE  Fresh(s, Len(prints)) /\ Fresh(s, Len(prints) - rule.lookback)
        BY DEF StaleIsOut
    <2>1. s \in Candidates(Len(prints))
        <3>1. Held = Select(Len(prints)).longs \cup Select(Len(prints)).shorts
            BY <1>1 DEF Held
        <3> QED BY <1>1, <3>1, SelectIs
    <2> QED BY <1>1, <2>1, CandidateIs
<1>3. LongsOutrankShorts
    <2> SUFFICES ASSUME Decided, NEW l \in Last(chosen).longs, NEW s \in Last(chosen).shorts
                 PROVE  l # s /\ Momentum(s, Len(prints)) \preceq Momentum(l, Len(prints))
        BY DEF LongsOutrankShorts
    <2> DEFINE b == Len(prints)
    <2>1. b \in Int /\ b <= Len(prints) /\ l \in Select(b).longs /\ s \in Select(b).shorts
        BY <1>1
    <2> QED BY <2>1, SelectIs
<1>4. GrossIsCapped
    <2> SUFFICES ASSUME Decided
                 PROVE  Total([s \in Symbols |-> Abs(book.weights[s])]) \preceq
                          (IF rule.vol = None \/ Len(scaled.returns) < 2 THEN One
                           ELSE rule.vol.cap)
        BY DEF GrossIsCapped
    <2> DEFINE pick == Last(chosen)
               sc == scaled.scale
               gross == Total([s \in Symbols |-> Abs(book.weights[s])])
    <2>1. /\ pick \in [longs : SUBSET Symbols, shorts : SUBSET Symbols]
          /\ pick.longs \cap pick.shorts = {}
        BY <1>1, LastPick DEF WellChosen, Pick
    <2>2. /\ sc \in Rational /\ Zero \preceq sc /\ sc \preceq One
          /\ book.weights = Sized(Unscaled(pick), sc)
          /\ rule.vol # None /\ Len(scaled.returns) >= 2 => sc \preceq rule.vol.cap
        BY <1>1 DEF WellChosen, Types
    <2>3. gross \preceq sc /\ gross \in Rational
        <3> DEFINE size == [s \in Symbols |-> Abs(Sized(Unscaled(pick), sc)[s])]
        <3>1. gross = Total(size)
            BY <2>2
        <3> HIDE DEF pick, sc
        <3>2. size \in Numbers /\ Total(size) \preceq sc
            BY <2>1, <2>2, SizedIs
        <3> QED BY <3>1, <3>2, Totals
    <2>4. rule.vol # None => rule.vol.cap \in Rational
        BY RuleIs DEF IsRule, IsVol
    <2>5. Len(scaled.returns) \in Nat
        BY DEF Types
    <2> HIDE DEF gross, sc
    <2>6. gross \preceq One
        BY <2>2, <2>3, OrderedSteps, Constants
    <2>7. ASSUME ~(rule.vol = None \/ Len(scaled.returns) < 2) PROVE gross \preceq rule.vol.cap
        BY <2>2, <2>3, <2>4, <2>5, <2>7, OrderedSteps
    <2> QED BY <2>6, <2>7 DEF gross
<1> QED BY <1>2, <1>3, <1>4

-----------------------------------------------------------------------------
(* What was dropped *)

LEMMA InitDropping == Init => Dropping
<1> SUFFICES ASSUME Init PROVE Dropping
    OBVIOUS
<1>1. book.dropped = 0 /\ scaled.returns = <<>> /\ Len(scaled.returns) = 0
    BY DEF Init
<1>2. Cardinality(Symbols) \in Nat
    BY PortfolioAssumption, FS_CardinalityType
<1>3. Cardinality(Symbols) * 0 = 0
    BY <1>2
<1> QED BY <1>1, <1>3 DEF Dropping

LEMMA DroppingStep == Types /\ Calendar /\ Dropping /\ [Next]_vars => Dropping'
<1> SUFFICES ASSUME Types, Calendar, Dropping, [Next]_vars PROVE Dropping'
    OBVIOUS
<1> DEFINE n == Len(chosen)
           N == Cardinality(Symbols)
           len == Len(scaled.returns)
           Side(c) == c.longs \cup c.shorts
<1>1. N \in Nat /\ n \in Nat /\ len \in Nat /\ book.dropped \in Nat
    BY PortfolioAssumption, FS_CardinalityType DEF Types
<1>2. len = IF phase = "trade" \/ chosen = <<>> THEN n ELSE n - 1
    BY DEF Calendar
<1>3. ASSUME NEW j \in 1 .. len, chosen[j] \in Pick, NEW s \in Side(chosen[j]),
             UNCHANGED rule, prints' = prints \/ \E p : prints' = Append(prints, p)
      PROVE  At(s, j + 1)' = At(s, j + 1)
    <2>1. j + 1 \in 1 .. Marked
        BY <1>1, <1>2 DEF Marked
    <2>2. DateBar(j + 1) <= Len(prints)
        BY <2>1, DatesPassed
    <2>3. s \in Symbols
        BY <1>3 DEF Pick
    <2>4. PICK k \in Int : k = j + 1
        BY <1>1
    <2>5. At(s, k)' = At(s, k)
        BY <1>3, <2>2, <2>3, <2>4, AtStays
    <2> QED BY <2>4, <2>5
<1>4. ASSUME NEW j \in 1 .. n PROVE chosen[j] \in Pick
    <2>1. chosen \in Seq(Pick)
        BY DEF Types, Pick
    <2> QED BY <2>1
<1>5. 1 .. len \subseteq 1 .. n
    BY <1>1, <1>2
<1>6. ASSUME UNCHANGED <<rule, book, scaled>>,
             prints' = prints \/ \E p : prints' = Append(prints, p),
             \A j \in 1 .. len : chosen'[j] = chosen[j]
      PROVE  Dropping'
    <2>1. \A j \in 1 .. len, s \in Symbols : s \in Side(chosen[j]) =>
              At(s, j + 1)' = At(s, j + 1)
        BY <1>3, <1>4, <1>5, <1>6
    <2>2. \A j \in 1 .. len : Side(chosen[j]) \subseteq Symbols
        BY <1>4, <1>5 DEF Pick
    <2> QED BY <1>6, <2>1, <2>2 DEF Dropping
<1>7. ASSUME NEW p \in Row, Bar(p) PROVE Dropping'
    BY <1>6, <1>7 DEF Bar
<1>8. CASE Earn
    <2> DEFINE gone == {s \in Held : CloseAt(s, Len(prints)) = None}
    <2>1. /\ phase = "earn" /\ UNCHANGED <<rule, prints, chosen>>
          /\ book'.dropped = book.dropped + Cardinality(gone)
          /\ \E x \in Rational : scaled'.returns = Append(scaled.returns, x)
        BY <1>8, EarnIs
    <2>2. chosen # <<>> /\ len = n - 1 /\ Len(scaled'.returns) = len + 1 /\ n > 0
        BY <1>1, <1>2, <2>1 DEF Calendar, Types
    <2>3. IsFiniteSet(gone) /\ Cardinality(gone) \in Nat /\ Cardinality(gone) <= N
        <3>1. Held \subseteq Symbols
            BY <2>2, LastPick DEF Held, Pick
        <3>2. gone \in SUBSET Symbols
            BY <3>1
        <3> HIDE DEF gone
        <3> QED BY <3>2, FS_Subset, FS_CardinalityType, PortfolioAssumption
    <2>4. book'.dropped <= N * Len(scaled'.returns)
        <3>1. book.dropped <= N * len
            BY DEF Dropping
        <3> DEFINE c == Cardinality(gone)
        <3>2. c \in Nat /\ c <= N /\ book'.dropped = book.dropped + c
            BY <2>1, <2>3
        <3> HIDE DEF c, N, len
        <3>3. N * (len + 1) = N * len + N
            BY <1>1
        <3>4. N * len \in Nat
            BY <1>1
        <3> QED BY <1>1, <2>2, <3>1, <3>2, <3>3, <3>4
    <2>5. ASSUME book'.dropped = 0, NEW j \in 1 .. Len(scaled'.returns),
                 NEW s \in Side(chosen'[j])
          PROVE  At(s, j + 1)' # None
        <3>1. book.dropped = 0 /\ Cardinality(gone) = 0
            BY <1>1, <2>1, <2>3, <2>5
        <3>2. gone = {}
            <4> HIDE DEF gone
            <4> QED BY <2>3, <3>1, FS_EmptySet
        <3>3. chosen'[j] = chosen[j] /\ j \in 1 .. n /\ chosen[j] \in Pick /\ j \in Int
            BY <1>1, <1>4, <2>1, <2>2
        <3>4. s \in Symbols
            BY <2>5, <3>3 DEF Pick
        <3>5. At(s, j + 1) # None
            <4>1. CASE j \in 1 .. len
                BY <2>5, <3>1, <3>3, <4>1 DEF Dropping
            <4>2. CASE j = n
                <5>1. s \in Held
                    BY <2>2, <2>5, <3>3, <4>2, LastPick DEF Held
                <5>2. Len(prints) = DateBar(n + 1)
                    BY <2>1, PeriodIs
                <5> QED BY <3>2, <4>2, <5>1, <5>2 DEF At
            <4> QED BY <1>1, <2>2, <3>3, <4>1, <4>2
        <3>6. DateBar(j + 1) <= Len(prints)
            <4>1. j + 1 \in 1 .. n + 1
                BY <1>1, <3>3
            <4> QED BY <2>1, <4>1, DatesPassed
        <3>7. PICK k \in Int : k = j + 1
            BY <3>3
        <3>8. At(s, k)' = At(s, k)
            BY <2>1, <3>4, <3>6, <3>7, AtStays
        <3> QED BY <3>5, <3>7, <3>8
    <2> QED BY <2>4, <2>5 DEF Dropping
<1>9. CASE Rebalance
    <2>1. /\ UNCHANGED <<rule, prints>> /\ chosen' = Append(chosen, Choice)
          /\ book'.dropped = book.dropped /\ scaled'.returns = scaled.returns
        BY <1>9, RebalanceIs
    <2>2. \A j \in 1 .. len : chosen'[j] = chosen[j]
        BY <1>1, <1>5, <2>1 DEF Types
    <2>3. \A j \in 1 .. len, s \in Symbols : s \in Side(chosen[j]) =>
              At(s, j + 1)' = At(s, j + 1)
        BY <1>3, <1>4, <1>5, <2>1
    <2>4. \A j \in 1 .. len : Side(chosen[j]) \subseteq Symbols
        BY <1>4, <1>5 DEF Pick
    <2> QED BY <2>1, <2>2, <2>3, <2>4 DEF Dropping
<1>10. CASE UNCHANGED vars
    BY <1>6, <1>10 DEF vars
<1> QED BY <1>7, <1>8, <1>9, <1>10 DEF Next, Row

\* The count of what was dropped, and the rest of the type invariant.
LEMMA TypesAreOK == Types /\ Calendar /\ WellChosen /\ Dropping => TypeOK
<1> SUFFICES ASSUME Types, Calendar, WellChosen, Dropping PROVE TypeOK
    OBVIOUS
<1> DEFINE n == Len(chosen)
           N == Cardinality(Symbols)
           len == Len(scaled.returns)
           bars == rule.bars
<1>1. N \in Nat /\ n \in Nat /\ len \in Nat /\ bars \in Nat /\ Len(prints) \in Nat
      /\ book.dropped \in Nat
    BY PortfolioAssumption, FS_CardinalityType, RuleIs DEF Types, IsRule
<1>2. len = (IF phase = "trade" \/ chosen = <<>> THEN n ELSE n - 1)
    BY DEF Calendar
<1>3. n <= Len(prints)
    <2>1. CASE phase = "bars" /\ chosen = <<>>
        BY <1>1, <2>1
    <2>2. CASE phase = "bars" /\ chosen # <<>>
        <3>1. DateBar(n) <= Len(prints) /\ n >= 1 /\ n \in Int
            BY <1>1, <2>2 DEF Calendar
        <3> HIDE DEF n
        <3>2. DateBar(n) >= n /\ DateBar(n) \in Int
            BY <3>1, DateBars
        <3> QED BY <1>1, <3>1, <3>2
    <2>3. CASE phase # "bars"
        <3>1. Len(prints) = DateBar(n + 1) /\ n + 1 >= 1 /\ n + 1 \in Int
            BY <1>1, <2>3 DEF Calendar
        <3> HIDE DEF n
        <3>2. DateBar(n + 1) >= n + 1 /\ DateBar(n + 1) \in Int
            BY <3>1, DateBars
        <3> QED BY <1>1, <3>1, <3>2
    <2> QED BY <2>1, <2>2, <2>3
<1>4. len <= bars
    BY <1>1, <1>2, <1>3 DEF Types
<1>5. book.dropped <= N * bars
    <2>1. book.dropped <= N * len
        BY DEF Dropping
    <2> HIDE DEF N, len, bars
    <2>2. N * len <= N * bars /\ N * len \in Nat /\ N * bars \in Nat
        BY <1>1, <1>4
    <2> QED BY <1>1, <2>1, <2>2
<1>6. book.dropped \in 0 .. N * bars
    <2> HIDE DEF N, bars
    <2>1. N * bars \in Nat
        BY <1>1
    <2> QED BY <1>1, <1>5, <2>1
<1>7. \A c \in Range(chosen) : c.longs \cup c.shorts \subseteq Symbols
    <2>1. chosen \in Seq(Pick)
        BY DEF Types, Pick
    <2>2. \A c \in Range(chosen) : c \in Pick
        BY <2>1 DEF Range
    <2> QED BY <2>2 DEF Pick
<1>8. len \in {n, n - 1} \cup {0}
    BY <1>1, <1>2
<1>9. book.alive \in BOOLEAN
    BY DEF Types
<1> QED BY <1>6, <1>7, <1>8, <1>9 DEF TypeOK, Types, WellChosen

-----------------------------------------------------------------------------
(* Without shorts *)

\* Exchanging all of the account for something else, two sides to pay for,
\* costs less than there is.
CheapTrades == CostRate \prec <<1, 2>>

\* The growth of a book that owes nothing.
LEMMA GrowsUp ==
    ASSUME NEW w \in Numbers, \A s \in Symbols : Zero \preceq w[s], Total(w) \preceq One,
           NEW r \in Numbers, \A s \in Symbols : Positive(r[s])
    PROVE  LET grown == [s \in Symbols |-> w[s] ** r[s]]
           IN  /\ Positive(Growth(w, r)) /\ Total(grown) \preceq Growth(w, r)
               /\ grown \in Numbers /\ \A s \in Symbols : Zero \preceq grown[s]
<1> DEFINE grown == [s \in Symbols |-> w[s] ** r[s]]
           g == Growth(w, r)
           rest == One -- Total(w)
           sum == Total(grown)
<1>1. g = rest ++ sum /\ g \in Rational /\ sum \in Rational
    BY GrowthIs
<1>2. Total(w) \in Rational
    BY Totals
<1>3. rest \in Rational /\ Zero \preceq rest /\ (Total(w) # One => Positive(rest))
    BY <1>2, Apart, Constants
<1>4. ASSUME NEW s \in Symbols
      PROVE  /\ grown[s] \in Rational /\ Zero \preceq grown[s]
             /\ w[s] # Zero => Positive(grown[s])
    <2>1. w[s] \in Rational /\ r[s] \in Rational /\ Zero \preceq w[s] /\ Positive(r[s])
        BY DEF Numbers
    <2>2. grown[s] \in Rational
        BY <2>1, ProductType
    <2>3. Zero \preceq r[s]
        BY <2>1, Signs, Constants, Ordered
    <2>4. Zero ** r[s] \preceq w[s] ** r[s]
        BY <2>1, <2>3, ProductOrder, Constants
    <2>5. Zero \preceq grown[s]
        BY <2>1, <2>4, Neutral
    <2>6. w[s] # Zero => Positive(w[s])
        BY <2>1, Signs, Constants, Ordered
    <2>7. w[s] # Zero => Positive(w[s] ** r[s])
        BY <2>1, <2>6, PositiveProduct
    <2> QED BY <2>2, <2>5, <2>7
<1>5. grown \in Numbers
    BY <1>4 DEF Numbers
<1> HIDE DEF grown
<1>6. Zero \preceq sum
    BY <1>4, <1>5, Totals
<1> HIDE DEF rest, sum, g
<1>7. rest \preceq g /\ sum \preceq g
    <2>1. Zero ++ rest = rest /\ Zero ++ sum = sum /\ sum ++ rest = rest ++ sum
        BY <1>1, <1>3, Neutral, SumCommutes
    <2>2. Zero ++ rest \preceq sum ++ rest /\ Zero ++ sum \preceq rest ++ sum
        BY <1>1, <1>3, <1>6, SumOrder, Constants
    <2> QED BY <1>1, <2>1, <2>2
<1>8. CASE Total(w) # One
    <2>1. Positive(g)
        BY <1>1, <1>3, <1>7, <1>8, PositiveAbove
    <2> QED BY <1>4, <1>5, <1>7, <2>1 DEF g, sum, grown
<1>9. CASE Total(w) = One
    <2>1. \E s \in Symbols : w[s] # Zero
        <3>1. SUFFICES ASSUME \A s \in Symbols : w[s] = Zero PROVE FALSE
            OBVIOUS
        <3>2. Total(w) = Zero
            BY <3>1, TotalNothing
        <3> QED BY <1>9, <3>2, Constants
    <2>2. PICK y \in Symbols : w[y] # Zero
        BY <2>1
    <2>3. Positive(sum)
        <3>1. /\ IsFiniteSet(Symbols) /\ grown \in [Symbols -> Rational]
              /\ \A x \in Symbols : Zero \preceq grown[x]
              /\ Positive(grown[y])
            BY <1>4, <1>5, <2>2, PortfolioAssumption DEF Numbers
        <3>2. Positive(SumOver(grown))
            BY <3>1, TotalPositive
        <3> QED BY <3>2, TotalIs DEF sum
    <2>4. Positive(g)
        BY <1>1, <1>7, <2>3, PositiveAbove
    <2> QED BY <1>4, <1>5, <1>7, <2>4 DEF g, sum, grown
<1> QED BY <1>8, <1>9

\* Trading all of one book for all of another leaves some of the account.
LEMMA TradesLeaveSome ==
    ASSUME CheapTrades, NEW v \in Rational, Positive(v), NEW t \in Rational, Zero \preceq t,
           t \preceq One ++ One
    PROVE  Positive(v -- ((v ** t) ** CostRate)) /\ v -- ((v ** t) ** CostRate) \in Rational
<1> DEFINE c == CostRate
           half == <<1, 2>>
           x == t ** c
           two == One ++ One
<1>1. c \in Rational /\ Zero \preceq c /\ half \in Rational /\ half ++ half = One
      /\ c \prec half
    BY PortfolioAssumption, HalfIs DEF CheapTrades
<1>2. x \in Rational /\ two \in Rational
    BY <1>1, ProductType, SumType, Constants
<1> HIDE DEF half, c
<1>3. c ++ c \in Rational /\ c ++ c \preceq One /\ c ++ c # One
    <2>1. c \preceq half /\ c # half
        BY <1>1, Ordered
    <2>2. c ++ c \preceq half ++ c /\ c ++ half \preceq half ++ half
        BY <1>1, <2>1, SumOrder
    <2>3. c ++ half = half ++ c /\ c ++ c \in Rational /\ half ++ c \in Rational
        BY <1>1, SumCommutes, SumType
    <2>4. c ++ c \preceq One
        BY <1>1, <2>2, <2>3, OrderedSteps, Constants
    <2>5. ASSUME c ++ c = One PROVE FALSE
        <3>1. half ++ c = c ++ c
            BY <1>1, <2>2, <2>3, <2>5, Ordered, Constants
        <3> QED BY <1>1, <2>1, <3>1, SumCancels
    <2> QED BY <2>3, <2>4, <2>5
<1>4. two ** c = c ++ c
    <2>1. c ** two = (c ** One) ++ (c ** One)
        BY <1>1, ProductDistributes, Constants
    <2> QED BY <1>1, <1>2, <2>1, Neutral, ProductCommutes
<1>5. x \preceq c ++ c
    BY <1>1, <1>2, <1>4, ProductOrder
<1> HIDE DEF x, two
<1>6. x \preceq One /\ x # One
    BY <1>2, <1>3, <1>5, OrderedSteps, Ordered, Constants
<1>7. One -- x \in Rational /\ Positive(One -- x)
    BY <1>2, <1>6, Apart, Constants
<1>8. (v ** t) ** c = v ** x
    BY <1>1, ProductAssociates DEF x
<1>9. v -- (v ** x) = v ** (One -- x) /\ v ** x \in Rational
    <2>1. /\ v ** x \in Rational /\ v ** (One -- x) \in Rational
          /\ (v ** x) ++ (v ** (One -- x)) = v
        BY <1>2, PartAndRest
    <2>2. (v ** (One -- x)) ++ (v ** x) = v
        BY <2>1, SumCommutes
    <2> QED BY <2>1, <2>2, DifferenceIs
<1>10. Positive(v ** (One -- x)) /\ v ** (One -- x) \in Rational
    BY <1>7, PositiveProduct, ProductType
<1> QED BY <1>8, <1>9, <1>10 DEF c

\* Two books that owe nothing are at most two accounts apart.
LEMMA TurnoverBound ==
    ASSUME NEW t \in Numbers, book.weights \in Numbers,
           \A s \in Symbols : Zero \preceq t[s] /\ Zero \preceq book.weights[s],
           Total(t) \preceq One, Total(book.weights) \preceq One
    PROVE  Turnover(t) \preceq One ++ One
<1> DEFINE w == book.weights
           apart == [s \in Symbols |-> Abs(t[s] -- w[s])]
           both == [s \in Symbols |-> t[s] ++ w[s]]
<1>1. w \in Numbers /\ apart \in Numbers /\ Turnover(t) = Total(apart)
    BY TurnoverIs
<1>2. ASSUME NEW s \in Symbols
      PROVE  both[s] \in Rational /\ apart[s] \preceq both[s]
    <2> DEFINE a == t[s]
               b == w[s]
    <2>1. a \in Rational /\ b \in Rational /\ Zero \preceq a /\ Zero \preceq b
        BY <1>1 DEF Numbers
    <2>2. apart[s] = Abs(a -- b) /\ both[s] = a ++ b
        OBVIOUS
    <2> HIDE DEF a, b
    <2>3. a ++ b \in Rational
        BY <2>1, SumType
    <2>4. Abs(a -- b) \preceq a ++ b
        BY <2>1, DistanceBound
    <2> QED BY <2>2, <2>3, <2>4
<1>3. both \in Numbers
    BY <1>2 DEF Numbers
<1> HIDE DEF apart
<1>4. Total(apart) \preceq Total(both)
    <2> HIDE DEF both
    <2> QED BY <1>1, <1>2, <1>3, TotalsOrder
<1>5. Total(both) = Total(t) ++ Total(w)
    <2>1. \A s \in Symbols : both[s] = t[s] ++ w[s]
        OBVIOUS
    <2> HIDE DEF both, w
    <2> QED BY <1>1, <1>3, <2>1, TotalsAdd
<1> DEFINE T == Total(t)
           W == Total(w)
<1>6. T \in Rational /\ W \in Rational /\ T \preceq One /\ W \preceq One
      /\ Total(apart) \in Rational
    BY <1>1, Totals
<1> HIDE DEF T, W
<1>7. T ++ W \preceq One ++ W /\ W ++ One \preceq One ++ One /\ W ++ One = One ++ W
      /\ T ++ W \in Rational /\ One ++ W \in Rational /\ One ++ One \in Rational
    BY <1>6, SumOrder, SumCommutes, SumType, Constants
<1>8. T ++ W \preceq One ++ One
    BY <1>7, OrderedSteps
<1>9. Total(apart) \preceq One ++ One
    <2>1. Total(apart) \preceq T ++ W
        BY <1>4, <1>5 DEF T, W
    <2> QED BY <1>6, <1>7, <1>8, <2>1, OrderedSteps
<1> QED BY <1>1, <1>9

LEMMA InitUnborrowed == Init => Unborrowed
<1> SUFFICES ASSUME Init PROVE Unborrowed
    OBVIOUS
<1>1. book.alive /\ book.value = One /\ book.weights = Nothing
    BY DEF Init
<1>2. Nothing \in Numbers /\ \A s \in Symbols : Nothing[s] = Zero
    BY Constants DEF Nothing, Numbers
<1>3. Total(Nothing) = Zero
    BY <1>2, TotalNothing
<1>4. Zero \preceq One /\ Zero \preceq Zero /\ Positive(One)
    BY Constants, Signs, Ordered DEF Positive
<1> QED BY <1>1, <1>2, <1>3, <1>4 DEF Unborrowed

LEMMA EarnUnborrowed ==
    ASSUME Types, Calendar, Unborrowed, Earn
    PROVE  Unborrowed'
<1> DEFINE v == book.value
           w == book.weights
           g == Grew
           grown == [s \in Symbols |-> w[s] ** Moves[s]]
           d == Drifted(Moves, Grew)
<1>1. /\ phase = "earn" /\ chosen' = chosen /\ book'.weights = d
      /\ book'.value = After(v ** g) /\ book'.alive = Positive(v ** g)
      /\ Moves \in Numbers /\ g \in Rational
    BY EarnIs
<1> SUFFICES ASSUME \A c \in Range(chosen) : c.shorts = {}
             PROVE  /\ book'.alive /\ Positive(book'.value)
                    /\ Total(book'.weights) \preceq One
                    /\ \A s \in Symbols : Zero \preceq book'.weights[s]
    BY <1>1 DEF Unborrowed
<1>2. /\ v \in Rational /\ Positive(v) /\ w \in Numbers /\ Total(w) \preceq One
      /\ \A s \in Symbols : Zero \preceq w[s]
    BY DEF Unborrowed, Types
<1>3. \A s \in Symbols : Positive(Moves[s])
    BY <1>1, PeriodIs, RatiosType DEF Moves
<1>4. /\ Positive(g) /\ Total(grown) \preceq g /\ grown \in Numbers
      /\ \A s \in Symbols : Zero \preceq grown[s]
    BY <1>1, <1>2, <1>3, GrowsUp DEF Grew
<1>5. Positive(v ** g) /\ v ** g \in Rational
    BY <1>1, <1>2, <1>4, PositiveProduct, ProductType
<1>6. book'.value = v ** g
    <2>1. Zero \preceq v ** g
        BY <1>5, Signs, Constants, Ordered
    <2> QED BY <1>1, <1>5, <2>1, GreatestType
<1>7. d \in Numbers /\ \A s \in Symbols : d[s] ** g = grown[s]
    BY <1>1, <1>2, <1>4, DriftType
<1> HIDE DEF d, g, grown, v, w
<1>8. ASSUME NEW s \in Symbols
      PROVE  d[s] \in Rational /\ Zero \preceq d[s] /\ grown[s] = g ** d[s]
    <2>1. d[s] \in Rational /\ grown[s] \in Rational /\ d[s] ** g = grown[s]
        BY <1>4, <1>7 DEF Numbers
    <2>2. Zero ** g \preceq d[s] ** g
        BY <1>1, <1>4, <2>1, Neutral
    <2>3. Zero \preceq d[s]
        BY <1>1, <1>4, <2>1, <2>2, ScaledBack, Constants
    <2> QED BY <1>1, <2>1, <2>3, ProductCommutes
<1>9. Total(d) \preceq One
    <2>1. Total(grown) = g ** Total(d) /\ Total(d) \in Rational
        BY <1>1, <1>4, <1>7, <1>8, TotalsScale, Totals
    <2>2. Total(d) ** g \preceq One ** g
        BY <1>1, <1>4, <2>1, ProductCommutes, Neutral
    <2> QED BY <1>1, <1>4, <2>1, <2>2, ScaledBack, Constants
<1> QED BY <1>1, <1>5, <1>6, <1>8, <1>9

LEMMA RebalanceUnborrowed ==
    ASSUME CheapTrades, Types, Calendar, Unborrowed, Rebalance
    PROVE  Unborrowed'
<1> DEFINE v == book.value
           w == book.weights
           t == Targets
           sc == Scale(scaled.returns)
<1>1. /\ chosen' = Append(chosen, Choice) /\ book'.weights = t
      /\ book'.value = After(v -- Fee) /\ book'.alive = book.alive
    BY RebalanceIs
<1>2. /\ Choice \in Pick /\ Choice.longs \cap Choice.shorts = {}
      /\ sc \in Rational /\ Zero \preceq sc /\ sc \preceq One /\ t \in Numbers
    BY TargetsAre
<1> SUFFICES ASSUME \A c \in Range(chosen') : c.shorts = {}
             PROVE  /\ book'.alive /\ Positive(book'.value)
                    /\ Total(book'.weights) \preceq One
                    /\ \A s \in Symbols : Zero \preceq book'.weights[s]
    BY DEF Unborrowed
<1>3. (\A c \in Range(chosen) : c.shorts = {}) /\ Choice.shorts = {}
    <2>1. chosen \in Seq(Pick)
        BY DEF Types, Pick
    <2>2. Range(chosen') = Range(chosen) \cup {Choice}
        BY <1>1, <1>2, <2>1, RangeGrows
    <2> QED BY <2>2
<1>4. /\ book.alive /\ v \in Rational /\ Positive(v) /\ w \in Numbers /\ Total(w) \preceq One
      /\ \A s \in Symbols : Zero \preceq w[s]
    BY <1>3 DEF Unborrowed, Types
<1>5. /\ \A s \in Symbols : Zero \preceq t[s]
      /\ Total([s \in Symbols |-> Abs(t[s])]) \preceq sc
      /\ [s \in Symbols |-> Abs(t[s])] \in Numbers
    <2>1. Choice \in [longs : SUBSET Symbols, shorts : SUBSET Symbols]
        BY <1>2 DEF Pick
    <2>2. t = Sized(Unscaled(Choice), sc)
        BY DEF Targets
    <2> HIDE DEF sc, t
    <2> QED BY <1>2, <1>3, <2>1, <2>2, SizedIs
<1>6. Total(t) \preceq One /\ Total(t) \in Rational
    <2>1. ASSUME NEW s \in Symbols PROVE Abs(t[s]) = t[s]
        <3>1. t[s] \in Rational /\ Zero \preceq t[s]
            BY <1>2, <1>5 DEF Numbers
        <3> QED BY <3>1, SizeOf
    <2>2. t = [s \in Symbols |-> t[s]]
        BY <1>2 DEF Numbers
    <2> HIDE DEF t
    <2>3. [s \in Symbols |-> Abs(t[s])] = t
        BY <2>1, <2>2
    <2>4. Total(t) \preceq sc /\ Total(t) \in Rational
        BY <1>2, <1>5, <2>3, Totals
    <2> HIDE DEF sc
    <2> QED BY <1>2, <2>4, OrderedSteps, Constants
<1>7. /\ Turnover(t) \in Rational /\ Zero \preceq Turnover(t)
      /\ Turnover(t) \preceq One ++ One
    BY <1>2, <1>4, <1>5, <1>6, TurnoverIs, TurnoverBound
<1>8. Fee = (v ** Turnover(t)) ** CostRate
    BY DEF Fee
<1> HIDE DEF v, w, t, sc
<1>9. Positive(v -- Fee) /\ v -- Fee \in Rational
    BY <1>4, <1>7, <1>8, TradesLeaveSome
<1>10. Positive(After(v -- Fee))
    <2>1. Zero \preceq v -- Fee
        BY <1>9, Signs, Constants, Ordered
    <2> QED BY <1>9, <2>1, GreatestType
<1> QED BY <1>1, <1>4, <1>5, <1>6, <1>10

LEMMA UnborrowedStep ==
    CheapTrades /\ Types /\ Calendar /\ Unborrowed /\ [Next]_vars => Unborrowed'
<1> SUFFICES ASSUME CheapTrades, Types, Calendar, Unborrowed, [Next]_vars PROVE Unborrowed'
    OBVIOUS
<1>1. ASSUME NEW p \in Row, Bar(p) PROVE Unborrowed'
    BY <1>1 DEF Bar, Unborrowed
<1>2. CASE Earn
    BY <1>2, EarnUnborrowed
<1>3. CASE Rebalance
    BY <1>3, RebalanceUnborrowed
<1>4. CASE UNCHANGED vars
    BY <1>4 DEF Unborrowed, vars
<1> QED BY <1>1, <1>2, <1>3, <1>4 DEF Next, Row

-----------------------------------------------------------------------------
(* The trade log *)

\* Where a set of dates is entered, and where it is left, up to n.
Entries(H, n) == {k \in 1 .. n : k \in H /\ k - 1 \notin H}
Exits(H, n) == {k \in 1 .. n : k - 1 \in H /\ k \notin H}

\* Entries and exits take turns.
LEMMA EntriesAndExits ==
    ASSUME NEW H \in SUBSET (Nat \ {0}), NEW n \in Nat
    PROVE  /\ Cardinality(Entries(H, n)) - Cardinality(Exits(H, n)) = IF n \in H THEN 1 ELSE 0
           /\ IsFiniteSet(Entries(H, n)) /\ IsFiniteSet(Exits(H, n))
<1> DEFINE in(m) == Cardinality(Entries(H, m))
           out(m) == Cardinality(Exits(H, m))
           Paired(m) == in(m) - out(m) = IF m \in H THEN 1 ELSE 0
           wrong == {m \in Nat : ~Paired(m)}
<1>1. ASSUME NEW m \in Nat
      PROVE  /\ IsFiniteSet(Entries(H, m)) /\ IsFiniteSet(Exits(H, m))
             /\ in(m) \in Nat /\ out(m) \in Nat
    <2>1. IsFiniteSet(1 .. m)
        BY FS_Interval
    <2>2. IsFiniteSet(Entries(H, m))
        BY <2>1, FS_Subset DEF Entries
    <2>3. IsFiniteSet(Exits(H, m))
        BY <2>1, FS_Subset DEF Exits
    <2> QED BY <2>2, <2>3, FS_CardinalityType
<1>2. Paired(0)
    <2>1. Entries(H, 0) = {} /\ Exits(H, 0) = {} /\ 0 \notin H
        BY DEF Entries, Exits
    <2>2. in(0) = 0 /\ out(0) = 0
        BY <2>1, FS_EmptySet
    <2> QED BY <2>1, <2>2
<1>3. ASSUME NEW m \in Nat, Paired(m) PROVE Paired(m + 1)
    <2>1. 1 .. m + 1 = (1 .. m) \cup {m + 1} /\ (m + 1) - 1 = m /\ m + 1 \notin 1 .. m
        OBVIOUS
    <2>2. /\ Entries(H, m + 1) = IF m + 1 \in H /\ m \notin H THEN Entries(H, m) \cup {m + 1}
                                 ELSE Entries(H, m)
          /\ m + 1 \notin Entries(H, m)
        BY <2>1 DEF Entries
    <2>3. /\ Exits(H, m + 1) = IF m \in H /\ m + 1 \notin H THEN Exits(H, m) \cup {m + 1}
                               ELSE Exits(H, m)
          /\ m + 1 \notin Exits(H, m)
        BY <2>1 DEF Exits
    <2>4. in(m + 1) = IF m + 1 \in H /\ m \notin H THEN in(m) + 1 ELSE in(m)
        BY <1>1, <2>2, FS_AddElement
    <2>5. out(m + 1) = IF m \in H /\ m + 1 \notin H THEN out(m) + 1 ELSE out(m)
        BY <1>1, <2>3, FS_AddElement
    <2>6. in(m) \in Nat /\ out(m) \in Nat
        BY <1>1
    <2> HIDE DEF in, out
    <2> QED BY <1>3, <2>4, <2>5, <2>6
<1>4. wrong = {}
    <2> SUFFICES ASSUME wrong # {} PROVE FALSE
        OBVIOUS
    <2> HIDE DEF Paired
    <2>1. wrong \in SUBSET Nat
        OBVIOUS
    <2>2. \E m \in wrong : \A j \in wrong : m <= j
        <3> HIDE DEF wrong
        <3> QED BY <2>1, LeastNumber
    <2>3. PICK m \in wrong : \A j \in wrong : m <= j
        BY <2>2
    <2>4. m \in Nat /\ ~Paired(m) /\ m # 0
        BY <1>2, <2>3
    <2>5. m - 1 \in Nat /\ ~(m <= m - 1)
        BY <2>4
    <2>6. Paired(m - 1)
        BY <2>3, <2>5
    <2>7. Paired((m - 1) + 1) /\ (m - 1) + 1 = m
        BY <1>3, <2>4, <2>5, <2>6
    <2> QED BY <2>4, <2>7
<1>5. Paired(n)
    <2> HIDE DEF Paired
    <2> QED BY <1>4
<1> QED BY <1>1, <1>5

\* As many entries of the log as dates they are for.
Dated(kind, s, K) == {<<kind, s, k>> : k \in K}
LEMMA OnePerDate ==
    ASSUME NEW kind, NEW s, NEW K, IsFiniteSet(K)
    PROVE  Cardinality(Dated(kind, s, K)) = Cardinality(K)
<1> DEFINE T == {<<kind, s, k>> : k \in K}
           f == [k \in K |-> <<kind, s, k>>]
<1>1. f \in [K -> T] /\ \A t \in T : \E k \in K : f[k] = t
    OBVIOUS
<1>2. \A k \in K : f[k] = <<kind, s, k>> /\ f[k][3] = k
    OBVIOUS
<1>3. DOMAIN f = K
    OBVIOUS
<1> HIDE DEF f, T
<1>4. \A j, k \in K : f[j] = f[k] => j = k
    BY <1>2
<1>5. f \in Bijection(K, T)
    BY <1>1, <1>3, <1>4 DEF Bijection, Injection, Surjection, IsInjective
<1>6. ExistsBijection(K, T)
    BY <1>5 DEF ExistsBijection
<1> QED BY <1>6, FS_Bijection DEF T, Dated

\* The entries and the exits of one symbol on one side, F[k] being that side of
\* the book of date k, when no exit goes unlogged.
Entered(F, n, s) == {k \in 1 .. n : s \in F[k] \ F[k - 1]}
Left(F, P, n, s) == {k \in 1 .. n : s \in F[k - 1] \ F[k] /\ k \in P}
LEMMA OneSide ==
    ASSUME NEW n \in Nat, NEW F, F[0] = {}, NEW s, NEW enter, NEW leave, NEW P,
           \A k \in 1 .. n : s \in F[k - 1] /\ s \notin F[k] => k \in P
    PROVE  Cardinality(Dated(enter, s, Entered(F, n, s)))
             - Cardinality(Dated(leave, s, Left(F, P, n, s)))
           = IF s \in F[n] THEN 1 ELSE 0
<1> DEFINE H == {k \in 1 .. n : s \in F[k]}
           bought == Entered(F, n, s)
           sold == Left(F, P, n, s)
<1>1. H \in SUBSET (Nat \ {0})
    OBVIOUS
<1>2. ASSUME NEW k \in 1 .. n
      PROVE  (k \in H <=> s \in F[k]) /\ (k - 1 \in H <=> s \in F[k - 1])
    <2>1. CASE k = 1
        <3>1. k - 1 = 0 /\ k - 1 \notin H
            BY <2>1
        <3> QED BY <3>1
    <2>2. CASE k # 1
        <3>1. k - 1 \in 1 .. n
            BY <2>2
        <3> QED BY <3>1
    <2> QED BY <2>1, <2>2
<1>3. bought = Entries(H, n)
    <2> HIDE DEF H
    <2> QED BY <1>2 DEF Entries, Entered
<1>4. sold = Exits(H, n)
    <2> HIDE DEF H
    <2> QED BY <1>2 DEF Exits, Left
<1>5. n \in H <=> s \in F[n]
    BY <1>2
<1> HIDE DEF H
<1>6. /\ Cardinality(Entries(H, n)) - Cardinality(Exits(H, n)) = IF n \in H THEN 1 ELSE 0
      /\ IsFiniteSet(Entries(H, n)) /\ IsFiniteSet(Exits(H, n))
    BY <1>1, EntriesAndExits
<1> HIDE DEF bought, sold
<1>7. Cardinality(Dated(enter, s, bought)) = Cardinality(bought)
    BY <1>3, <1>6, OnePerDate
<1>8. Cardinality(Dated(leave, s, sold)) = Cardinality(sold)
    BY <1>4, <1>6, OnePerDate
<1>9. Cardinality(Dated(enter, s, bought)) - Cardinality(Dated(leave, s, sold))
        = IF s \in F[n] THEN 1 ELSE 0
    BY <1>3, <1>4, <1>5, <1>6, <1>7, <1>8
<1> QED BY <1>9 DEF bought, sold

\* What the log holds of one symbol.
LoggedAs(kind, s) == {e \in TradeLog : e[1] = kind /\ e[2] = s}
LEMMA LogOf ==
    ASSUME NEW s
    PROVE  LET ks == 1 .. Len(chosen)
           IN  /\ LoggedAs("buy", s)
                    = Dated("buy", s, {k \in ks : s \in Longs(k) \ Longs(k - 1)})
               /\ LoggedAs("sell", s)
                    = Dated("sell", s, {k \in ks : s \in Longs(k - 1) \ Longs(k) /\ Priced(s, k)})
               /\ LoggedAs("short", s)
                    = Dated("short", s, {k \in ks : s \in Shorts(k) \ Shorts(k - 1)})
               /\ LoggedAs("cover", s)
                    = Dated("cover", s,
                            {k \in ks : s \in Shorts(k - 1) \ Shorts(k) /\ Priced(s, k)})
<1> DEFINE n == 1 .. Len(chosen)
           B(k) == Longs(k) \ Longs(k - 1)
           S(k) == {t \in Longs(k - 1) \ Longs(k) : Priced(t, k)}
           H(k) == Shorts(k) \ Shorts(k - 1)
           C(k) == {t \in Shorts(k - 1) \ Shorts(k) : Priced(t, k)}
<1>1. TradeLog = UNION {{<<"buy", t, k>> : t \in B(k)} \cup {<<"sell", t, k>> : t \in S(k)}
                          \cup {<<"short", t, k>> : t \in H(k)}
                          \cup {<<"cover", t, k>> : t \in C(k)} : k \in n}
    BY DEF TradeLog
<1>2. \A k : (s \in S(k) <=> s \in Longs(k - 1) \ Longs(k) /\ Priced(s, k))
          /\ (s \in C(k) <=> s \in Shorts(k - 1) \ Shorts(k) /\ Priced(s, k))
    OBVIOUS
<1> HIDE DEF B, S, H, C, n
<1>3. LoggedAs("buy", s) = Dated("buy", s, {k \in n : s \in B(k)})
    BY <1>1 DEF LoggedAs, Dated
<1>4. LoggedAs("sell", s) = Dated("sell", s, {k \in n : s \in S(k)})
    BY <1>1 DEF LoggedAs, Dated
<1>5. LoggedAs("short", s) = Dated("short", s, {k \in n : s \in H(k)})
    BY <1>1 DEF LoggedAs, Dated
<1>6. LoggedAs("cover", s) = Dated("cover", s, {k \in n : s \in C(k)})
    BY <1>1 DEF LoggedAs, Dated
<1>7. {k \in n : s \in S(k)} = {k \in n : s \in Longs(k - 1) \ Longs(k) /\ Priced(s, k)}
    BY <1>2
<1>8. {k \in n : s \in C(k)} = {k \in n : s \in Shorts(k - 1) \ Shorts(k) /\ Priced(s, k)}
    BY <1>2
<1> QED BY <1>3, <1>4, <1>5, <1>6, <1>7, <1>8 DEF B, H, n

LEMMA LogReplays ==
    ASSUME Types, Calendar, Dropping
    PROVE  LogReplaysToBook
<1> DEFINE n == Len(chosen)
           len == Len(scaled.returns)
           longs == [k \in 0 .. n |-> Longs(k)]
           shorts == [k \in 0 .. n |-> Shorts(k)]
<1>1. n \in Nat /\ len \in Nat /\ n - 1 <= len
    BY DEF Types, Calendar
<1>2. longs[0] = {} /\ shorts[0] = {} /\ longs[n] = Longs(n) /\ shorts[n] = Shorts(n)
    BY <1>1 DEF Longs, Shorts
<1>3. ASSUME book.dropped = 0, NEW s \in Symbols, NEW k \in 1 .. n,
             s \in Longs(k - 1) \/ s \in Shorts(k - 1)
      PROVE  Priced(s, k)
    <2>1. k - 1 \in 1 .. len
        <3>1. ~(k - 1 < 1)
            BY <1>3 DEF Longs, Shorts
        <3> QED BY <1>1, <3>1
    <2>2. s \in chosen[k - 1].longs \cup chosen[k - 1].shorts
        BY <1>3, <2>1 DEF Longs, Shorts
    <2>3. PICK j \in 1 .. len : j = k - 1
        BY <2>1
    <2>4. At(s, j + 1) # None /\ j + 1 = k
        BY <1>3, <2>2, <2>3 DEF Dropping
    <2> QED BY <2>4 DEF Priced, At
<1> SUFFICES ASSUME book.dropped = 0, NEW s \in Symbols
             PROVE  LET times(kind) == Cardinality({e \in TradeLog : e[1] = kind /\ e[2] = s})
                        holds(names) == IF s \in names THEN 1 ELSE 0
                    IN  /\ times("buy") - times("sell") = holds(Longs(n))
                        /\ times("short") - times("cover") = holds(Shorts(n))
    BY DEF LogReplaysToBook
<1> DEFINE P == {k \in 1 .. n : Priced(s, k)}
<1>4. \A k \in 1 .. n : longs[k] = Longs(k) /\ longs[k - 1] = Longs(k - 1)
                        /\ shorts[k] = Shorts(k) /\ shorts[k - 1] = Shorts(k - 1)
    BY <1>1
<1>5. \A k \in 1 .. n : (k \in P <=> Priced(s, k))
    OBVIOUS
<1>6. /\ \A k \in 1 .. n : s \in longs[k - 1] /\ s \notin longs[k] => k \in P
      /\ \A k \in 1 .. n : s \in shorts[k - 1] /\ s \notin shorts[k] => k \in P
    BY <1>3, <1>4, <1>5
<1> HIDE DEF longs, shorts, P, len
<1> DEFINE bought == Entered(longs, n, s)
           sold == Left(longs, P, n, s)
           shorted == Entered(shorts, n, s)
           covered == Left(shorts, P, n, s)
<1>7. Cardinality(Dated("buy", s, bought)) - Cardinality(Dated("sell", s, sold))
        = IF s \in longs[n] THEN 1 ELSE 0
    BY <1>1, <1>2, <1>6, OneSide
<1>8. Cardinality(Dated("short", s, shorted)) - Cardinality(Dated("cover", s, covered))
        = IF s \in shorts[n] THEN 1 ELSE 0
    BY <1>1, <1>2, <1>6, OneSide
<1>9. /\ bought = {k \in 1 .. n : s \in Longs(k) \ Longs(k - 1)}
      /\ sold = {k \in 1 .. n : s \in Longs(k - 1) \ Longs(k) /\ Priced(s, k)}
      /\ shorted = {k \in 1 .. n : s \in Shorts(k) \ Shorts(k - 1)}
      /\ covered = {k \in 1 .. n : s \in Shorts(k - 1) \ Shorts(k) /\ Priced(s, k)}
    BY <1>4, <1>5 DEF Entered, Left
<1>10. /\ LoggedAs("buy", s)
            = Dated("buy", s, {k \in 1 .. n : s \in Longs(k) \ Longs(k - 1)})
       /\ LoggedAs("sell", s)
            = Dated("sell", s, {k \in 1 .. n : s \in Longs(k - 1) \ Longs(k) /\ Priced(s, k)})
       /\ LoggedAs("short", s)
            = Dated("short", s, {k \in 1 .. n : s \in Shorts(k) \ Shorts(k - 1)})
       /\ LoggedAs("cover", s)
            = Dated("cover", s, {k \in 1 .. n : s \in Shorts(k - 1) \ Shorts(k) /\ Priced(s, k)})
    BY LogOf, Zenon
<1>11. /\ LoggedAs("buy", s) = Dated("buy", s, bought)
       /\ LoggedAs("sell", s) = Dated("sell", s, sold)
       /\ LoggedAs("short", s) = Dated("short", s, shorted)
       /\ LoggedAs("cover", s) = Dated("cover", s, covered)
    BY <1>9, <1>10, Zenon
<1> HIDE DEF bought, sold, shorted, covered
<1>12. Cardinality(LoggedAs("buy", s)) - Cardinality(LoggedAs("sell", s))
         = IF s \in Longs(n) THEN 1 ELSE 0
    BY <1>2, <1>7, <1>11
<1>13. Cardinality(LoggedAs("short", s)) - Cardinality(LoggedAs("cover", s))
         = IF s \in Shorts(n) THEN 1 ELSE 0
    BY <1>2, <1>8, <1>11
<1> QED BY <1>12, <1>13 DEF LoggedAs

LEMMA InitCalendar == Init => Calendar
BY DEF Init, Calendar

-----------------------------------------------------------------------------
(* The theorems *)

\* A book is given up at zero.
Ruined == ~book.alive => book.value = Zero

LEMMA RuinedStep == Types /\ Calendar /\ Ruined /\ [Next]_vars => Ruined'
<1> SUFFICES ASSUME Types, Calendar, Ruined, [Next]_vars PROVE Ruined'
    OBVIOUS
<1>1. ASSUME NEW p \in Row, Bar(p) PROVE Ruined'
    BY <1>1 DEF Bar, Ruined
<1>2. CASE Earn
    <2>1. /\ Grew \in Rational /\ book.value \in Rational
          /\ book'.value = After(book.value ** Grew)
          /\ book'.alive = Positive(book.value ** Grew)
        BY <1>2, EarnIs DEF Types
    <2>2. book.value ** Grew \in Rational
        BY <2>1, ProductType
    <2> QED BY <2>1, <2>2, GreatestType DEF Ruined
<1>3. CASE Rebalance
    <2>1. book.alive /\ book'.alive = book.alive
        BY <1>3, RebalanceIs
    <2> QED BY <2>1 DEF Ruined
<1>4. CASE UNCHANGED vars
    BY <1>4 DEF Ruined, vars
<1> QED BY <1>1, <1>2, <1>3, <1>4 DEF Next, Row

\* The inductive invariant, for every rate the costs accept.
PortfolioInv ==
    Types /\ Calendar /\ Balanced /\ BuyAndHold /\ WellChosen /\ Dropping /\ Ruined

THEOREM PortfolioInvariant == Spec => []PortfolioInv
<1>1. Init => PortfolioInv
    <2>1. Init => Ruined
        BY DEF Init, Ruined
    <2> QED BY <2>1, InitTypes, InitCalendar, InitBalanced, InitBuyAndHold, InitWellChosen,
               InitDropping DEF PortfolioInv
<1>2. PortfolioInv /\ [Next]_vars => PortfolioInv'
    BY TypesStep, CalendarStep, BalancedStep, BuyAndHoldStep, WellChosenStep, DroppingStep,
       RuinedStep DEF PortfolioInv
<1> QED BY <1>1, <1>2, PTL DEF Spec

\* Equity, commissions and benchmark are those of accounts of units and cash:
\* the curve that run_portfolio compounds from drifted weights, the costs it
\* takes off at a rebalance, and what equal_weight_benchmark recomputes.
THEOREM AccountsAlwaysAgree == Spec => []AccountsAgree
<1>1. PortfolioInv => AccountsAgree
    <2> SUFFICES ASSUME PortfolioInv PROVE AccountsAgree
        OBVIOUS
    <2>1. LedgerReproducesCurve /\ FeesAreTraded
        BY DEF PortfolioInv, Balanced, LedgerReproducesCurve
    <2>2. BenchmarkIsBuyAndHold
        BY BenchmarkIs DEF PortfolioInv
    <2> QED BY <2>1, <2>2 DEF AccountsAgree
<1> QED BY <1>1, PortfolioInvariant, PTL

\* What select and VolTarget put into the book printed lately, at the date and
\* a lookback before it, outranks what is shorted, and is never geared; the
\* curve stays at or above zero, and is zero where the book is given up.
THEOREM ChosenIsAlwaysSound ==
    Spec => [](/\ TypeOK /\ StaleIsOut /\ LongsOutrankShorts /\ GrossIsCapped
               /\ Zero \preceq book.value /\ Ruined)
<1>1. PortfolioInv => /\ TypeOK /\ StaleIsOut /\ LongsOutrankShorts /\ GrossIsCapped
                      /\ Zero \preceq book.value /\ Ruined
    <2> SUFFICES ASSUME PortfolioInv
                 PROVE  /\ TypeOK /\ StaleIsOut /\ LongsOutrankShorts /\ GrossIsCapped
                        /\ Zero \preceq book.value /\ Ruined
        OBVIOUS
    <2>1. TypeOK
        BY TypesAreOK DEF PortfolioInv
    <2>2. StaleIsOut /\ LongsOutrankShorts /\ GrossIsCapped
        BY ChosenIsSound DEF PortfolioInv
    <2> QED BY <2>1, <2>2 DEF PortfolioInv, Balanced
<1> QED BY <1>1, PortfolioInvariant, PTL

\* A book that never was short is never in debt nor ruined, at rates below one
\* half: at one half a full switch of it, two sides to pay for, takes it all.
THEOREM NeverInDebt == ASSUME CheapTrades PROVE Spec => []Unborrowed
<1>1. PortfolioInv /\ Unborrowed /\ [Next]_vars => Unborrowed'
    BY UnborrowedStep DEF PortfolioInv
<1> QED BY <1>1, InitUnborrowed, PortfolioInvariant, PTL DEF Spec

\* With it all of what a book holds is sound: only one with shorts, whose loss
\* has no bound, is ever given up by run_portfolio.
THEOREM HoldingsAreAlwaysSound == ASSUME CheapTrades PROVE Spec => []HoldingsAreSound
<1>1. /\ TypeOK /\ StaleIsOut /\ LongsOutrankShorts /\ GrossIsCapped
      /\ Zero \preceq book.value /\ Ruined
      /\ Unborrowed
      => HoldingsAreSound
    BY DEF HoldingsAreSound, Solvent, Ruined, Unborrowed
<1> QED BY <1>1, ChosenIsAlwaysSound, NeverInDebt, PTL

\* Replaying trade_log gives the book of the last date, side by side: as long
\* as nothing was dropped, no entry and no exit is missing from it.
THEOREM LogAlwaysReplays == Spec => []LogReplaysToBook
<1>1. PortfolioInv => LogReplaysToBook
    BY LogReplays DEF PortfolioInv
<1> QED BY <1>1, PortfolioInvariant, PTL

================================================================================
