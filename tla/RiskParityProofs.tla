---------------------------- MODULE RiskParityProofs ----------------------------
(***************************************************************************)
(* Theorems about RiskParity, for any finite set of symbols, any prices,   *)
(* leans, scales, rules and cost rate: no money appears or is lost, units  *)
(* change hands only where the rules of the book let them, and what a      *)
(* close decides is within the limits of the book.                         *)
(***************************************************************************)
EXTENDS RiskParity, RatioProofs

Row == [Symbols -> Prices \cup {None}]
Accounts == [weights : Numbers, equity : Rational, fees : Rational]
Decision == [book : Numbers \cup {None}, passive : Numbers \cup {None}, exits : SUBSET Symbols]

Types ==
    /\ rule \in Rules
    /\ rows \in Seq(Row) /\ Len(rows) <= rule.bars
    /\ age \in [Symbols -> 0 .. rule.maxAge + 1]
    /\ book \in Accounts /\ passive \in Accounts
    /\ decided \in Decision
    /\ bills \in [sum : Rational, doubled : BOOLEAN]
    /\ window \in [base : Rational, before : Rational, fees : Rational] \cup {None}

\* Weights of a book that owes nothing and holds no more than its account.
Nonnegative(weights) == \A s \in Symbols : Zero \preceq weights[s]
Sized(weights) == Nonnegative(weights) /\ Total(weights) \preceq One

Unlevered ==
    /\ Sized(book.weights) /\ Sized(passive.weights)
    /\ decided.book # None => Sized(decided.book)
    /\ decided.passive # None => Sized(decided.passive)
    /\ Zero \preceq book.equity /\ Zero \preceq passive.equity

\* What is held, or about to be, has had a price.
SeenIn(q, s) == {i \in DOMAIN q : q[i][s] # None}
HeldIsListed == \A s \in Symbols :
    book.weights[s] # Zero \/ (decided.book # None /\ decided.book[s] # Zero)
        => SeenIn(rows, s) # {}

\* Nothing is decided before the first bar; between rebalances the pending
\* decision is the exits of the newest close.
Between ==
    /\ rows = <<>> => decided = Undecided
    /\ rows # <<>> /\ Index % rule.grid # 0 => decided = Exits(book.weights, Index, Last(rows))

\* What is about to be bought was fresh and rising at the newest close.
Bought == decided.book # None => \A s \in Symbols : decided.book[s] # Zero =>
    age[s] <= rule.maxAge /\ Passes(s, Index, Last(rows))

\* The window's account, as far as it is known.
Opening == window # None =>
    /\ rule.opens + 1 <= Len(rows) /\ Positive(window.base)
    /\ ~bills.doubled => (window.fees ** window.base) ++ window.before = book.fees

RiskParityInv ==
    Types /\ Unlevered /\ HeldIsListed /\ Between /\ Bought /\ Opening

-----------------------------------------------------------------------------
(* Sums over the symbols *)

LEMMA TotalIs ==
    ASSUME NEW f
    PROVE  Total(f) = SumOver(f)
BY DEF Total, FoldFunction, FoldFunctionOnSet, SumOver

LEMMA NumbersAre ==
    ASSUME NEW f \in Numbers
    PROVE  IsFiniteSet(Symbols) /\ f \in [Symbols -> Rational]
           /\ \A s \in Symbols : f[s] \in Rational
BY RiskParityAssumption DEF Numbers

LEMMA Totals ==
    ASSUME NEW f \in Numbers
    PROVE  /\ Total(f) \in Rational
           /\ (\A s \in Symbols : Zero \preceq f[s]) => Zero \preceq Total(f)
<1>1. IsFiniteSet(Symbols) /\ f \in [Symbols -> Rational]
    BY NumbersAre
<1>2. SumOver(f) \in Rational
    BY <1>1, TotalType
<1>3. (\A s \in Symbols : Zero \preceq f[s]) => Zero \preceq SumOver(f)
    BY <1>1, TotalSign
<1> QED BY <1>2, <1>3, TotalIs

LEMMA TotalsAdd ==
    ASSUME NEW f \in Numbers, NEW g \in Numbers, NEW h \in Numbers,
           \A s \in Symbols : h[s] = f[s] ++ g[s]
    PROVE  Total(h) = Total(f) ++ Total(g)
<1>1. SumOver(h) = SumOver(f) ++ SumOver(g)
    BY TotalAdds, RiskParityAssumption DEF Numbers
<1> QED BY <1>1, TotalIs

LEMMA TotalsScale ==
    ASSUME NEW f \in Numbers, NEW c \in Rational, NEW h \in Numbers,
           \A s \in Symbols : h[s] = c ** f[s]
    PROVE  Total(h) = c ** Total(f)
<1>1. SumOver(h) = c ** SumOver(f)
    BY TotalScales, RiskParityAssumption DEF Numbers
<1> QED BY <1>1, TotalIs

LEMMA TotalsOrder ==
    ASSUME NEW f \in Numbers, NEW g \in Numbers, \A s \in Symbols : f[s] \preceq g[s]
    PROVE  Total(f) \preceq Total(g)
<1>1. SumOver(f) \preceq SumOver(g)
    BY TotalOrder, RiskParityAssumption DEF Numbers
<1> QED BY <1>1, TotalIs

LEMMA TotalNothing ==
    ASSUME NEW f \in Numbers, \A s \in Symbols : f[s] = Zero
    PROVE  Total(f) = Zero
<1>1. \A s \in Symbols : f[s] = Zero ** f[s]
    BY Neutral, Constants
<1>2. Total(f) = Zero ** Total(f)
    BY <1>1, TotalsScale, Constants
<1> QED BY <1>2, Totals, Neutral

\* Shares of one size.
LEMMA TotalOfSome ==
    ASSUME NEW L \in SUBSET Symbols, NEW c \in Rational, NEW h \in Numbers,
           \A s \in Symbols : h[s] = IF s \in L THEN c ELSE Zero
    PROVE  Total(h) = c ** R(Cardinality(L))
<1>1. SumOver(h) = c ** R(Cardinality(L))
    BY TotalOfPart, RiskParityAssumption DEF Numbers
<1> QED BY <1>1, TotalIs

\* A sum of amounts that are not negative: none of them exceeds it, and it is
\* zero when all are.
LEMMA TotalAbove ==
    ASSUME NEW f \in Numbers, \A s \in Symbols : Zero \preceq f[s], NEW s \in Symbols
    PROVE  f[s] \preceq Total(f) /\ (f[s] # Zero => Positive(Total(f)))
<1> DEFINE g == [x \in Symbols |-> IF x \in {s} THEN f[s] ELSE Zero]
<1>1. f[s] \in Rational /\ g \in Numbers
    BY Constants DEF Numbers
<1>2. \A x \in Symbols : g[x] = IF x \in {s} THEN f[s] ELSE Zero
    OBVIOUS
<1>3. \A x \in Symbols : g[x] \preceq f[x]
    BY NumbersAre, Ordered
<1> HIDE DEF g
<1>4. Total(g) = f[s] ** R(Cardinality({s}))
    BY <1>1, <1>2, TotalOfSome
<1>5. R(Cardinality({s})) = One
    BY FS_Singleton DEF One
<1>6. Total(g) = f[s]
    BY <1>1, <1>4, <1>5, Neutral
<1>7. f[s] \preceq Total(f)
    BY <1>1, <1>3, <1>6, TotalsOrder
<1>8. f[s] # Zero => Positive(f[s])
    BY <1>1, Signs, Ordered, Constants
<1>9. Total(f) \in Rational
    BY Totals
<1> QED BY <1>1, <1>7, <1>8, <1>9, PositiveAbove

LEMMA OfType ==
    ASSUME NEW names, NEW f, \A s \in Symbols : s \in names => f[s] \in Rational
    PROVE  /\ Of(names, f) \in Numbers
           /\ \A s \in Symbols : Of(names, f)[s] = IF s \in names THEN f[s] ELSE Zero
BY Constants DEF Of, Numbers

\* A part of an amount is at most the amount, and some of it is not negative.
LEMMA PartBounds ==
    ASSUME NEW f \in Numbers, \A s \in Symbols : Zero \preceq f[s], NEW names
    PROVE  /\ Of(names, f) \in Numbers /\ \A s \in Symbols : Zero \preceq Of(names, f)[s]
           /\ \A s \in Symbols : Of(names, f)[s] \preceq f[s]
           /\ Total(Of(names, f)) \preceq Total(f) /\ Zero \preceq Total(Of(names, f))
<1>1. /\ Of(names, f) \in Numbers
      /\ \A s \in Symbols : Of(names, f)[s] = IF s \in names THEN f[s] ELSE Zero
    BY NumbersAre, OfType
<1>2. ASSUME NEW s \in Symbols
      PROVE  Zero \preceq Of(names, f)[s] /\ Of(names, f)[s] \preceq f[s]
    BY <1>1, NumbersAre, Ordered, Constants
<1> QED BY <1>1, <1>2, TotalsOrder, Totals

-----------------------------------------------------------------------------
(* Capping *)

LEMMA RuleIs == rule \in Rules => IsRule(rule)
BY RiskParityAssumption

AtCap(weights) == {s \in Symbols : weights[s] = rule.maxWeight}
Room(weights) == {s \in Symbols : Positive(weights[s]) /\ weights[s] \prec rule.maxWeight}
Above(weights) == [s \in Symbols |-> weights[s] -- rule.maxWeight]

\* The amounts of one round, and what it makes of each weight.
LEMMA RoundParts ==
    ASSUME rule \in Rules, NEW w \in Numbers
    PROVE  LET cap == rule.maxWeight
               above == Of(Over(w), Above(w))
               low == Of(Room(w), w)
               excess == Total(above)
               held == Total(low)
           IN  /\ cap \in Rational /\ Zero \preceq cap
               /\ above \in Numbers /\ low \in Numbers /\ excess \in Rational /\ held \in Rational
               /\ \A s \in Symbols :
                    above[s] = IF s \in Over(w) THEN w[s] -- cap ELSE Zero
               /\ \A s \in Symbols : low[s] = IF s \in Room(w) THEN w[s] ELSE Zero
               /\ Zero \preceq excess
               /\ Room(w) # {} => Positive(held)
               /\ Room(w) \cap Over(w) = {}
               /\ \A s \in Symbols :
                    Round(w)[s] = IF s \in Over(w) THEN cap
                                  ELSE IF s \in Room(w) THEN w[s] ++ ((excess ** w[s]) // held)
                                  ELSE w[s]
               /\ Round(w) = [s \in Symbols |-> Round(w)[s]]
<1> DEFINE cap == rule.maxWeight
           above == Of(Over(w), Above(w))
           low == Of(Room(w), w)
           excess == Total(above)
           held == Total(low)
<1>1. cap \in Rational /\ Positive(cap) /\ Zero \preceq cap
    <2>1. cap \in Rational /\ Positive(cap)
        BY RuleIs DEF IsRule
    <2> HIDE DEF cap
    <2> QED BY <2>1, Signs, Ordered, Constants
<1>2. ASSUME NEW s \in Symbols
      PROVE  /\ w[s] \in Rational /\ Above(w)[s] = w[s] -- cap /\ w[s] -- cap \in Rational
             /\ s \in Over(w) <=> cap \prec w[s]
             /\ s \in Over(w) => Zero \preceq w[s] -- cap
             /\ s \in Room(w) <=> Positive(w[s]) /\ w[s] \prec cap
             /\ ~(s \in Over(w) /\ s \in Room(w))
    <2>1. w[s] \in Rational
        BY NumbersAre
    <2>2. /\ Above(w)[s] = w[s] -- cap
          /\ s \in Over(w) <=> cap \prec w[s]
          /\ s \in Room(w) <=> Positive(w[s]) /\ w[s] \prec cap
        BY DEF Above, Over, Room
    <2> HIDE DEF cap
    <2>3. w[s] -- cap \in Rational
        BY <1>1, <2>1, Difference
    <2>4. cap \prec w[s] => cap \preceq w[s] /\ ~(w[s] \prec cap)
        BY <1>1, <2>1, Ordered
    <2>5. cap \prec w[s] => Zero \preceq w[s] -- cap
        BY <1>1, <2>1, <2>4, Apart
    <2> QED BY <2>1, <2>2, <2>3, <2>4, <2>5
<1>3. above \in Numbers /\ \A s \in Symbols : above[s] = IF s \in Over(w) THEN w[s] -- cap ELSE Zero
    <2>1. \A s \in Symbols : s \in Over(w) => Above(w)[s] \in Rational
        BY <1>2
    <2>2. /\ above \in Numbers
          /\ \A s \in Symbols : above[s] = IF s \in Over(w) THEN Above(w)[s] ELSE Zero
        BY <2>1, OfType
    <2> QED BY <1>2, <2>2
<1>4. low \in Numbers /\ \A s \in Symbols : low[s] = IF s \in Room(w) THEN w[s] ELSE Zero
    BY <1>2, OfType
<1>5. ASSUME NEW s \in Symbols PROVE Zero \preceq above[s] /\ Zero \preceq low[s]
    <2>1. s \in Room(w) => Zero \preceq w[s]
        BY <1>2, Signs, Ordered, Constants
    <2> QED BY <1>2, <1>3, <1>4, <2>1, Ordered, Constants
<1>6. excess \in Rational /\ held \in Rational /\ Zero \preceq excess
    <2> HIDE DEF above, low
    <2> QED BY <1>3, <1>4, <1>5, Totals
<1>7. ASSUME NEW s \in Symbols, s \in Room(w) PROVE Positive(held)
    <2>1. low[s] = w[s] /\ Positive(w[s]) /\ w[s] # Zero
        BY <1>2, <1>4, <1>7, Signs DEF Positive
    <2> HIDE DEF low
    <2> QED BY <1>4, <1>5, <2>1, TotalAbove
<1>8. Room(w) \subseteq Symbols
    BY DEF Room
<1>9. Round(w) = [s \in Symbols |->
                    IF s \in Over(w) THEN cap
                    ELSE IF s \in Room(w) THEN w[s] ++ ((excess ** w[s]) // held) ELSE w[s]]
    BY Zenon DEF Round, Room, Above
<1> QED
    <2>1. /\ \A s \in Symbols :
               Round(w)[s] = IF s \in Over(w) THEN cap
                             ELSE IF s \in Room(w) THEN w[s] ++ ((excess ** w[s]) // held)
                             ELSE w[s]
          /\ Round(w) = [s \in Symbols |-> Round(w)[s]]
        <3> HIDE DEF cap, excess, held
        <3> QED BY <1>9
    <2>2. Room(w) # {} => Positive(held)
        BY <1>7, <1>8
    <2>3. Room(w) \cap Over(w) = {}
        BY <1>2, <1>8
    <2> QED BY <1>1, <1>3, <1>4, <1>6, <2>1, <2>2, <2>3

LEMMA RoundIs ==
    ASSUME rule \in Rules, NEW w \in Numbers, Nonnegative(w)
    PROVE  /\ Round(w) \in Numbers /\ Nonnegative(Round(w))
           /\ \A s \in Symbols : w[s] = Zero => Round(w)[s] = Zero
           /\ AtCap(w) \cup Over(w) \subseteq AtCap(Round(w))
           /\ Total(Round(w)) \preceq Total(w)
<1> DEFINE cap == rule.maxWeight
           above == Of(Over(w), Above(w))
           low == Of(Room(w), w)
           excess == Total(above)
           held == Total(low)
           k == excess // held
           gain == [s \in Symbols |-> k ** low[s]]
           both == [s \in Symbols |-> w[s] ++ gain[s]]
           new == Round(w)
<1>1. /\ cap \in Rational /\ Zero \preceq cap
      /\ above \in Numbers /\ low \in Numbers /\ excess \in Rational /\ held \in Rational
      /\ \A s \in Symbols : above[s] = IF s \in Over(w) THEN w[s] -- cap ELSE Zero
      /\ \A s \in Symbols : low[s] = IF s \in Room(w) THEN w[s] ELSE Zero
      /\ Zero \preceq excess
      /\ Room(w) # {} => Positive(held)
      /\ Room(w) \cap Over(w) = {}
      /\ \A s \in Symbols :
           new[s] = IF s \in Over(w) THEN cap
                    ELSE IF s \in Room(w) THEN w[s] ++ ((excess ** w[s]) // held)
                    ELSE w[s]
      /\ new = [s \in Symbols |-> new[s]]
    BY RoundParts, Zenon
<1>2. /\ Over(w) = {s \in Symbols : cap \prec w[s]}
      /\ Room(w) = {s \in Symbols : Positive(w[s]) /\ w[s] \prec cap}
      /\ AtCap(w) = {s \in Symbols : w[s] = cap}
      /\ AtCap(new) = {s \in Symbols : new[s] = cap}
    BY DEF Over, Room, AtCap
<1>3. ASSUME NEW s \in Symbols PROVE w[s] \in Rational /\ Zero \preceq w[s]
    BY NumbersAre DEF Nonnegative
<1> HIDE DEF cap, above, low, excess, held, new
<1>4. ASSUME Room(w) # {}
      PROVE  /\ held # Zero /\ k \in Rational /\ k ** held = excess /\ Zero \preceq k
    <2>1. Positive(held) /\ held # Zero
        BY <1>1, <1>4, Signs DEF Positive
    <2>2. k \in Rational /\ k ** held = excess
        BY <1>1, <2>1, Quotient
    <2> HIDE DEF k
    <2>3. Zero ** held \preceq k ** held
        BY <1>1, <2>2, Neutral
    <2>4. Zero \preceq k
        BY <1>1, <2>1, <2>2, <2>3, ScaledBack, Constants
    <2> QED BY <2>1, <2>2, <2>4
<1>5. ASSUME NEW s \in Symbols, s \in Room(w)
      PROVE  /\ (excess ** w[s]) // held = k ** w[s] /\ k ** w[s] \in Rational
             /\ Zero \preceq k ** w[s]
    <2>1. held # Zero /\ k \in Rational /\ Zero \preceq k
        BY <1>4, <1>5
    <2>2. k ** w[s] = (excess ** w[s]) // held /\ k ** w[s] \in Rational
        BY <1>1, <1>3, <2>1, QuotientScales
    <2> HIDE DEF k
    <2>3. Zero ** w[s] \preceq k ** w[s]
        BY <1>3, <2>1, ProductOrder, Constants
    <2> QED BY <1>3, <2>2, <2>3, Neutral
<1>6. ASSUME NEW s \in Symbols
      PROVE  /\ new[s] \in Rational /\ Zero \preceq new[s]
             /\ w[s] = Zero => new[s] = Zero
    <2>1. CASE s \in Over(w)
        <3>1. new[s] = cap /\ cap \prec w[s]
            BY <1>1, <1>2, <2>1
        <3>2. w[s] # Zero
            BY <1>1, <3>1, Ordered, Constants
        <3> QED BY <1>1, <3>1, <3>2
    <2>2. CASE s \in Room(w)
        <3>1. new[s] = w[s] ++ (k ** w[s]) /\ Positive(w[s])
            BY <1>1, <1>2, <1>5, <2>2
        <3>2. k ** w[s] \in Rational /\ Zero \preceq k ** w[s]
            BY <1>5, <2>2
        <3> DEFINE x == k ** w[s]
        <3> HIDE DEF x
        <3>3. x \in Rational /\ Zero \preceq x /\ new[s] = w[s] ++ x
            BY <3>1, <3>2 DEF x
        <3>4. Zero ++ x \preceq w[s] ++ x /\ Zero ++ x = x
            BY <1>3, <3>3, SumOrder, Neutral, Constants
        <3>5. w[s] ++ x \in Rational
            BY <1>3, <3>3, SumType
        <3>6. Zero \preceq w[s] ++ x
            BY <3>3, <3>4, <3>5, OrderedSteps, Constants
        <3>7. w[s] # Zero
            BY <1>3, <3>1, Signs DEF Positive
        <3> QED BY <3>3, <3>5, <3>6, <3>7
    <2>3. CASE s \notin Over(w) /\ s \notin Room(w)
        BY <1>1, <1>3, <2>3
    <2> QED BY <2>1, <2>2, <2>3
<1>7. new \in Numbers /\ Nonnegative(new)
    <2>1. new \in Numbers
        BY <1>1, <1>6, Zenon DEF Numbers
    <2> QED BY <1>6, <2>1 DEF Nonnegative
<1>8. AtCap(w) \cup Over(w) \subseteq AtCap(new)
    <2>1. ASSUME NEW s \in Symbols, w[s] = cap PROVE new[s] = cap
        <3>1. s \notin Room(w)
            BY <1>1, <1>2, <2>1, Ordered
        <3> QED BY <1>1, <2>1, <3>1
    <2>2. ASSUME NEW s \in Symbols, s \in Over(w) PROVE new[s] = cap
        BY <1>1, <2>2
    <2> QED BY <1>2, <2>1, <2>2
<1>9. Total(new) \preceq Total(w)
    <2>1. CASE Room(w) = {}
        <3>1. ASSUME NEW s \in Symbols PROVE new[s] \preceq w[s]
            <4>1. CASE s \in Over(w)
                BY <1>1, <1>2, <1>3, <4>1, Ordered
            <4>2. CASE s \notin Over(w)
                BY <1>1, <1>3, <2>1, <4>2, Ordered
            <4> QED BY <4>1, <4>2
        <3> QED BY <1>7, <3>1, TotalsOrder
    <2>2. CASE Room(w) # {}
        <3>1. k \in Rational /\ k ** held = excess
            BY <1>4, <2>2
        <3> HIDE DEF k
        <3>2. ASSUME NEW s \in Symbols
              PROVE  /\ low[s] \in Rational /\ gain[s] = k ** low[s] /\ gain[s] \in Rational
                     /\ both[s] = w[s] ++ gain[s] /\ both[s] \in Rational
            BY <1>1, <1>3, <3>1, NumbersAre, ProductType, SumType
        <3>3. gain \in Numbers /\ both \in Numbers
            BY <3>2 DEF Numbers
        <3> HIDE DEF gain, both
        <3>4. Total(gain) = k ** Total(low)
            BY <1>1, <3>1, <3>2, <3>3, TotalsScale
        <3>5. Total(gain) = excess
            BY <3>1, <3>4 DEF held
        <3>6. Total(both) = Total(w) ++ Total(gain)
            BY <3>2, <3>3, TotalsAdd
        <3>7. ASSUME NEW s \in Symbols PROVE both[s] = new[s] ++ above[s]
            <4>1. gain[s] = IF s \in Room(w) THEN k ** w[s] ELSE Zero
                BY <1>1, <3>1, <3>2, Neutral
            <4>2. CASE s \in Over(w)
                <5>1. both[s] = w[s] ++ Zero
                    BY <1>1, <3>2, <4>1, <4>2
                <5>2. both[s] = w[s]
                    BY <1>3, <5>1, Neutral
                <5>3. new[s] = cap /\ above[s] = w[s] -- cap
                    BY <1>1, <4>2
                <5>4. w[s] -- cap \in Rational /\ (w[s] -- cap) ++ cap = w[s]
                    BY <1>1, <1>3, Difference
                <5> QED BY <1>1, <5>2, <5>3, <5>4, SumCommutes
            <4>3. CASE s \in Room(w)
                <5>1. new[s] = w[s] ++ (k ** w[s]) /\ above[s] = Zero
                    BY <1>1, <1>5, <4>3
                <5>2. both[s] = new[s]
                    BY <3>2, <4>1, <4>3, <5>1
                <5> QED BY <1>6, <5>1, <5>2, Neutral
            <4>4. CASE s \notin Over(w) /\ s \notin Room(w)
                BY <1>1, <1>3, <3>2, <4>1, <4>4, Neutral
            <4> QED BY <4>2, <4>3, <4>4
        <3>8. Total(both) = Total(new) ++ Total(above)
            BY <1>1, <1>7, <3>3, <3>7, TotalsAdd
        <3>9. Total(new) ++ excess = Total(w) ++ excess
            BY <3>5, <3>6, <3>8 DEF excess
        <3>10. Total(new) \in Rational /\ Total(w) \in Rational
            BY <1>7, Totals
        <3>11. Total(new) = Total(w)
            BY <1>1, <3>9, <3>10, SumCancels
        <3> QED BY <3>10, <3>11, Ordered
    <2> QED BY <2>1, <2>2
<1> QED BY <1>6, <1>7, <1>8, <1>9 DEF new

LEMMA RoundType ==
    ASSUME rule \in Rules, NEW w \in Numbers
    PROVE  Round(w) \in Numbers
<1> DEFINE cap == rule.maxWeight
           above == Of(Over(w), Above(w))
           low == Of(Room(w), w)
           excess == Total(above)
           held == Total(low)
           new == Round(w)
<1>1. /\ cap \in Rational
      /\ excess \in Rational /\ held \in Rational
      /\ Room(w) # {} => Positive(held)
      /\ \A s \in Symbols :
           new[s] = IF s \in Over(w) THEN cap
                    ELSE IF s \in Room(w) THEN w[s] ++ ((excess ** w[s]) // held)
                    ELSE w[s]
      /\ new = [s \in Symbols |-> new[s]]
    BY RoundParts, Zenon
<1> HIDE DEF cap, excess, held, new
<1>2. ASSUME NEW s \in Symbols PROVE new[s] \in Rational
    <2>1. w[s] \in Rational
        BY NumbersAre
    <2>2. ASSUME s \in Room(w) PROVE w[s] ++ ((excess ** w[s]) // held) \in Rational
        <3>1. held # Zero
            BY <1>1, <2>2, Signs DEF Positive
        <3>2. excess ** w[s] \in Rational
            BY <1>1, <2>1, ProductType
        <3>3. (excess ** w[s]) // held \in Rational
            BY <1>1, <3>1, <3>2, Quotient
        <3> QED BY <2>1, <3>3, SumType
    <2> QED BY <1>1, <2>1, <2>2
<1> QED BY <1>1, <1>2, Zenon DEF new, Numbers

\* The rounds of the loop.
LEMMA RoundsRun ==
    ASSUME rule \in Rules
    PROVE  \E F : /\ \A w \in Numbers : F[0][w] = w
                  /\ \A k \in Nat, w \in Numbers :
                       F[k + 1][w] = IF Over(w) = {} THEN w ELSE F[k][Round(w)]
                  /\ \A w \in Numbers : Capped(w) = F[CapRounds][w]
<1> DEFINE S == [Numbers -> Numbers]
           G == [f \in S |-> [w \in Numbers |-> IF Over(w) = {} THEN w ELSE f[Round(w)]]]
           same == [w \in Numbers |-> w]
           body(f) == [k \in Nat |->
                         [w \in Numbers |->
                            IF k = 0 \/ Over(w) = {} THEN w ELSE f[k - 1][Round(w)]]]
           f == CHOOSE g : g = body(g)
<1>1. G \in [S -> S] /\ same \in S
    BY RoundType
<1>2. PICK F \in [Nat -> S] : F[0] = same /\ \A k \in Nat \ {0} : F[k] = G[F[k - 1]]
    <2> HIDE DEF G, S, same
    <2> QED BY <1>1, Iteration
<1>3. F = body(F)
    <2>1. ASSUME NEW k \in Nat PROVE F[k] = body(F)[k]
        <3>1. CASE k = 0
            <4>1. F[k] = [w \in Numbers |-> w]
                BY <1>2, <3>1
            <4>2. body(F)[k] = [w \in Numbers |-> w]
                BY <3>1
            <4> QED BY <4>1, <4>2
        <3>2. CASE k # 0
            <4>1. k - 1 \in Nat /\ F[k - 1] \in S /\ F[k] = G[F[k - 1]]
                <5>1. k \in Nat \ {0} /\ k - 1 \in Nat
                    BY <3>2
                <5> HIDE DEF S, G
                <5> QED BY <1>2, <5>1
            <4>2. F[k] = [w \in Numbers |-> IF Over(w) = {} THEN w ELSE F[k - 1][Round(w)]]
                BY <4>1
            <4>3. body(F)[k] =
                    [w \in Numbers |-> IF Over(w) = {} THEN w ELSE F[k - 1][Round(w)]]
                BY <3>2
            <4> QED BY <4>2, <4>3
        <3> QED BY <3>1, <3>2
    <2>2. F = [k \in Nat |-> F[k]] /\ body(F) = [k \in Nat |-> body(F)[k]]
        BY <1>2
    <2> HIDE DEF body
    <2> QED BY <2>1, <2>2
<1>4. f = body(f)
    BY <1>3, Zenon
<1>5. ASSUME NEW w PROVE Capped(w) = f[CapRounds][w]
    BY Zenon DEF Capped
<1> HIDE DEF f
<1>6. ASSUME NEW w \in Numbers PROVE f[0][w] = w
    <2>1. f[0] = body(f)[0] /\ 0 \in Nat
        BY <1>4
    <2> QED BY <2>1
<1>7. ASSUME NEW k \in Nat, NEW w \in Numbers
      PROVE  f[k + 1][w] = IF Over(w) = {} THEN w ELSE f[k][Round(w)]
    <2>1. k + 1 \in Nat /\ k + 1 # 0 /\ (k + 1) - 1 = k
        OBVIOUS
    <2>2. f[k + 1] = body(f)[k + 1]
        BY <1>4, Zenon
    <2>3. body(f)[k + 1][w] = IF k + 1 = 0 \/ Over(w) = {} THEN w ELSE f[(k + 1) - 1][Round(w)]
        BY <2>1
    <2> HIDE DEF body
    <2> QED BY <2>1, <2>2, <2>3
<1> QED BY <1>5, <1>6, <1>7

\* What n rounds make of w: each one but the last caps a name more.
RoundsGive(n, w, r) ==
    /\ r \in Numbers /\ Nonnegative(r)
    /\ \A s \in Symbols : w[s] = Zero => r[s] = Zero
    /\ Total(r) \preceq Total(w)
    /\ Over(r) = {} \/ Cardinality(AtCap(w)) + n <= Cardinality(AtCap(r))

LEMMA RoundsStep ==
    ASSUME rule \in Rules, NEW w \in Numbers, Nonnegative(w), Over(w) # {}, NEW n \in Nat,
           NEW r, RoundsGive(n, Round(w), r)
    PROVE  RoundsGive(n + 1, w, r)
<1> DEFINE new == Round(w)
<1>1. /\ new \in Numbers /\ Nonnegative(new)
      /\ \A s \in Symbols : w[s] = Zero => new[s] = Zero
      /\ AtCap(w) \cup Over(w) \subseteq AtCap(new)
      /\ Total(new) \preceq Total(w)
    BY RoundIs
<1> HIDE DEF new
<1>2. /\ r \in Numbers /\ Nonnegative(r)
      /\ \A s \in Symbols : new[s] = Zero => r[s] = Zero
      /\ Total(r) \preceq Total(new)
      /\ Over(r) = {} \/ Cardinality(AtCap(new)) + n <= Cardinality(AtCap(r))
    BY DEF RoundsGive, new
<1>3. Total(r) \in Rational /\ Total(new) \in Rational /\ Total(w) \in Rational
    BY <1>1, <1>2, Totals
<1>4. Total(r) \preceq Total(w)
    BY <1>1, <1>2, <1>3, OrderedSteps
<1>5. Cardinality(AtCap(w)) + 1 <= Cardinality(AtCap(new)) /\ Cardinality(AtCap(w)) \in Nat
      /\ Cardinality(AtCap(new)) \in Nat /\ Cardinality(AtCap(r)) \in Nat
    <2>1. PICK y \in Symbols : rule.maxWeight \prec w[y]
        BY DEF Over
    <2>2. y \in Over(w) /\ w[y] \in Rational /\ rule.maxWeight \in Rational
        BY <2>1, NumbersAre, RuleIs DEF Over, IsRule
    <2>3. y \notin AtCap(w)
        BY <2>1, <2>2, Ordered DEF AtCap
    <2>4. /\ IsFiniteSet(Symbols) /\ AtCap(w) \in SUBSET Symbols
          /\ AtCap(new) \in SUBSET Symbols /\ AtCap(r) \in SUBSET Symbols
        BY RiskParityAssumption DEF AtCap
    <2>5. IsFiniteSet(AtCap(w)) /\ IsFiniteSet(AtCap(new)) /\ IsFiniteSet(AtCap(r))
        BY <2>4, FS_Subset
    <2>6. Cardinality(AtCap(w) \cup {y}) = Cardinality(AtCap(w)) + 1
        BY <2>3, <2>5, FS_AddElement
    <2>7. AtCap(w) \cup {y} \in SUBSET AtCap(new)
        BY <1>1, <2>2
    <2>8. Cardinality(AtCap(w) \cup {y}) <= Cardinality(AtCap(new))
        BY <2>5, <2>7, FS_Subset
    <2>9. /\ Cardinality(AtCap(w)) \in Nat /\ Cardinality(AtCap(new)) \in Nat
          /\ Cardinality(AtCap(r)) \in Nat
        BY <2>5, FS_CardinalityType
    <2> QED BY <2>6, <2>8, <2>9
<1>6. Over(r) = {} \/ Cardinality(AtCap(w)) + (n + 1) <= Cardinality(AtCap(r))
    BY <1>2, <1>5
<1> QED BY <1>1, <1>2, <1>4, <1>6 DEF RoundsGive

\* What cap_weights returns: at most what it was given, for the same names, and
\* none above the cap unless ten names are at it already.
LEMMA CappedIs ==
    ASSUME rule \in Rules, NEW w \in Numbers, Nonnegative(w)
    PROVE  /\ RoundsGive(CapRounds, w, Capped(w))
           /\ Over(w) = {} => Capped(w) = w
           /\ Over(w) # {} /\ Over(Round(w)) = {} => Capped(w) = Round(w)
<1>1. PICK F : /\ \A x \in Numbers : F[0][x] = x
               /\ \A k \in Nat, x \in Numbers :
                    F[k + 1][x] = IF Over(x) = {} THEN x ELSE F[k][Round(x)]
               /\ \A x \in Numbers : Capped(x) = F[CapRounds][x]
    BY RoundsRun
<1> DEFINE Holds(k) == \A x \in Numbers : Nonnegative(x) => RoundsGive(k, x, F[k][x])
           wrong == {k \in Nat : ~Holds(k)}
<1>2. ASSUME NEW k \in Nat PROVE Holds(k)
    <2> SUFFICES ASSUME wrong # {} PROVE FALSE
        OBVIOUS
    <2>1. PICK m \in wrong : \A j \in wrong : m <= j
        BY LeastNumber
    <2>2. PICK x \in Numbers : Nonnegative(x) /\ ~RoundsGive(m, x, F[m][x])
        BY <2>1
    <2>3. Total(x) \in Rational /\ Total(x) \preceq Total(x)
        BY Totals, Ordered
    <2>4. Cardinality(AtCap(x)) \in Nat
        BY RiskParityAssumption, FS_Subset, FS_CardinalityType DEF AtCap
    <2>5. CASE m = 0
        <3>1. F[m][x] = x
            BY <1>1, <2>5
        <3>2. RoundsGive(0, x, x)
            BY <2>2, <2>3, <2>4 DEF RoundsGive
        <3> QED BY <2>2, <2>5, <3>1, <3>2
    <2>6. CASE m # 0
        <3>1. m - 1 \in Nat /\ (m - 1) + 1 = m /\ ~(m <= m - 1)
            BY <2>1, <2>6
        <3>2. Holds(m - 1)
            <4> HIDE DEF Holds
            <4> QED BY <2>1, <3>1
        <3>3. F[m][x] = IF Over(x) = {} THEN x ELSE F[m - 1][Round(x)]
            BY <1>1, <3>1
        <3>4. CASE Over(x) = {}
            <4>1. RoundsGive(m, x, x)
                BY <2>2, <2>3, <3>4 DEF RoundsGive
            <4> QED BY <2>2, <3>3, <3>4, <4>1
        <3>5. CASE Over(x) # {}
            <4>1. Round(x) \in Numbers /\ Nonnegative(Round(x))
                BY <2>2, RoundIs
            <4>2. RoundsGive(m - 1, Round(x), F[m - 1][Round(x)])
                BY <3>2, <4>1
            <4>3. RoundsGive((m - 1) + 1, x, F[m - 1][Round(x)])
                BY <2>2, <3>1, <3>5, <4>2, RoundsStep
            <4> QED BY <2>2, <3>1, <3>3, <3>5, <4>3
        <3> QED BY <3>4, <3>5
    <2> QED BY <2>5, <2>6
<1>3. CapRounds \in Nat /\ CapRounds = 9 + 1 /\ 9 \in Nat /\ CapRounds = (8 + 1) + 1 /\ 8 \in Nat
    BY DEF CapRounds
<1>4. RoundsGive(CapRounds, w, Capped(w))
    BY <1>1, <1>2, <1>3
<1>5. ASSUME Over(w) = {} PROVE Capped(w) = w
    BY <1>1, <1>3, <1>5
<1>6. ASSUME Over(w) # {}, Over(Round(w)) = {} PROVE Capped(w) = Round(w)
    <2>1. Round(w) \in Numbers
        BY RoundType
    <2>2. Capped(w) = F[8 + 1][Round(w)]
        BY <1>1, <1>3, <1>6
    <2> QED BY <1>1, <1>3, <1>6, <2>1, <2>2
<1> QED BY <1>4, <1>5, <1>6

\* The ten rounds of the loop are enough when a universe has no more names than
\* rounds, or eleven names at the cap are more than the account.
TenRounds == \A r \in Rules :
    r.top <= CapRounds \/ One \prec r.maxWeight ** R(CapRounds + 1)

LEMMA CapHolds ==
    ASSUME TenRounds, rule \in Rules, NEW w \in Numbers, Sized(w),
           NEW names \in SUBSET Symbols, Cardinality(names) <= rule.top,
           \A s \in Symbols : s \notin names => w[s] = Zero
    PROVE  Over(Capped(w)) = {}
<1> DEFINE r == Capped(w)
           cap == rule.maxWeight
<1> SUFFICES ASSUME Over(r) # {} PROVE FALSE
    OBVIOUS
<1>1. /\ r \in Numbers /\ Nonnegative(r)
      /\ \A s \in Symbols : w[s] = Zero => r[s] = Zero
      /\ Total(r) \preceq Total(w)
      /\ Cardinality(AtCap(w)) + CapRounds <= Cardinality(AtCap(r))
    BY CappedIs DEF Sized, RoundsGive
<1>2. cap \in Rational /\ Positive(cap) /\ rule.top \in Nat
      /\ (rule.top <= CapRounds \/ One \prec cap ** R(CapRounds + 1))
    BY RuleIs DEF IsRule, TenRounds
<1> HIDE DEF r, cap
<1>3. PICK y \in Symbols : cap \prec r[y]
    BY DEF Over, cap
<1> DEFINE L == AtCap(r) \cup {y}
           h == [s \in Symbols |-> IF s \in L THEN cap ELSE Zero]
<1>4. ASSUME NEW s \in Symbols PROVE r[s] \in Rational /\ Zero \preceq r[s]
    BY <1>1, NumbersAre DEF Nonnegative
<1>5. ASSUME NEW s \in Symbols, s \in L PROVE cap \preceq r[s] /\ s \in names
    <2>1. cap \preceq r[s]
        <3>1. s = y \/ r[s] = cap
            BY <1>5 DEF AtCap, cap
        <3> QED BY <1>2, <1>3, <1>4, <3>1, Ordered
    <2>2. Positive(r[s]) /\ r[s] # Zero
        <3>1. Positive(r[s])
            BY <1>2, <1>4, <2>1, PositiveAbove
        <3> QED BY <1>4, <3>1, Signs DEF Positive
    <2> QED BY <1>1, <2>1, <2>2
<1>6. IsFiniteSet(Symbols) /\ AtCap(w) \in SUBSET Symbols /\ AtCap(r) \in SUBSET Symbols
    BY RiskParityAssumption DEF AtCap
<1>7. L \in SUBSET Symbols /\ L \subseteq names
    BY <1>5, <1>6
<1>8. y \notin AtCap(r)
    BY <1>2, <1>3, <1>4, Ordered DEF AtCap, cap
<1>9. IsFiniteSet(AtCap(w)) /\ IsFiniteSet(AtCap(r)) /\ IsFiniteSet(names)
    BY <1>6, FS_Subset
<1>10. Cardinality(L) = Cardinality(AtCap(r)) + 1 /\ Cardinality(L) <= Cardinality(names)
    BY <1>7, <1>8, <1>9, FS_AddElement, FS_Subset
<1>11. Cardinality(AtCap(w)) \in Nat /\ Cardinality(AtCap(r)) \in Nat
       /\ Cardinality(names) \in Nat /\ Cardinality(L) \in Nat
    BY <1>9, <1>10, FS_CardinalityType
<1>12. CapRounds + 1 <= Cardinality(L) /\ CapRounds = 10
    BY <1>1, <1>10, <1>11 DEF CapRounds
<1>13. One \prec cap ** R(CapRounds + 1)
    BY <1>2, <1>10, <1>11, <1>12
<1>14. Total(h) = cap ** R(Cardinality(L)) /\ Total(h) \preceq Total(r)
    <2>1. h \in Numbers
        BY <1>2, Constants DEF Numbers
    <2>2. \A s \in Symbols : h[s] = IF s \in L THEN cap ELSE Zero
        OBVIOUS
    <2>3. \A s \in Symbols : h[s] \preceq r[s]
        BY <1>4, <1>5, <2>2
    <2> HIDE DEF h, L
    <2> QED BY <1>1, <1>2, <1>7, <2>1, <2>2, <2>3, TotalOfSome, TotalsOrder
<1>15. Total(r) \preceq One /\ Total(r) \in Rational
    <2>1. Total(r) \in Rational /\ Total(w) \in Rational /\ Total(w) \preceq One
        BY <1>1, Totals DEF Sized
    <2> QED BY <1>1, <2>1, OrderedSteps, Constants
<1> HIDE DEF L, h
<1>16. cap ** R(CapRounds + 1) \preceq cap ** R(Cardinality(L))
       /\ cap ** R(CapRounds + 1) \in Rational /\ cap ** R(Cardinality(L)) \in Rational
    <2> DEFINE m == R(CapRounds + 1)
               n == R(Cardinality(L))
    <2>1. m \in Rational /\ n \in Rational /\ m \preceq n
        <3>1. /\ CapRounds + 1 \in Int /\ Cardinality(L) \in Int
              /\ (CapRounds + 1) * 1 <= Cardinality(L) * 1
            BY <1>11, <1>12
        <3>2. m = Lowest(CapRounds + 1, 1) /\ n = Lowest(Cardinality(L), 1)
              /\ m \in Rational /\ n \in Rational
            BY <3>1, WholeIsRational
        <3>3. 1 \in Whole
            BY DEF Whole
        <3> QED BY <3>1, <3>2, <3>3, LowestOrder
    <2> HIDE DEF m, n
    <2>2. Zero \preceq cap
        BY <1>2, Signs, Ordered, Constants
    <2>3. m ** cap \preceq n ** cap
        BY <1>2, <2>1, <2>2, ProductOrder
    <2>4. m ** cap = cap ** m /\ n ** cap = cap ** n /\ m ** cap \in Rational /\ n ** cap \in Rational
        BY <1>2, <2>1, ProductCommutes, ProductType
    <2> QED BY <2>3, <2>4 DEF m, n
<1> DEFINE a == cap ** R(CapRounds + 1)
           b == cap ** R(Cardinality(L))
<1> HIDE DEF a, b
<1>17. /\ a \in Rational /\ b \in Rational /\ a \preceq b /\ One \prec a
       /\ b \preceq Total(r) /\ Total(r) \preceq One /\ Total(r) \in Rational
    BY <1>13, <1>14, <1>15, <1>16 DEF a, b
<1>18. a \preceq One
    BY <1>17, OrderedSteps, Constants
<1> QED BY <1>17, <1>18, Ordered, Constants

-----------------------------------------------------------------------------
(* The weights that are decided *)

Readable(leans) == \A s \in Symbols : leans[s] = None \/ (leans[s] \in Rational /\ Positive(leans[s]))
Read(names, leans) == {s \in names : leans[s] # None}
Shares(names, leans) ==
    [s \in Symbols |-> Of(Read(names, leans), leans)[s] // Total(Of(Read(names, leans), leans))]

\* Before the cap: a part of the account for each name with a lean, all of it
\* together.
LEMMA SharesAre ==
    ASSUME NEW names \in SUBSET Symbols, NEW leans, Readable(leans), Read(names, leans) # {}
    PROVE  LET w == Shares(names, leans)
               total == Total(Of(Read(names, leans), leans))
           IN  /\ w \in Numbers /\ Nonnegative(w) /\ Total(w) = One
               /\ total \in Rational /\ total # Zero
               /\ \A s \in Symbols :
                     w[s] = IF s \in Read(names, leans) THEN leans[s] // total ELSE Zero
<1> DEFINE read == Read(names, leans)
           f == Of(read, leans)
           total == Total(f)
           w == Shares(names, leans)
<1>1. ASSUME NEW s \in Symbols
      PROVE  s \in read => leans[s] \in Rational /\ Positive(leans[s])
    BY DEF Read, Readable
<1>2. /\ f \in Numbers
      /\ \A s \in Symbols : f[s] = IF s \in read THEN leans[s] ELSE Zero
    BY <1>1, OfType
<1>3. PICK x \in Symbols : x \in read
    BY DEF Read
<1>4. w = [s \in Symbols |-> f[s] // total]
    BY DEF Shares
<1> HIDE DEF read, w
<1>5. ASSUME NEW s \in Symbols PROVE f[s] \in Rational /\ Zero \preceq f[s]
    <2>1. s \in read => Zero \preceq leans[s]
        BY <1>1, Signs, Ordered, Constants
    <2> HIDE DEF f
    <2> QED BY <1>1, <1>2, <2>1, Ordered, Constants
<1> HIDE DEF f
<1>6. total \in Rational /\ Positive(total) /\ total # Zero
    <2>1. f[x] # Zero
        BY <1>1, <1>2, <1>3, Signs DEF Positive
    <2>2. total \in Rational /\ Positive(total)
        BY <1>2, <1>5, <2>1, TotalAbove, Totals
    <2> HIDE DEF total
    <2> QED BY <2>2, Signs DEF Positive
<1>7. ASSUME NEW s \in Symbols
      PROVE  /\ w[s] = f[s] // total /\ w[s] \in Rational /\ Zero \preceq w[s]
             /\ f[s] = total ** w[s]
             /\ f[s] = Zero => w[s] = Zero
    <2> HIDE DEF total
    <2>1. w[s] = f[s] // total
        BY <1>4
    <2>2. w[s] \in Rational /\ w[s] ** total = f[s]
        BY <1>5, <1>6, <2>1, Quotient
    <2>3. Zero ** total = Zero
        BY <1>6, Neutral
    <2>4. Zero \preceq w[s]
        BY <1>5, <1>6, <2>2, <2>3, ScaledBack, Constants
    <2>5. f[s] = Zero => w[s] = Zero
        BY <1>6, <2>2, <2>3, ProductCancels, Constants
    <2> QED BY <1>6, <2>1, <2>2, <2>4, <2>5, ProductCommutes
<1>8. w \in Numbers /\ Nonnegative(w)
    <2>1. w = [s \in Symbols |-> w[s]]
        BY <1>4
    <2>2. w \in Numbers
        BY <1>7, <2>1, Zenon DEF Numbers
    <2> QED BY <1>7, <2>2 DEF Nonnegative
<1>9. Total(w) = One
    <2>1. total = total ** Total(w)
        BY <1>2, <1>6, <1>7, <1>8, TotalsScale
    <2>2. Total(w) \in Rational
        BY <1>8, Totals
    <2> HIDE DEF total
    <2>3. One ** total = Total(w) ** total
        BY <1>6, <2>1, <2>2, Neutral, ProductCommutes, Constants
    <2> QED BY <1>6, <2>2, <2>3, ProductCancels, Constants
<1>10. ASSUME NEW s \in Symbols
       PROVE  w[s] = IF s \in read THEN leans[s] // total ELSE Zero
    <2> HIDE DEF total
    <2> QED BY <1>2, <1>7
<1> QED BY <1>6, <1>8, <1>9, <1>10 DEF w, read, total, f

LEMMA NothingIs == Nothing \in Numbers /\ Sized(Nothing) /\ Total(Nothing) = Zero
                   /\ \A s \in Symbols : Nothing[s] = Zero
<1>1. Nothing \in Numbers /\ \A s \in Symbols : Nothing[s] = Zero
    BY Constants DEF Nothing, Numbers
<1>2. Total(Nothing) = Zero
    BY <1>1, TotalNothing
<1>3. Zero \preceq Zero /\ Zero \preceq One
    BY Constants, Ordered, Signs
<1> QED BY <1>1, <1>2, <1>3 DEF Sized, Nonnegative

\* What Weights decides: no more than the account, only for the names it was
\* given, and none above the cap.
LEMMA WeightsAre ==
    ASSUME rule \in Rules, NEW names \in SUBSET Symbols, NEW leans, Readable(leans)
    PROVE  LET w == Weights(names, leans)
           IN  /\ w \in Numbers /\ Sized(w)
               /\ \A s \in Symbols : s \notin names => w[s] = Zero
               /\ TenRounds /\ Cardinality(names) <= rule.top =>
                      \A s \in Symbols : w[s] \preceq rule.maxWeight
<1> DEFINE w == Weights(names, leans)
           x == Shares(names, leans)
<1>0. rule.maxWeight \in Rational /\ Positive(rule.maxWeight) /\ Zero \preceq rule.maxWeight
    <2>1. rule.maxWeight \in Rational /\ Positive(rule.maxWeight)
        BY RuleIs DEF IsRule
    <2> QED BY <2>1, Signs, Ordered, Constants
<1>1. CASE Read(names, leans) = {}
    <2>1. w = Nothing
        BY <1>1 DEF Weights, Read
    <2> QED BY <1>0, <2>1, NothingIs
<1>2. CASE Read(names, leans) # {}
    <2>1. w = Capped(x)
        BY <1>2 DEF Weights, Read, Shares
    <2>2. /\ x \in Numbers /\ Nonnegative(x) /\ Total(x) = One
          /\ \A s \in Symbols : s \notin names => x[s] = Zero
        <3>1. Read(names, leans) \subseteq names
            BY DEF Read
        <3> QED BY <1>2, <3>1, SharesAre
    <2> HIDE DEF w, x
    <2>3. RoundsGive(CapRounds, x, w)
        BY <2>1, <2>2, CappedIs
    <2>4. Sized(x)
        BY <2>2, Ordered, Constants DEF Sized
    <2>5. /\ w \in Numbers /\ Sized(w)
          /\ \A s \in Symbols : s \notin names => w[s] = Zero
        BY <2>2, <2>3 DEF RoundsGive, Sized
    <2>6. ASSUME TenRounds, Cardinality(names) <= rule.top, NEW s \in Symbols
          PROVE  w[s] \preceq rule.maxWeight
        <3>1. Over(w) = {}
            BY <2>1, <2>2, <2>4, <2>6, CapHolds
        <3>2. ~(rule.maxWeight \prec w[s])
            BY <3>1 DEF Over
        <3>3. w[s] \in Rational
            BY <2>5, NumbersAre
        <3> QED BY <1>0, <3>2, <3>3, Ordered
    <2> QED BY <2>5, <2>6 DEF w
<1> QED BY <1>1, <1>2

\* Equal weights are the whole account, or as much of it as the cap allows.
LEMMA EqualIs ==
    ASSUME rule \in Rules, NEW names \in SUBSET Symbols, names # {}
    PROVE  \/ Total(Weights(names, Equal)) = One
           \/ \A s \in names : Weights(names, Equal)[s] = rule.maxWeight
<1> DEFINE w == Weights(names, Equal)
           x == Shares(names, Equal)
           total == Total(Of(Read(names, Equal), Equal))
           part == One // total
           cap == rule.maxWeight
           new == Round(x)
<1>1. /\ \A s \in Symbols : Equal[s] = One
      /\ One # None /\ One \in Rational /\ Positive(One)
    <2>1. One # None
        BY RiskParityAssumption, Constants
    <2>2. Positive(One)
        BY Constants DEF Positive
    <2> QED BY <2>1, <2>2, Constants DEF Equal
<1>2. Readable(Equal) /\ Read(names, Equal) = names
    BY <1>1 DEF Readable, Read
<1>3. w = Capped(x)
    <2>1. {s \in names : Equal[s] # None} # {}
        BY <1>2 DEF Read
    <2> QED BY <2>1 DEF Weights, Read, Shares
<1>4. /\ x \in Numbers /\ Nonnegative(x) /\ Total(x) = One
      /\ total \in Rational /\ total # Zero
      /\ \A s \in Symbols : x[s] = IF s \in names THEN Equal[s] // total ELSE Zero
    BY <1>2, SharesAre
<1>5. cap \in Rational /\ Positive(cap)
    BY RuleIs DEF IsRule
<1> HIDE DEF x, total
<1>6. \A s \in Symbols : x[s] = IF s \in names THEN part ELSE Zero
    BY <1>1, <1>4
<1>7. part \in Rational
    BY <1>4, Quotient, Constants
<1> HIDE DEF part
<1>8. /\ Over(x) = {s \in Symbols : cap \prec x[s]}
      /\ Room(x) = {s \in Symbols : Positive(x[s]) /\ x[s] \prec cap}
      /\ Over(new) = {s \in Symbols : cap \prec new[s]}
    BY DEF Over, Room
<1>9. CASE Over(x) = {}
    BY <1>3, <1>4, <1>9, CappedIs
<1>10. CASE Over(x) # {}
    <2>1. ~Positive(Zero) /\ ~(cap \prec Zero)
        <3>1. Zero \preceq cap /\ Zero \in Rational
            BY <1>5, Signs, Ordered, Constants
        <3>2. ~(cap \prec Zero)
            BY <1>5, <3>1, Ordered
        <3> QED BY <3>2, Constants DEF Positive
    <2>2. cap \prec part
        BY <1>6, <1>8, <1>10, <2>1
    <2>3. ~(part \prec cap) /\ ~(cap \prec cap)
        BY <1>5, <1>7, <2>2, Ordered
    <2>4. Over(x) = names /\ Room(x) = {}
        BY <1>6, <1>8, <2>1, <2>2, <2>3
    <2>5. \A s \in Symbols : new[s] = IF s \in names THEN cap ELSE x[s]
        <3>1. \A s \in Symbols :
                 new[s] = IF s \in Over(x) THEN cap
                          ELSE IF s \in Room(x)
                               THEN x[s] ++ ((Total(Of(Over(x), Above(x))) ** x[s])
                                                 // Total(Of(Room(x), x)))
                               ELSE x[s]
            BY <1>4, RoundParts, Zenon DEF new, cap
        <3> HIDE DEF new, cap
        <3> QED BY <2>4, <3>1
    <2>6. Over(new) = {}
        <3> HIDE DEF new, cap
        <3> QED BY <1>6, <1>8, <2>1, <2>3, <2>5
    <2>7. w = new
        BY <1>3, <1>4, <1>10, <2>6, CappedIs
    <2> QED BY <2>5, <2>7
<1> QED BY <1>9, <1>10

\* A multiple of at most one leaves the weights no larger.
LEMMA CutIs ==
    ASSUME NEW t \in Numbers, Sized(t), NEW c \in Rational, Zero \preceq c, c \preceq One,
           NEW x, x = [s \in Symbols |-> t[s] ** c]
    PROVE  /\ x \in Numbers /\ Sized(x) /\ Total(x) \preceq Total(t)
           /\ \A s \in Symbols : x[s] \preceq t[s] /\ (t[s] = Zero => x[s] = Zero)
<1>1. ASSUME NEW s \in Symbols
      PROVE  /\ t[s] \in Rational /\ x[s] \in Rational /\ Zero \preceq x[s] /\ x[s] \preceq t[s]
             /\ t[s] = Zero => x[s] = Zero
    <2>1. t[s] \in Rational /\ Zero \preceq t[s] /\ x[s] = t[s] ** c
        BY NumbersAre DEF Sized, Nonnegative
    <2>2. t[s] ** c \in Rational /\ t[s] ** c = c ** t[s]
        BY <2>1, ProductType, ProductCommutes
    <2>3. Zero ** c \preceq t[s] ** c
        BY <2>1, ProductOrder, Constants
    <2>4. c ** t[s] \preceq One ** t[s]
        BY <2>1, ProductOrder, Constants
    <2> QED BY <2>1, <2>2, <2>3, <2>4, Neutral
<1>2. x \in Numbers
    BY <1>1 DEF Numbers
<1>3. Total(x) \preceq Total(t)
    BY <1>1, <1>2, TotalsOrder
<1>4. Total(x) \in Rational /\ Total(t) \in Rational /\ Total(t) \preceq One
    BY <1>2, Totals DEF Sized
<1>5. Total(x) \preceq One
    BY <1>3, <1>4, OrderedSteps, Constants
<1> QED BY <1>1, <1>2, <1>3, <1>5 DEF Sized, Nonnegative

LEMMA LeansAreReadable ==
    ASSUME NEW leans \in [Symbols -> Leans]
    PROVE  Readable(leans) /\ Readable(Equal)
<1>1. Readable(leans)
    BY RiskParityAssumption DEF Readable
<1>2. Readable(Equal)
    BY Constants DEF Readable, Equal, Positive
<1> QED BY <1>1, <1>2

\* A rebalance: the book is no larger than the benchmark, within the cap, and
\* holds only names of the universe that pass.
LEMMA RebalancedIs ==
    ASSUME rule \in Rules, NEW u \in SUBSET Symbols, Cardinality(u) <= rule.top,
           NEW leans \in [Symbols -> Leans], NEW scale \in Rational,
           Zero \preceq scale, scale \preceq One, NEW i, NEW row,
           NEW d, d = Rebalanced(u, leans, scale, i, row)
    PROVE  /\ d \in [book : Numbers \cup {None}, passive : Numbers \cup {None},
                     exits : SUBSET Symbols]
           /\ d.exits = {} /\ d.passive \in Numbers /\ Sized(d.passive)
           /\ d.book # None =>
                /\ d.book \in Numbers /\ Sized(d.book)
                /\ \A s \in Symbols : d.book[s] # Zero => s \in u /\ Passes(s, i, row)
                /\ TenRounds => /\ \A s \in Symbols : d.book[s] \preceq rule.maxWeight
                                /\ Total(d.book) \preceq Total(d.passive)
<1> DEFINE names == {s \in u : Passes(s, i, row)}
           by == IF rule.scheme = "equal" THEN Equal ELSE leans
           t == Weights(names, by)
           p == Weights(u, Equal)
           b == [s \in Symbols |-> t[s] ** scale]
<1>1. d = [book |-> IF t = Nothing THEN None ELSE b, passive |-> p, exits |-> {}]
    BY DEF Rebalanced, Undecided
<1>2. Readable(by) /\ Readable(Equal)
    BY LeansAreReadable
<1>3. names \in SUBSET Symbols /\ Cardinality(names) <= rule.top /\ names \subseteq u
    <2>1. IsFiniteSet(u)
        BY RiskParityAssumption, FS_Subset
    <2>2. names \in SUBSET u
        OBVIOUS
    <2> HIDE DEF names
    <2>3. IsFiniteSet(names) /\ Cardinality(names) <= Cardinality(u)
        BY <2>1, <2>2, FS_Subset
    <2>4. Cardinality(names) \in Nat /\ Cardinality(u) \in Nat /\ rule.top \in Nat
        BY <2>1, <2>3, FS_CardinalityType, RuleIs DEF IsRule
    <2> QED BY <2>2, <2>3, <2>4
<1>4. \A s \in names : s \in u /\ Passes(s, i, row)
    OBVIOUS
<1>5. names = {} => t = Nothing
    BY DEF Weights
<1> HIDE DEF names, by
<1>6. /\ t \in Numbers /\ Sized(t)
      /\ \A s \in Symbols : s \notin names => t[s] = Zero
      /\ TenRounds => \A s \in Symbols : t[s] \preceq rule.maxWeight
    BY <1>2, <1>3, WeightsAre
<1>7. p \in Numbers /\ Sized(p) /\ \A s \in Symbols : s \notin u => p[s] = Zero
    BY <1>2, WeightsAre
<1> HIDE DEF t
<1>8. /\ b \in Numbers /\ Sized(b) /\ Total(b) \preceq Total(t)
      /\ \A s \in Symbols : b[s] \preceq t[s] /\ (t[s] = Zero => b[s] = Zero)
    BY <1>6, CutIs
<1> HIDE DEF b
<1>9. ASSUME TenRounds, NEW s \in Symbols PROVE b[s] \preceq rule.maxWeight
    <2>1. b[s] \in Rational /\ t[s] \in Rational
        BY <1>6, <1>8, NumbersAre
    <2>2. rule.maxWeight \in Rational
        BY RuleIs DEF IsRule
    <2> QED BY <1>6, <1>8, <1>9, <2>1, <2>2, OrderedSteps
<1>10. ASSUME TenRounds, t # Nothing PROVE Total(b) \preceq Total(p)
    <2>1. u # {}
        BY <1>3, <1>5, <1>10
    <2>2. CASE Total(p) = One
        BY <1>8, <2>2 DEF Sized
    <2>3. CASE \A s \in u : p[s] = rule.maxWeight
        <3>1. ASSUME NEW s \in Symbols PROVE b[s] \preceq p[s]
            <4>1. CASE s \in u
                BY <1>9, <1>10, <2>3, <4>1
            <4>2. CASE s \notin u
                <5>1. b[s] = Zero /\ p[s] = Zero
                    BY <1>3, <1>6, <1>7, <1>8, <4>2
                <5> QED BY <5>1, Ordered, Constants
            <4> QED BY <4>1, <4>2
        <3> HIDE DEF p
        <3> QED BY <1>7, <1>8, <3>1, TotalsOrder
    <2> QED BY <2>1, <2>2, <2>3, EqualIs
<1> HIDE DEF p
<1>11. d.book # None => t # Nothing /\ d.book = b
    BY <1>1
<1>12. \A s \in Symbols : b[s] # Zero => s \in names
    BY <1>6, <1>8
<1> QED BY <1>1, <1>4, <1>7, <1>8, <1>9, <1>10, <1>11, <1>12

-----------------------------------------------------------------------------
(* Marking *)

LEMMA LastRow ==
    ASSUME NEW S, NEW q \in Seq(S), q # <<>>
    PROVE  Last(q) \in S /\ Last(q) = q[Len(q)] /\ Len(q) \in Nat \ {0}
<1>1. Len(q) \in Nat \ {0} /\ q[Len(q)] \in S
    OBVIOUS
<1> QED BY <1>1 DEF Last

\* A symbol moves by the ratio of two closes, or not at all.
LEMMA MovedIs ==
    ASSUME rows \in Seq(Row), rows # <<>>, NEW row \in Row, NEW s \in Symbols
    PROVE  /\ Moved(s, row) \in Rational /\ Positive(Moved(s, row))
           /\ row[s] = None => Moved(s, row) = One
           /\ row[s] # None /\ Last(rows)[s] # None =>
                  R(Last(rows)[s]) ** Moved(s, row) = R(row[s])
<1> DEFINE old == Last(rows)[s]
           new == row[s]
<1>1. old \in Prices \cup {None} /\ new \in Prices \cup {None}
    <2>1. Last(rows) \in Row
        BY LastRow
    <2> HIDE DEF old, new
    <2> QED BY <2>1 DEF Row, old, new
<1>2. One \in Rational /\ Positive(One)
    BY Constants DEF Positive
<1>3. CASE new = None \/ old = None
    <2>1. Moved(s, row) = One
        BY <1>3 DEF Moved
    <2> QED BY <1>2, <1>3, <2>1
<1>4. CASE new # None /\ old # None
    <2>1. Moved(s, row) = Q(new, old)
        BY <1>4 DEF Moved
    <2>2. new \in Nat \ {0} /\ old \in Nat \ {0}
        BY <1>1, <1>4, RiskParityAssumption
    <2> HIDE DEF old, new
    <2>3. Q(new, old) \in Rational /\ Positive(Q(new, old)) /\ R(old) ** Q(new, old) = R(new)
        BY <2>2, CloseIsPositive
    <2> QED BY <1>4, <2>1, <2>3 DEF old, new
<1> QED BY <1>3, <1>4

LEMMA GrownIs ==
    ASSUME rows \in Seq(Row), rows # <<>>, NEW row \in Row, NEW w \in Numbers, Nonnegative(w)
    PROVE  /\ Grown(w, row) \in Numbers /\ Nonnegative(Grown(w, row))
           /\ \A s \in Symbols : /\ Grown(w, row)[s] = w[s] ** Moved(s, row)
                                 /\ Grown(w, row)[s] = Zero <=> w[s] = Zero
           /\ (\A s \in Symbols : w[s] = Zero) \/ Positive(Total(Grown(w, row)))
<1> DEFINE g == Grown(w, row)
<1>1. \A s \in Symbols : g[s] = w[s] ** Moved(s, row)
    BY DEF Grown
<1>2. g = [s \in Symbols |-> g[s]]
    BY DEF Grown
<1> HIDE DEF g
<1>3. ASSUME NEW s \in Symbols
      PROVE  g[s] \in Rational /\ Zero \preceq g[s] /\ (g[s] = Zero <=> w[s] = Zero)
    <2> DEFINE m == Moved(s, row)
    <2>1. m \in Rational /\ Positive(m) /\ m # Zero
        <3>1. m \in Rational /\ Positive(m)
            BY MovedIs
        <3> HIDE DEF m
        <3> QED BY <3>1, Signs DEF Positive
    <2>2. w[s] \in Rational /\ Zero \preceq w[s] /\ g[s] = w[s] ** m
        BY <1>1, NumbersAre DEF Nonnegative
    <2> HIDE DEF m
    <2>3. Zero \preceq m
        BY <2>1, Signs, Ordered, Constants
    <2>4. Zero ** m \preceq w[s] ** m /\ Zero ** m = Zero /\ w[s] ** m \in Rational
        BY <2>1, <2>2, <2>3, ProductOrder, ProductType, Neutral, Constants
    <2>5. w[s] ** m = Zero => w[s] = Zero
        BY <2>1, <2>2, <2>4, ProductCancels, Constants
    <2>6. w[s] = Zero => w[s] ** m = Zero
        BY <2>4
    <2> QED BY <2>2, <2>4, <2>5, <2>6
<1>4. g \in Numbers
    BY <1>2, <1>3, Zenon DEF Numbers
<1>5. ASSUME NEW s \in Symbols, w[s] # Zero PROVE Positive(Total(g))
    <2>1. g[s] # Zero
        BY <1>3, <1>5
    <2> QED BY <1>3, <1>4, <2>1, TotalAbove
<1> QED BY <1>1, <1>3, <1>4, <1>5 DEF g, Nonnegative

\* Marked at the close: every position is worth what it was times the move, and
\* the cash what it was.
LEMMA RevaluedIs ==
    ASSUME NEW a \in Accounts, Sized(a.weights), Zero \preceq a.equity,
           NEW grown \in Numbers, Nonnegative(grown),
           (\A s \in Symbols : a.weights[s] = Zero) \/ Positive(Total(grown)),
           \A s \in Symbols : grown[s] = Zero <=> a.weights[s] = Zero,
           NEW b, b = Revalued(a, grown)
    PROVE  /\ b \in Accounts /\ Sized(b.weights) /\ Zero \preceq b.equity
           /\ b.fees = a.fees
           /\ b.equity = (a.equity ** (One -- Total(a.weights))) ++ (a.equity ** Total(grown))
           /\ \A s \in Symbols : /\ b.weights[s] ** b.equity = a.equity ** grown[s]
                                 /\ b.weights[s] = Zero <=> a.weights[s] = Zero
<1> DEFINE w == a.weights
           e == a.equity
           W == Total(w)
           G == Total(grown)
           rest == One -- W
           total == rest ++ G
           x == b.weights
<1>1. /\ w \in Numbers /\ e \in Rational /\ a.fees \in Rational
      /\ \A s \in Symbols : w[s] \in Rational
      /\ W \in Rational /\ Zero \preceq W /\ W \preceq One
      /\ G \in Rational /\ Zero \preceq G
    <2>1. w \in Numbers /\ e \in Rational /\ a.fees \in Rational
        BY DEF Accounts
    <2>2. /\ \A s \in Symbols : w[s] \in Rational /\ Zero \preceq w[s]
          /\ W \preceq One
          /\ \A s \in Symbols : Zero \preceq grown[s]
        BY <2>1, NumbersAre DEF Sized, Nonnegative
    <2> HIDE DEF w, e
    <2> QED BY <2>1, <2>2, Totals
<1>2. b = [weights |-> [s \in Symbols |-> grown[s] // total], equity |-> e ** total,
           fees |-> a.fees]
    BY DEF Revalued, Drifted, Accounts
<1>3. /\ \A s \in Symbols : x[s] = grown[s] // total
      /\ x = [s \in Symbols |-> x[s]]
      /\ b = [weights |-> x, equity |-> e ** total, fees |-> a.fees]
    BY <1>2
<1>4. /\ \A s \in Symbols : grown[s] \in Rational /\ Zero \preceq grown[s]
      /\ W = Zero \/ Positive(G)
      /\ \A s \in Symbols : grown[s] = Zero <=> w[s] = Zero
      /\ Zero \preceq e
    <2>1. (\A s \in Symbols : w[s] = Zero) => W = Zero
        <3> HIDE DEF w
        <3> QED BY <1>1, TotalNothing
    <2> QED BY <2>1, NumbersAre DEF Nonnegative
<1> HIDE DEF w, e, x, W, G
<1>5. rest \in Rational /\ Zero \preceq rest /\ rest = One -- W
    BY <1>1, Apart, Constants
<1>6. total \in Rational /\ Positive(total) /\ total # Zero /\ G \preceq total /\ total = rest ++ G
    <2>1. W = Zero => rest = One
        BY NoDifference, Constants
    <2> HIDE DEF rest
    <2>2. total \in Rational
        BY <1>1, <1>5, SumType
    <2>3. G \preceq total
        <3>1. Zero ++ G \preceq rest ++ G
            BY <1>1, <1>5, SumOrder, Constants
        <3> QED BY <1>1, <3>1, Neutral
    <2>4. rest \preceq total
        <3>1. Zero ++ rest \preceq G ++ rest
            BY <1>1, <1>5, SumOrder, Constants
        <3> QED BY <1>1, <1>5, <3>1, Neutral, SumCommutes
    <2>5. Positive(total)
        <3>1. Positive(One)
            BY Constants DEF Positive
        <3> HIDE DEF total
        <3> QED BY <1>1, <1>4, <2>1, <2>2, <2>3, <2>4, <3>1, PositiveAbove, Constants
    <2> HIDE DEF total
    <2>6. total # Zero
        BY <2>2, <2>5, Signs DEF Positive
    <2> QED BY <2>2, <2>3, <2>5, <2>6 DEF total
<1> HIDE DEF rest, total
<1>7. ASSUME NEW s \in Symbols
      PROVE  /\ x[s] \in Rational /\ grown[s] = total ** x[s] /\ Zero \preceq x[s]
             /\ x[s] = Zero <=> w[s] = Zero
    <2>1. x[s] \in Rational /\ x[s] ** total = grown[s]
        BY <1>3, <1>4, <1>6, Quotient
    <2>2. Zero ** total = Zero
        BY <1>6, Neutral
    <2>3. Zero \preceq x[s]
        BY <1>4, <1>6, <2>1, <2>2, ScaledBack, Constants
    <2>4. grown[s] = Zero => x[s] = Zero
        BY <1>6, <2>1, <2>2, ProductCancels, Constants
    <2>5. x[s] = Zero => grown[s] = Zero
        BY <2>1, <2>2
    <2> QED BY <1>4, <1>6, <2>1, <2>3, <2>4, <2>5, ProductCommutes
<1>8. x \in Numbers
    BY <1>3, <1>7, Zenon DEF Numbers
<1>9. Total(x) \preceq One /\ Total(x) \in Rational
    <2>1. G = total ** Total(x) /\ Total(x) \in Rational
        BY <1>6, <1>7, <1>8, TotalsScale, Totals DEF G
    <2>2. Total(x) ** total \preceq One ** total
        BY <1>6, <2>1, ProductCommutes, Neutral
    <2> QED BY <1>6, <2>1, <2>2, ScaledBack, Constants
<1>10. e ** total \in Rational /\ Zero \preceq e ** total
    <2>1. Zero \preceq total
        BY <1>6, Signs, Ordered, Constants
    <2>2. Zero ** total \preceq e ** total
        BY <1>1, <1>4, <1>6, <2>1, ProductOrder, Constants
    <2> QED BY <1>1, <1>6, <2>2, ProductType, Neutral
<1>11. e ** total = (e ** rest) ++ (e ** G)
    BY <1>1, <1>5, <1>6, ProductDistributes
<1>12. ASSUME NEW s \in Symbols PROVE x[s] ** (e ** total) = e ** grown[s]
    <2>1. x[s] ** (e ** total) = (e ** total) ** x[s]
        BY <1>7, <1>10, ProductCommutes
    <2>2. (e ** total) ** x[s] = e ** (total ** x[s])
        BY <1>1, <1>6, <1>7, ProductAssociates
    <2> QED BY <1>7, <2>1, <2>2
<1>13. b.equity = e ** total /\ b.fees = a.fees /\ b \in Accounts
    BY <1>1, <1>3, <1>8, <1>10 DEF Accounts
<1> QED BY <1>5, <1>7, <1>8, <1>9, <1>10, <1>11, <1>12, <1>13 DEF Sized, Nonnegative, w, e, x, W, G

-----------------------------------------------------------------------------
(* Paying *)

\* A side costs at most half of what it trades.
CheapTrades == CostRate \preceq <<1, 2>>

\* Two books within the account are at most two accounts apart.
LEMMA TurnoverIs ==
    ASSUME NEW w \in Numbers, Sized(w), NEW t \in Numbers, Sized(t)
    PROVE  /\ Turnover(w, t) \in Rational /\ Zero \preceq Turnover(w, t)
           /\ Turnover(w, t) \preceq One ++ One
           /\ t = w => Turnover(w, t) = Zero
<1> DEFINE apart == [s \in Symbols |-> Abs(t[s] -- w[s])]
           both == [s \in Symbols |-> t[s] ++ w[s]]
           T == Total(t)
           W == Total(w)
<1>1. ASSUME NEW s \in Symbols
      PROVE  /\ both[s] = t[s] ++ w[s] /\ both[s] \in Rational
             /\ apart[s] \in Rational /\ Zero \preceq apart[s] /\ apart[s] \preceq both[s]
             /\ t = w => apart[s] = Zero
    <2> DEFINE a == t[s]
               b == w[s]
    <2>1. a \in Rational /\ b \in Rational /\ Zero \preceq a /\ Zero \preceq b
        BY NumbersAre DEF Sized, Nonnegative
    <2>2. apart[s] = Abs(a -- b) /\ both[s] = a ++ b /\ (t = w => a = b)
        OBVIOUS
    <2> HIDE DEF a, b
    <2>3. a ++ b \in Rational /\ a -- b \in Rational /\ (a = b => a -- b = Zero)
        BY <2>1, SumType, Difference, NoDifference
    <2>4. Abs(a -- b) \preceq a ++ b
        BY <2>1, DistanceBound
    <2>5. Abs(a -- b) \in Rational /\ Zero \preceq Abs(a -- b) /\ (a = b => Abs(a -- b) = Zero)
        BY <2>3, Distance, Signs
    <2>6. both[s] = t[s] ++ w[s]
        OBVIOUS
    <2> QED BY <2>2, <2>3, <2>4, <2>5, <2>6
<1>2. both \in Numbers /\ apart \in Numbers
    BY <1>1 DEF Numbers
<1>3. Turnover(w, t) = Total(apart)
    BY DEF Turnover
<1> HIDE DEF both, apart
<1>4. Total(apart) \preceq Total(both) /\ Total(apart) \in Rational /\ Zero \preceq Total(apart)
    BY <1>1, <1>2, TotalsOrder, Totals
<1>5. Total(both) = T ++ W
    BY <1>1, <1>2, TotalsAdd
<1>6. T \in Rational /\ W \in Rational /\ T \preceq One /\ W \preceq One
    BY Totals DEF Sized
<1> HIDE DEF T, W
<1>7. T ++ W \preceq One ++ W /\ W ++ One \preceq One ++ One /\ W ++ One = One ++ W
      /\ T ++ W \in Rational /\ One ++ W \in Rational /\ One ++ One \in Rational
    BY <1>6, SumOrder, SumCommutes, SumType, Constants
<1>8. T ++ W \preceq One ++ One
    BY <1>7, OrderedSteps
<1>9. Total(apart) \preceq One ++ One
    BY <1>4, <1>5, <1>7, <1>8, OrderedSteps
<1>10. t = w => Total(apart) = Zero
    BY <1>1, <1>2, TotalNothing
<1> QED BY <1>3, <1>4, <1>9, <1>10

LEMMA RateIs == /\ CostRate \in Rational /\ Zero \preceq CostRate
                /\ One -- CostRate \in Rational /\ Positive(One -- CostRate)
<1>1. CostRate \in Rational /\ Zero \preceq CostRate /\ CostRate \prec One
    BY RiskParityAssumption
<1>2. CostRate \preceq One /\ CostRate # One
    BY <1>1, Ordered, Constants
<1> QED BY <1>1, <1>2, Apart, Constants

\* The commission of a fill: no more than the account as long as trades are
\* cheap, and nothing when nothing is traded.
LEMMA PaidIs ==
    ASSUME NEW a \in Accounts, Sized(a.weights), Zero \preceq a.equity,
           NEW t \in Numbers, Sized(t), NEW p, p = Paid(a, t)
    PROVE  /\ p \in Accounts /\ p.weights = t /\ Zero \preceq p.equity
           /\ t = a.weights => p.equity = a.equity /\ p.fees = a.fees
           /\ CheapTrades => p.equity ++ (p.fees -- a.fees) = a.equity
<1> DEFINE e == a.equity
           f == a.fees
           n == Turnover(a.weights, t)
           cost == (e ** n) ** CostRate
           rest == e -- cost
           share == n ** CostRate
<1>1. /\ e \in Rational /\ f \in Rational /\ Zero \preceq e
      /\ n \in Rational /\ Zero \preceq n /\ n \preceq One ++ One
      /\ t = a.weights => n = Zero
    BY TurnoverIs DEF Accounts
<1>2. p = [weights |-> t, equity |-> Greatest(rest, Zero), fees |-> f ++ cost]
    BY DEF Paid, Accounts
<1> HIDE DEF e, f, n
<1>3. e ** n \in Rational /\ cost \in Rational /\ share \in Rational /\ cost = e ** share
    BY <1>1, RateIs, ProductType, ProductAssociates
<1> HIDE DEF cost, share
<1>4. rest \in Rational /\ rest ++ cost = e
    BY <1>1, <1>3, Difference
<1> HIDE DEF rest
<1>5. Greatest(rest, Zero) \in Rational /\ Zero \preceq Greatest(rest, Zero)
      /\ (Zero \preceq rest => Greatest(rest, Zero) = rest)
    <2>1. Greatest(rest, Zero) \in {rest, Zero} /\ Zero \preceq Greatest(rest, Zero)
        BY <1>4, LeastBounds, Constants
    <2>2. Zero \preceq rest => Greatest(rest, Zero) = rest
        BY <1>4, Ordered, Constants DEF Greatest
    <2> QED BY <1>4, <2>1, <2>2, Constants
<1>6. f ++ cost \in Rational /\ (f ++ cost) -- f = cost
    <2>1. f ++ cost \in Rational /\ cost ++ f = f ++ cost
        BY <1>1, <1>3, SumType, SumCommutes
    <2> QED BY <1>1, <1>3, <2>1, DifferenceIs
<1>7. ASSUME t = a.weights
      PROVE  rest = e /\ Zero \preceq rest /\ f ++ cost = f
    <2>1. n = Zero /\ e ** n = Zero
        BY <1>1, <1>7, Neutral
    <2>2. cost = Zero
        BY <2>1, RateIs, Neutral DEF cost
    <2> QED BY <1>1, <1>4, <2>2, Neutral
<1>8. ASSUME CheapTrades PROVE Zero \preceq rest
    <2> DEFINE c == CostRate
               half == <<1, 2>>
               two == One ++ One
    <2>1. c \in Rational /\ Zero \preceq c /\ half \in Rational /\ half ++ half = One
          /\ Zero \preceq half /\ c \preceq half
        BY <1>8, HalfIs, RateIs DEF CheapTrades
    <2>2. two \in Rational /\ n \preceq two /\ share = n ** c
        BY <1>1, SumType, Constants DEF share
    <2>3. half ** two = (half ** One) ++ (half ** One) /\ half ** One = half
        BY <2>1, ProductDistributes, Neutral, Constants
    <2> HIDE DEF c, half, two
    <2>4. two ** half = One
        BY <2>1, <2>2, <2>3, ProductCommutes
    <2>5. c ** n \preceq half ** n
        BY <1>1, <2>1, ProductOrder
    <2>6. n ** half \preceq two ** half
        BY <1>1, <2>1, <2>2, ProductOrder
    <2>7. n ** half = half ** n /\ c ** n = n ** c /\ half ** n \in Rational
        BY <1>1, <2>1, ProductCommutes, ProductType
    <2>8. share \preceq One
        BY <1>3, <2>2, <2>4, <2>5, <2>6, <2>7, OrderedSteps, Constants
    <2>9. share ** e \preceq One ** e
        BY <1>1, <1>3, <2>8, ProductOrder, Constants
    <2>10. cost \preceq e
        BY <1>1, <1>3, <2>9, ProductCommutes, Neutral
    <2> QED BY <1>1, <1>3, <2>10, Apart DEF rest
<1>9. /\ p.weights = t /\ p.equity = Greatest(rest, Zero) /\ p.fees = f ++ cost
      /\ p \in Accounts
    <2>1. f ++ cost \in Rational /\ Greatest(rest, Zero) \in Rational
        BY <1>5, <1>6
    <2> HIDE DEF Greatest
    <2> QED BY <1>2, <2>1 DEF Accounts
<1> QED BY <1>4, <1>5, <1>6, <1>7, <1>8, <1>9 DEF e, f

\* Fees paid one after the other.
LEMMA FeesAdd ==
    ASSUME NEW a \in Rational, NEW b \in Rational, NEW c \in Rational
    PROVE  /\ c -- b \in Rational /\ b -- a \in Rational /\ c -- a \in Rational
           /\ (c -- b) ++ (b -- a) = c -- a
           /\ b = a => (c -- b) ++ Zero = c -- a
<1> DEFINE x == c -- b
           y == b -- a
<1>1. x \in Rational /\ x ++ b = c /\ y \in Rational /\ y ++ a = b /\ c -- a \in Rational
    BY Difference
<1>2. b = a => x = c -- a
    OBVIOUS
<1> HIDE DEF x, y
<1>3. (x ++ y) ++ a = c
    BY <1>1, SumAssociates
<1>4. x ++ y \in Rational
    BY <1>1, SumType
<1>5. c -- a = x ++ y
    BY <1>3, <1>4, DifferenceIs
<1> QED BY <1>1, <1>2, <1>5, Neutral DEF x, y

\* Selling names for cash.
LEMMA WithoutIs ==
    ASSUME NEW w \in Numbers, Sized(w), NEW names
    PROVE  /\ Without(w, names) \in Numbers /\ Sized(Without(w, names))
           /\ \A s \in Symbols : Without(w, names)[s] = IF s \in names THEN Zero ELSE w[s]
           /\ (\A s \in Symbols : s \in names => w[s] = Zero) => Without(w, names) = w
<1> DEFINE x == Without(w, names)
<1>1. \A s \in Symbols : x[s] = IF s \in names THEN Zero ELSE w[s]
    BY DEF Without, Of
<1>2. x = [s \in Symbols |-> x[s]] /\ w = [s \in Symbols |-> w[s]]
    BY DEF Without, Of, Numbers
<1>3. /\ x \in Numbers /\ \A s \in Symbols : Zero \preceq x[s]
      /\ Total(x) \preceq Total(w)
    <2>1. \A s \in Symbols : Zero \preceq w[s]
        BY DEF Sized, Nonnegative
    <2> QED BY <2>1, PartBounds DEF Without
<1> HIDE DEF x
<1>4. Total(x) \in Rational /\ Total(w) \in Rational /\ Total(w) \preceq One
    BY <1>3, Totals DEF Sized
<1>5. Total(x) \preceq One
    BY <1>3, <1>4, OrderedSteps, Constants
<1>6. ASSUME \A s \in Symbols : s \in names => w[s] = Zero PROVE x = w
    <2>1. \A s \in Symbols : x[s] = w[s]
        BY <1>1, <1>6
    <2> QED BY <1>2, <2>1, Zenon
<1> QED BY <1>1, <1>3, <1>5, <1>6 DEF x, Sized, Nonnegative

\* What is left of an account, at m when it was marked, once the decisions have
\* taken effect on it.
Outcome(c, a, m, targets, exits) ==
    /\ c.account \in Accounts /\ Sized(c.account.weights) /\ Zero \preceq c.account.equity
    /\ targets # None => c.account.weights = targets
    /\ targets = None => c.account.weights = Without(m.weights, exits)
    /\ c.bill \in Rational /\ c.sold \in Nat
    /\ c.sold <= 1 => c.bill = c.account.fees -- a.fees
    /\ CheapTrades => c.account.equity ++ (c.account.fees -- a.fees) = m.equity
    /\ targets = None /\ exits = {} =>
           c.account.equity = m.equity /\ c.account.weights = m.weights

LEMMA SettledIs ==
    ASSUME NEW account \in Accounts, NEW m \in Accounts, m.fees = account.fees,
           Sized(m.weights), Zero \preceq m.equity,
           NEW targets \in Numbers \cup {None}, targets # None => Sized(targets),
           NEW exits \in SUBSET Symbols
    PROVE  Outcome(Settled(account, targets, exits, m), account, m, targets, exits)
<1> DEFINE c == Settled(account, targets, exits, m)
           w == m.weights
           kept == Without(w, exits)
           left == Paid(m, kept)
           filled == IF targets = None THEN left ELSE Paid(left, targets)
           held == {s \in exits : Positive(w[s])}
           sold == Cardinality(held)
           a == account.fees
           b == left.fees
           f == filled.fees
<1>1. /\ c.account = filled /\ c.sold = sold
      /\ c.bill = (f -- b) ++ (R(sold) ** (b -- a))
    BY DEF Settled, Billed
<1>2. w \in Numbers /\ a \in Rational /\ m.equity \in Rational /\ m.fees = a
    BY DEF Accounts
<1>3. /\ kept \in Numbers /\ Sized(kept)
      /\ (\A s \in Symbols : s \in exits => w[s] = Zero) => kept = w
    BY <1>2, WithoutIs
<1> HIDE DEF kept
<1>4. /\ left \in Accounts /\ left.weights = kept /\ Zero \preceq left.equity
      /\ kept = w => left.equity = m.equity /\ left.fees = m.fees
      /\ CheapTrades => left.equity ++ (left.fees -- m.fees) = m.equity
    BY <1>3, PaidIs
<1> HIDE DEF left
<1>5. targets # None =>
      /\ Paid(left, targets) \in Accounts /\ Paid(left, targets).weights = targets
      /\ Zero \preceq Paid(left, targets).equity
      /\ CheapTrades => Paid(left, targets).equity ++ (Paid(left, targets).fees -- left.fees)
                           = left.equity
    BY <1>3, <1>4, PaidIs
<1>6. b \in Rational /\ left.equity \in Rational
    BY <1>4 DEF Accounts
<1>7. /\ filled \in Accounts /\ Zero \preceq filled.equity /\ Sized(filled.weights)
      /\ targets # None => filled.weights = targets
      /\ targets = None => filled.weights = kept /\ filled = left
    BY <1>3, <1>4, <1>5
<1>8. CheapTrades => filled.equity ++ (f -- b) = left.equity
    <2>1. CASE targets = None
        <3>1. f -- b = Zero
            BY <1>6, <2>1, NoDifference
        <3> QED BY <1>6, <2>1, <3>1, Neutral
    <2>2. CASE targets # None
        BY <1>5, <2>2
    <2> QED BY <2>1, <2>2
<1> HIDE DEF filled
<1>9. f \in Rational /\ filled.equity \in Rational
    BY <1>7 DEF Accounts
<1>10. /\ f -- b \in Rational /\ b -- a \in Rational /\ f -- a \in Rational
       /\ (f -- b) ++ (b -- a) = f -- a
       /\ b = a => (f -- b) ++ Zero = f -- a
    BY <1>2, <1>6, <1>9, FeesAdd
<1>11. held \in SUBSET Symbols /\ sold \in Nat /\ (sold = 0 => held = {})
    <2>1. held \in SUBSET Symbols
        OBVIOUS
    <2>2. IsFiniteSet(held)
        BY <2>1, RiskParityAssumption, FS_Subset
    <2> QED BY <2>1, <2>2, FS_CardinalityType, FS_EmptySet
<1>12. held = {} => \A s \in Symbols : s \in exits => w[s] = Zero
    <2>1. ASSUME NEW s \in Symbols, s \in exits, ~Positive(w[s]) PROVE w[s] = Zero
        <3>1. w[s] \in Rational /\ Zero \preceq w[s]
            BY <1>2, NumbersAre DEF Sized, Nonnegative
        <3>2. w[s] \preceq Zero
            BY <2>1, <3>1, Signs
        <3> QED BY <3>1, <3>2, Ordered, Constants
    <2> HIDE DEF w
    <2> QED BY <2>1
<1> DEFINE bill == (f -- b) ++ (R(sold) ** (b -- a))
<1> HIDE DEF sold, held, a, b, f
<1>13. bill \in Rational
    <2>1. R(sold) \in Rational
        BY <1>11, WholeIsRational
    <2>2. R(sold) ** (b -- a) \in Rational
        BY <1>10, <2>1, ProductType
    <2> QED BY <1>10, <2>2, SumType
<1>14. sold <= 1 => bill = f -- a
    <2>1. CASE sold = 0
        <3>1. b = a
            BY <1>2, <1>3, <1>4, <1>11, <1>12, <2>1 DEF b
        <3>2. R(sold) ** (b -- a) = Zero
            BY <1>10, <2>1, Neutral DEF Zero
        <3> QED BY <1>10, <3>1, <3>2
    <2>2. CASE sold = 1
        <3>1. R(sold) ** (b -- a) = b -- a
            BY <1>10, <2>2, Neutral DEF One
        <3> QED BY <1>10, <3>1
    <2> QED BY <1>11, <2>1, <2>2
<1>15. ASSUME CheapTrades PROVE filled.equity ++ (f -- a) = m.equity
    <2> DEFINE x == f -- b
               y == b -- a
    <2>1. x \in Rational /\ y \in Rational /\ x ++ y = f -- a
        BY <1>10
    <2>2. left.equity ++ y = m.equity /\ filled.equity ++ x = left.equity
        BY <1>2, <1>4, <1>8, <1>15 DEF b
    <2> HIDE DEF x, y
    <2>3. (filled.equity ++ x) ++ y = filled.equity ++ (x ++ y)
        BY <1>9, <2>1, SumAssociates
    <2> QED BY <2>1, <2>2, <2>3
<1>16. ASSUME targets = None, exits = {}
       PROVE  filled.equity = m.equity /\ filled.weights = w
    <2>1. kept = w
        BY <1>3, <1>16
    <2> QED BY <1>4, <1>7, <1>16, <2>1
<1>17. c.bill = bill
    BY <1>1
<1> HIDE DEF bill, c
<1>18. Outcome(c, account, m, targets, exits)
    BY <1>1, <1>7, <1>11, <1>13, <1>14, <1>15, <1>16, <1>17 DEF Outcome, w, kept, a, f
<1> QED BY <1>18 DEF c

\* An account at the next close: marked, then what was decided for it.
Follows(c, a, targets, exits, row) ==
    /\ c.account \in Accounts /\ Sized(c.account.weights) /\ Zero \preceq c.account.equity
    /\ targets # None => c.account.weights = targets
    /\ targets = None => \A s \in Symbols :
           a.weights[s] = Zero \/ s \in exits => c.account.weights[s] = Zero
    /\ c.bill \in Rational /\ c.sold \in Nat
    /\ c.sold <= 1 => c.bill = c.account.fees -- a.fees
    /\ CheapTrades =>
           c.account.equity ++ (c.account.fees -- a.fees)
             = (a.equity ** (One -- Total(a.weights)))
                  ++ (a.equity ** Total(Grown(a.weights, row)))
    /\ targets = None /\ exits = {} => \A s \in Symbols :
           /\ c.account.weights[s] ** c.account.equity = a.equity ** Grown(a.weights, row)[s]
           /\ c.account.weights[s] = Zero <=> a.weights[s] = Zero

LEMMA ClosedIs ==
    ASSUME rows \in Seq(Row), rows # <<>>, NEW row \in Row,
           NEW a \in Accounts, Sized(a.weights), Zero \preceq a.equity,
           NEW targets \in Numbers \cup {None}, targets # None => Sized(targets),
           NEW exits \in SUBSET Symbols
    PROVE  Follows(Closed(a, targets, exits, row), a, targets, exits, row)
<1> DEFINE c == Closed(a, targets, exits, row)
           grown == Grown(a.weights, row)
           m == Marked(a, row)
<1>1. a.weights \in Numbers /\ Nonnegative(a.weights) /\ m = Revalued(a, grown)
    BY DEF Accounts, Sized, Marked
<1>2. /\ grown \in Numbers /\ Nonnegative(grown)
      /\ \A s \in Symbols : grown[s] = Zero <=> a.weights[s] = Zero
      /\ (\A s \in Symbols : a.weights[s] = Zero) \/ Positive(Total(grown))
    BY <1>1, GrownIs
<1>3. c = Settled(a, targets, exits, m)
    BY DEF Closed
<1> HIDE DEF grown, m, c
<1>4. /\ m \in Accounts /\ Sized(m.weights) /\ Zero \preceq m.equity
      /\ m.fees = a.fees
      /\ m.equity = (a.equity ** (One -- Total(a.weights))) ++ (a.equity ** Total(grown))
      /\ \A s \in Symbols : /\ m.weights[s] ** m.equity = a.equity ** grown[s]
                            /\ m.weights[s] = Zero <=> a.weights[s] = Zero
    BY <1>1, <1>2, RevaluedIs
<1>5. Outcome(c, a, m, targets, exits)
    BY <1>3, <1>4, SettledIs
<1>6. ASSUME targets = None, NEW s \in Symbols, a.weights[s] = Zero \/ s \in exits
      PROVE  c.account.weights[s] = Zero
    <2>1. m.weights \in Numbers
        BY <1>4 DEF Accounts
    <2>2. Without(m.weights, exits)[s] = IF s \in exits THEN Zero ELSE m.weights[s]
        BY <1>4, <2>1, WithoutIs
    <2> QED BY <1>4, <1>5, <1>6, <2>2 DEF Outcome
<1>7. Follows(c, a, targets, exits, row)
    BY <1>4, <1>5, <1>6 DEF grown, Outcome, Follows
<1> QED BY <1>7 DEF c

-----------------------------------------------------------------------------
(* Deciding *)

LEMMA LeastIn ==
    ASSUME NEW S \in SUBSET Nat, S # {}
    PROVE  Min(S) \in S /\ \A k \in S : Min(S) <= k
<1>1. \E m \in S : \A k \in S : m <= k
    BY LeastNumber
<1> QED BY <1>1 DEF Min

LEMMA GreatestIn ==
    ASSUME NEW b \in Int, NEW S \in SUBSET (0 .. b), S # {}
    PROVE  Max(S) \in S /\ \A k \in S : k <= Max(S)
<1> DEFINE D == {b - k : k \in S}
<1>1. D \in SUBSET Nat /\ D # {}
    <2>1. ASSUME NEW k \in S PROVE b - k \in Nat
        <3>1. k \in 0 .. b
            OBVIOUS
        <3> QED BY <3>1
    <2> QED BY <2>1
<1>2. \E m \in D : \A d \in D : m <= d
    <2> HIDE DEF D
    <2> QED BY <1>1, LeastNumber
<1>3. PICK k \in S : \A j \in S : b - k <= b - j
    BY <1>2
<1>4. \A j \in S : k >= j
    BY <1>3
<1>5. \E c \in S : \A d \in S : c >= d
    BY <1>4
<1>6. Max(S) \in S /\ \A d \in S : Max(S) >= d
    BY <1>5 DEF Max
<1> QED BY <1>6

LEMMA UniverseIs ==
    ASSUME rule \in Rules, NEW i, NEW row, NEW u \in Universes(i, row)
    PROVE  /\ u \in SUBSET Symbols /\ Cardinality(u) <= rule.top
           /\ \A s \in u : row[s] # None
<1> DEFINE able == Eligible(i, row)
           sizes == {rule.top, Cardinality(able)}
<1>1. u \in SUBSET able /\ Cardinality(u) = Min(sizes)
    BY DEF Universes
<1>2. able \in SUBSET Symbols /\ \A s \in able : row[s] # None
    BY DEF Eligible
<1> HIDE DEF able
<1>3. Cardinality(able) \in Nat /\ rule.top \in Nat
    BY <1>2, RiskParityAssumption, FS_Subset, FS_CardinalityType, RuleIs DEF IsRule
<1>4. sizes \in SUBSET Nat /\ sizes # {} /\ rule.top \in sizes
    BY <1>3
<1> HIDE DEF sizes
<1>5. Min(sizes) <= rule.top
    BY <1>4, LeastIn
<1> QED BY <1>1, <1>2, <1>5

\* What a close decides.
LEMMA DecidesIs ==
    ASSUME rule \in Rules, NEW row, NEW i \in Nat, Decides(row, i)
    PROVE  /\ decided' \in Decision
           /\ decided'.passive # None => Sized(decided'.passive)
           /\ decided'.book # None =>
                /\ decided'.exits = {} /\ Sized(decided'.book)
                /\ \A s \in Symbols :
                      decided'.book[s] # Zero => row[s] # None /\ Passes(s, i, row)
                /\ TenRounds => /\ \A s \in Symbols : decided'.book[s] \preceq rule.maxWeight
                                /\ Total(decided'.book) \preceq Total(decided'.passive)
           /\ i % rule.grid # 0 => decided' = Exits(book'.weights, i, row)
<1>1. CASE i % rule.grid # 0
    <2>1. decided' = Exits(book'.weights, i, row)
        BY <1>1 DEF Decides
    <2>2. /\ decided'.book = None /\ decided'.passive = None
          /\ decided' \in Decision
        <3>1. decided' = [book |-> None, passive |-> None,
                          exits |-> {s \in Symbols : book'.weights[s] # Zero /\ ~Passes(s, i, row)}]
            BY <2>1 DEF Exits, Undecided
        <3> QED BY <3>1 DEF Decision
    <2> QED BY <2>1, <2>2
<1>2. CASE i % rule.grid = 0
    <2>1. PICK u \in Universes(i, row), leans \in [Symbols -> Leans], scale \in Multipliers(i) :
              decided' = Rebalanced(u, leans, scale, i, row)
        BY <1>2 DEF Decides
    <2>2. u \in SUBSET Symbols /\ Cardinality(u) <= rule.top /\ \A s \in u : row[s] # None
        BY UniverseIs
    <2>3. scale \in Rational /\ Zero \preceq scale /\ scale \preceq One
        <3>1. One \in Rational /\ Zero \preceq One /\ One \preceq One
            BY Constants, Ordered, Signs
        <3> QED BY <3>1, RiskParityAssumption DEF Multipliers
    <2>4. /\ decided' \in Decision
          /\ decided'.exits = {} /\ decided'.passive \in Numbers /\ Sized(decided'.passive)
          /\ decided'.book # None =>
               /\ decided'.book \in Numbers /\ Sized(decided'.book)
               /\ \A s \in Symbols : decided'.book[s] # Zero => s \in u /\ Passes(s, i, row)
               /\ TenRounds => /\ \A s \in Symbols : decided'.book[s] \preceq rule.maxWeight
                               /\ Total(decided'.book) \preceq Total(decided'.passive)
        BY <2>1, <2>2, <2>3, RebalancedIs DEF Decision
    <2> QED BY <1>2, <2>2, <2>4
<1> QED BY <1>1, <1>2

-----------------------------------------------------------------------------
(* One more bar of closes *)

LEMMA RowsGrow ==
    ASSUME rows \in Seq(Row), NEW row \in Row, rows' = Append(rows, row)
    PROVE  /\ rows' \in Seq(Row) /\ rows' # <<>> /\ Len(rows') = Len(rows) + 1
           /\ Len(rows) \in Nat /\ Last(rows') = row /\ rows'[Len(rows')] = row
           /\ \A k \in 1 .. Len(rows) : rows'[k] = rows[k]
           /\ DOMAIN rows = 1 .. Len(rows) /\ DOMAIN rows' = 1 .. Len(rows) + 1
           /\ Index' = Len(rows)
<1>1. /\ rows' \in Seq(Row) /\ rows' # <<>> /\ Len(rows') = Len(rows) + 1
      /\ Len(rows) \in Nat /\ rows'[Len(rows) + 1] = row
      /\ \A k \in 1 .. Len(rows) : rows'[k] = rows[k]
      /\ DOMAIN rows = 1 .. Len(rows) /\ DOMAIN rows' = 1 .. Len(rows) + 1
    OBVIOUS
<1>2. Last(rows') = row
    BY <1>1 DEF Last
<1>3. Index' = Len(rows)
    BY <1>1 DEF Index
<1> QED BY <1>1, <1>2, <1>3

\* What a symbol was last seen at, in any rows.
KnownIn(q, s) == IF SeenIn(q, s) = {} THEN Zero ELSE R(q[Max(SeenIn(q, s))][s])

LEMMA KnownIs ==
    ASSUME NEW q \in Seq(Row), NEW s \in Symbols
    PROVE  /\ SeenIn(q, s) \in SUBSET (1 .. Len(q))
           /\ SeenIn(q, s) # {} => /\ Max(SeenIn(q, s)) \in 1 .. Len(q)
                                  /\ KnownIn(q, s) \in Rational /\ Positive(KnownIn(q, s))
                                  /\ KnownIn(q, s) # Zero
           /\ q # <<>> /\ Last(q)[s] # None =>
                  SeenIn(q, s) # {} /\ KnownIn(q, s) = R(Last(q)[s])
<1> DEFINE seen == SeenIn(q, s)
           newest == Max(seen)
           n == Len(q)
<1>1. n \in Nat /\ DOMAIN q = 1 .. n /\ \A k \in 1 .. n : q[k] \in Row
    OBVIOUS
<1>2. seen \in SUBSET (1 .. n) /\ \A k \in 1 .. n : k \in seen <=> q[k][s] # None
    BY <1>1 DEF SeenIn
<1>3. KnownIn(q, s) = IF seen = {} THEN Zero ELSE R(q[newest][s])
    BY DEF KnownIn
<1> HIDE DEF seen, n
<1>4. seen # {} => newest \in seen /\ newest \in 1 .. n /\ \A k \in seen : k <= newest
    <2>1. seen \in SUBSET (0 .. n) /\ n \in Int
        BY <1>1, <1>2
    <2>2. seen # {} => newest \in seen /\ \A k \in seen : k <= newest
        BY <2>1, GreatestIn
    <2> QED BY <1>2, <2>2
<1> HIDE DEF newest
<1>5. ASSUME seen # {}
      PROVE  KnownIn(q, s) \in Rational /\ Positive(KnownIn(q, s)) /\ KnownIn(q, s) # Zero
    <2>1. newest \in 1 .. n /\ q[newest][s] # None /\ q[newest] \in Row
        BY <1>1, <1>2, <1>4, <1>5
    <2>2. q[newest][s] \in Nat \ {0}
        BY <2>1, RiskParityAssumption DEF Row
    <2> QED BY <1>3, <1>5, <2>2, CloseIsPositive
<1>6. ASSUME q # <<>>, Last(q)[s] # None
      PROVE  seen # {} /\ KnownIn(q, s) = R(Last(q)[s])
    <2>1. Last(q) = q[n] /\ n \in 1 .. n
        BY <1>1, <1>6, LastRow DEF n
    <2>2. n \in seen
        BY <1>2, <1>6, <2>1
    <2>3. newest = n
        <3>1. newest \in 1 .. n /\ n <= newest
            BY <1>4, <2>2
        <3> QED BY <1>1, <3>1
    <2> QED BY <1>3, <2>1, <2>2, <2>3
<1> QED BY <1>2, <1>4, <1>5, <1>6 DEF seen, newest, n

LEMMA KnownNext ==
    ASSUME rows \in Seq(Row), NEW row \in Row, rows' = Append(rows, row), NEW s \in Symbols
    PROVE  /\ SeenIn(rows, s) \subseteq SeenIn(rows', s)
           /\ row[s] = None => KnownIn(rows', s) = KnownIn(rows, s)
           /\ row[s] # None => SeenIn(rows', s) # {} /\ KnownIn(rows', s) = R(row[s])
           /\ SeenIn(rows', s) # {} =>
                  /\ KnownIn(rows', s) \in Rational /\ Positive(KnownIn(rows', s))
                  /\ KnownIn(rows', s) # Zero
           /\ KnownIn(rows', s) \in Rational
<1> DEFINE n == Len(rows)
<1>1. /\ rows' \in Seq(Row) /\ rows' # <<>> /\ Last(rows') = row
      /\ n \in Nat /\ rows'[n + 1] = row
      /\ \A k \in 1 .. n : rows'[k] = rows[k]
      /\ DOMAIN rows = 1 .. n /\ DOMAIN rows' = 1 .. n + 1
    BY RowsGrow
<1>2. /\ SeenIn(rows', s) # {} =>
            /\ KnownIn(rows', s) \in Rational /\ Positive(KnownIn(rows', s))
            /\ KnownIn(rows', s) # Zero
      /\ row[s] # None => SeenIn(rows', s) # {} /\ KnownIn(rows', s) = R(row[s])
      /\ SeenIn(rows, s) # {} => Max(SeenIn(rows, s)) \in 1 .. n
    BY <1>1, KnownIs
<1> HIDE DEF n
<1>3. SeenIn(rows, s) = {k \in 1 .. n : rows[k][s] # None}
      /\ SeenIn(rows', s) = {k \in 1 .. n + 1 : rows'[k][s] # None}
    BY <1>1 DEF SeenIn
<1>4. SeenIn(rows, s) \subseteq SeenIn(rows', s)
    BY <1>1, <1>3
<1>5. ASSUME row[s] = None PROVE KnownIn(rows', s) = KnownIn(rows, s)
    <2>1. SeenIn(rows', s) = SeenIn(rows, s)
        BY <1>1, <1>3, <1>5
    <2> QED BY <1>1, <1>2, <2>1 DEF KnownIn
<1>6. KnownIn(rows', s) \in Rational
    BY <1>2, Constants DEF KnownIn
<1> QED BY <1>2, <1>4, <1>5, <1>6

\* A close of the newest bar is compared with one that stays where it was.
LEMMA PassesStays ==
    ASSUME rule \in Rules, UNCHANGED rule, rows \in Seq(Row), NEW row \in Row,
           rows' = Append(rows, row), NEW s \in Symbols
    PROVE  Passes(s, Index, Last(rows))' <=> Passes(s, Len(rows), row)
<1> DEFINE n == Len(rows)
           t == rule.trend
<1>1. /\ n \in Nat /\ Last(rows') = row /\ Index' = n
      /\ \A k \in 1 .. n : rows'[k] = rows[k]
    BY RowsGrow
<1>2. t \in (Nat \ {0}) \cup {None}
    BY RuleIs DEF IsRule
<1>3. Passes(s, n, row) <=>
         \/ t = None
         \/ t <= n /\ row[s] # None /\ rows[n - t + 1][s] # None /\ rows[n - t + 1][s] < row[s]
    BY DEF Passes, Price
<1>4. Passes(s, Index, Last(rows))' <=>
         \/ t = None
         \/ t <= n /\ row[s] # None /\ rows'[n - t + 1][s] # None /\ rows'[n - t + 1][s] < row[s]
    BY <1>1 DEF Passes, Price
<1> HIDE DEF n, t
<1>5. t # None /\ t <= n => n - t + 1 \in 1 .. n
    BY <1>1, <1>2
<1>6. t # None /\ t <= n => rows'[n - t + 1] = rows[n - t + 1]
    BY <1>1, <1>5
<1> QED BY <1>3, <1>4, <1>6 DEF n

-----------------------------------------------------------------------------
(* The steps *)

LEMMA AgesIs ==
    ASSUME Types, NEW p \in Row
    PROVE  /\ Filled(p) \in Row
           /\ Aged(p) \in [Symbols -> 0 .. rule.maxAge + 1]
           /\ \A s \in Symbols : rows # <<>> /\ Filled(p)[s] # None => Aged(p)[s] <= rule.maxAge
<1>1. rule.maxAge \in Nat
    BY RuleIs DEF Types, IsRule
<1>2. ASSUME NEW s \in Symbols
      PROVE  /\ p[s] \in Prices \cup {None} /\ age[s] \in 0 .. rule.maxAge + 1
             /\ rows # <<>> => Last(rows)[s] \in Prices \cup {None}
    <2>1. rows # <<>> => Last(rows) \in Row
        BY LastRow DEF Types
    <2> QED BY <2>1 DEF Row, Types
<1>3. Filled(p) \in Row
    BY <1>2 DEF Filled, Row
<1>4. Aged(p) \in [Symbols -> 0 .. rule.maxAge + 1]
    BY <1>1, <1>2 DEF Aged
<1>5. ASSUME NEW s \in Symbols, rows # <<>>, Filled(p)[s] # None
      PROVE  Aged(p)[s] <= rule.maxAge
    <2>1. p[s] # None \/ ~(age[s] >= rule.maxAge)
        BY <1>5 DEF Filled
    <2>2. Aged(p)[s] = IF p[s] # None THEN 0
                       ELSE IF age[s] > rule.maxAge THEN age[s] ELSE age[s] + 1
        BY DEF Aged
    <2> QED BY <1>1, <1>2, <2>1, <2>2
<1> QED BY <1>3, <1>4, <1>5

Own(row) == Closed(book, decided.book, decided.exits, row)
Other(row) == Closed(passive, decided.passive, {}, row)

LEMMA BarIs ==
    ASSUME Types, NEW p \in Row, Bar(p), NEW row, row = Filled(p)
    PROVE  /\ row \in Row /\ rows # <<>> /\ Len(rows) < rule.bars /\ UNCHANGED rule
           /\ rows' = Append(rows, row)
           /\ age' \in [Symbols -> 0 .. rule.maxAge + 1]
           /\ \A s \in Symbols : row[s] # None => age'[s] <= rule.maxAge
           /\ book' = Own(row).account /\ passive' = Other(row).account
           /\ bills' = [sum |-> bills.sum ++ Own(row).bill,
                        doubled |-> bills.doubled \/ Own(row).sold > 1]
           /\ window' = Windowed(Own(row).account, Own(row).bill)
           /\ Decides(row, Len(rows))
<1>1. /\ rows # <<>> /\ Len(rows) < rule.bars /\ age' = Aged(p) /\ Ends(row) /\ UNCHANGED rule
    BY DEF Bar
<1>2. /\ rows' = Append(rows, row) /\ Booked(row, Own(row)) /\ Decides(row, Len(rows))
    BY <1>1 DEF Ends, Own
<1>3. /\ book' = Own(row).account /\ passive' = Other(row).account
      /\ bills' = [sum |-> bills.sum ++ Own(row).bill,
                   doubled |-> bills.doubled \/ Own(row).sold > 1]
      /\ window' = Windowed(Own(row).account, Own(row).bill)
    BY <1>2 DEF Booked, Other
<1> QED BY <1>1, <1>2, <1>3, AgesIs

\* The two accounts at the new close.
LEMMA AccountsAre ==
    ASSUME Types, Unlevered, rows # <<>>, NEW row \in Row
    PROVE  /\ Follows(Own(row), book, decided.book, decided.exits, row)
           /\ Follows(Other(row), passive, decided.passive, {}, row)
<1>1. /\ book \in Accounts /\ Sized(book.weights) /\ Zero \preceq book.equity
      /\ passive \in Accounts /\ Sized(passive.weights) /\ Zero \preceq passive.equity
      /\ decided.book \in Numbers \cup {None} /\ (decided.book # None => Sized(decided.book))
      /\ decided.passive \in Numbers \cup {None}
      /\ (decided.passive # None => Sized(decided.passive))
      /\ decided.exits \in SUBSET Symbols /\ {} \in SUBSET Symbols
      /\ rows \in Seq(Row)
    BY DEF Types, Unlevered, Decision
<1>2. Follows(Closed(book, decided.book, decided.exits, row),
              book, decided.book, decided.exits, row)
    BY <1>1, ClosedIs
<1>3. Follows(Closed(passive, decided.passive, {}, row), passive, decided.passive, {}, row)
    BY <1>1, ClosedIs
<1> QED BY <1>2, <1>3 DEF Own, Other

\* The window's account, a bar later.
Spent(w, e, doubled) ==
    /\ w \in [base : Rational, before : Rational, fees : Rational] \cup {None}
    /\ w # None =>
         /\ rule.opens + 1 <= Len(rows) + 1 /\ Positive(w.base)
         /\ ~doubled => (w.fees ** w.base) ++ w.before = e.fees

LEMMA WindowedIs ==
    ASSUME Types, Opening, NEW e \in Accounts, NEW bill \in Rational, NEW doubled \in BOOLEAN,
           ~doubled => ~bills.doubled /\ bill = e.fees -- book.fees
    PROVE  Spent(Windowed(e, bill), e, doubled)
<1> DEFINE w == Windowed(e, bill)
<1>1. /\ Len(rows) \in Nat /\ rule.opens \in Nat
      /\ e.equity \in Rational /\ e.fees \in Rational /\ book.fees \in Rational
    BY RuleIs DEF Types, Accounts, IsRule
<1>2. bill = e.fees -- book.fees => bill ++ book.fees = e.fees
    BY <1>1, Difference
<1>3. CASE window # None
    <2> DEFINE base == window.base
               before == window.before
               fees == window.fees
               add == bill // base
    <2>1. /\ base \in Rational /\ before \in Rational /\ fees \in Rational
          /\ window = [base |-> base, before |-> before, fees |-> fees]
          /\ Positive(base) /\ rule.opens + 1 <= Len(rows)
          /\ ~bills.doubled => (fees ** base) ++ before = book.fees
        BY <1>3 DEF Types, Opening
    <2>2. w = [window EXCEPT !.fees = fees ++ add]
        BY <1>3 DEF Windowed
    <2> HIDE DEF base, before, fees, w
    <2>3. base # Zero
        BY <2>1, Signs DEF Positive
    <2>4. add \in Rational /\ add ** base = bill
        BY <2>1, <2>3, Quotient
    <2> HIDE DEF add
    <2>5. w = [base |-> base, before |-> before, fees |-> fees ++ add] /\ fees ++ add \in Rational
        BY <2>1, <2>2, <2>4, SumType
    <2>6. (fees ++ add) ** base = (fees ** base) ++ bill /\ fees ** base \in Rational
        <3>1. base ** (fees ++ add) = (base ** fees) ++ (base ** add)
            BY <2>1, <2>4, ProductDistributes
        <3>2. /\ base ** (fees ++ add) = (fees ++ add) ** base
              /\ base ** fees = fees ** base /\ base ** add = add ** base
              /\ fees ** base \in Rational
            BY <2>1, <2>4, <2>5, ProductCommutes, ProductType
        <3> QED BY <2>4, <3>1, <3>2
    <2>7. ASSUME ~doubled PROVE ((fees ++ add) ** base) ++ before = e.fees
        <3> DEFINE paid == fees ** base
        <3>1. paid ++ before = book.fees /\ bill ++ book.fees = e.fees /\ paid \in Rational
            BY <1>2, <2>1, <2>6, <2>7
        <3>2. (fees ++ add) ** base = paid ++ bill
            BY <2>6
        <3> HIDE DEF paid
        <3>3. (paid ++ bill) ++ before = (bill ++ paid) ++ before
            BY <3>1, SumCommutes
        <3>4. (bill ++ paid) ++ before = bill ++ (paid ++ before)
            BY <2>1, <3>1, SumAssociates
        <3> QED BY <3>1, <3>2, <3>3, <3>4
    <2>8. Spent(w, e, doubled)
        BY <1>1, <2>1, <2>5, <2>7 DEF Spent
    <2> QED BY <2>8 DEF w
<1>4. CASE window = None /\ Len(rows) = rule.opens /\ Positive(e.equity)
    <2> DEFINE base == e.equity
               fees == bill // base
    <2>1. w = [base |-> base, before |-> book.fees, fees |-> fees]
        BY <1>4 DEF Windowed, Opened
    <2>2. base \in Rational /\ Positive(base)
        BY <1>1, <1>4
    <2> HIDE DEF base, w
    <2>3. base # Zero
        BY <2>2, Signs DEF Positive
    <2>4. fees \in Rational /\ fees ** base = bill
        BY <2>2, <2>3, Quotient
    <2> HIDE DEF fees
    <2>5. Spent(w, e, doubled)
        BY <1>1, <1>2, <1>4, <2>1, <2>2, <2>4 DEF Spent
    <2> QED BY <2>5 DEF w
<1>5. CASE window = None /\ ~(Len(rows) = rule.opens /\ Positive(e.equity))
    <2>1. w = None
        BY <1>5 DEF Windowed
    <2> QED BY <2>1 DEF Spent
<1> QED BY <1>3, <1>4, <1>5

LEMMA InitInv == Init => RiskParityInv
<1> SUFFICES ASSUME Init PROVE RiskParityInv
    OBVIOUS
<1>1. /\ rule \in Rules /\ rows = <<>> /\ age = [s \in Symbols |-> 0]
      /\ book = Account /\ passive = Account /\ decided = Undecided
      /\ bills = [sum |-> Zero, doubled |-> FALSE] /\ window = None
    BY DEF Init
<1>2. /\ Nothing \in Numbers /\ Sized(Nothing) /\ \A s \in Symbols : Nothing[s] = Zero
      /\ Zero \preceq One
    BY NothingIs, Constants, Signs
<1>3. Account \in Accounts /\ Account.weights = Nothing /\ Account.equity = One
    BY <1>2, Constants DEF Account, Accounts
<1>4. Undecided \in Decision /\ Undecided.book = None /\ Undecided.passive = None
    BY DEF Undecided, Decision
<1>5. Types
    <2>1. rule.bars \in Nat /\ rule.maxAge \in Nat
        BY <1>1, RuleIs DEF IsRule
    <2>2. rows \in Seq(Row) /\ Len(rows) <= rule.bars
        BY <1>1, <2>1
    <2>3. age \in [Symbols -> 0 .. rule.maxAge + 1]
        BY <1>1, <2>1
    <2>4. bills \in [sum : Rational, doubled : BOOLEAN]
        BY <1>1, Constants
    <2> QED BY <1>1, <1>3, <1>4, <2>2, <2>3, <2>4 DEF Types
<1>6. Unlevered
    BY <1>1, <1>2, <1>3, <1>4 DEF Unlevered
<1>7. HeldIsListed
    BY <1>1, <1>2, <1>3, <1>4 DEF HeldIsListed
<1>8. Between /\ Bought /\ Opening
    BY <1>1, <1>4 DEF Between, Bought, Opening
<1> QED BY <1>5, <1>6, <1>7, <1>8 DEF RiskParityInv

LEMMA ListedInv ==
    ASSUME RiskParityInv, NEW p \in Row, Listed(p)
    PROVE  RiskParityInv'
<1>1. /\ rows = <<>> /\ rows' = <<Filled(p)>> /\ age' = Aged(p)
      /\ UNCHANGED <<rule, book, passive, decided, bills, window>>
    BY DEF Listed
<1>2. Types /\ Unlevered /\ HeldIsListed /\ Between /\ Opening
    BY DEF RiskParityInv
<1>3. /\ rule.bars \in Nat /\ rule.bars >= 3 /\ rule.grid \in Nat \ {0} /\ rule.opens \in Nat
    BY <1>2, RuleIs DEF Types, IsRule
<1>4. decided = Undecided /\ decided.book = None
    BY <1>1, <1>2 DEF Between, Undecided
<1>5. window = None
    BY <1>1, <1>2, <1>3 DEF Opening
<1>6. Types'
    <2>1. Filled(p) \in Row /\ Aged(p) \in [Symbols -> 0 .. rule.maxAge + 1]
        BY <1>2, AgesIs
    <2>2. rows' \in Seq(Row) /\ Len(rows') <= rule.bars
        BY <1>1, <1>3, <2>1
    <2> QED BY <1>1, <1>2, <2>1, <2>2 DEF Types
<1>7. Unlevered'
    BY <1>1, <1>2 DEF Unlevered
<1>8. HeldIsListed'
    <2>1. \A s \in Symbols : book.weights[s] = Zero
        BY <1>1, <1>2 DEF HeldIsListed, SeenIn
    <2> QED BY <1>1, <1>4, <2>1 DEF HeldIsListed
<1>9. Between'
    <2>1. Index' = 0
        BY <1>1 DEF Index
    <2>2. 0 % rule.grid = 0
        BY <1>3
    <2> QED BY <1>1, <2>1, <2>2 DEF Between
<1>10. Bought' /\ Opening'
    BY <1>1, <1>4, <1>5 DEF Bought, Opening
<1> QED BY <1>6, <1>7, <1>8, <1>9, <1>10 DEF RiskParityInv

\* What the close just read decided, for the next one.
LEMMA DecidedIs ==
    ASSUME Types, NEW p \in Row, Bar(p), NEW row, row = Filled(p)
    PROVE  /\ decided' \in Decision
           /\ decided'.passive # None => Sized(decided'.passive)
           /\ decided'.book # None =>
                /\ decided'.exits = {} /\ Sized(decided'.book)
                /\ \A s \in Symbols : decided'.book[s] # Zero =>
                       row[s] # None /\ Passes(s, Index, Last(rows))'
                /\ TenRounds => /\ \A s \in Symbols : decided'.book[s] \preceq rule.maxWeight
                                /\ Total(decided'.book) \preceq Total(decided'.passive)
           /\ Index' % rule.grid # 0 =>
                decided' = [Undecided EXCEPT !.exits =
                  {s \in Symbols : book'.weights[s] # Zero /\ ~Passes(s, Index, Last(rows))'}]
<1>1. /\ row \in Row /\ UNCHANGED rule /\ rows' = Append(rows, row) /\ Decides(row, Len(rows))
    BY BarIs
<1>2. rule \in Rules /\ rows \in Seq(Row) /\ Len(rows) \in Nat /\ Index' = Len(rows)
    BY <1>1, RowsGrow DEF Types
<1>3. \A s \in Symbols : Passes(s, Index, Last(rows))' <=> Passes(s, Len(rows), row)
    BY <1>1, <1>2, PassesStays
<1> DEFINE i == Len(rows)
<1>4. /\ decided' \in Decision
      /\ decided'.passive # None => Sized(decided'.passive)
      /\ decided'.book # None =>
           /\ decided'.exits = {} /\ Sized(decided'.book)
           /\ \A s \in Symbols :
                 decided'.book[s] # Zero => row[s] # None /\ Passes(s, i, row)
           /\ TenRounds => /\ \A s \in Symbols : decided'.book[s] \preceq rule.maxWeight
                           /\ Total(decided'.book) \preceq Total(decided'.passive)
      /\ i % rule.grid # 0 => decided' = Exits(book'.weights, i, row)
    <2>1. i \in Nat /\ Decides(row, i)
        BY <1>1, <1>2
    <2> HIDE DEF i
    <2> QED BY <1>2, <2>1, DecidesIs
<1>5. {s \in Symbols : book'.weights[s] # Zero /\ ~Passes(s, Index, Last(rows))'}
        = {s \in Symbols : book'.weights[s] # Zero /\ ~Passes(s, i, row)}
    BY <1>3
<1>6. i % rule.grid # 0 =>
        decided' = [Undecided EXCEPT !.exits =
          {s \in Symbols : book'.weights[s] # Zero /\ ~Passes(s, i, row)}]
    BY <1>4 DEF Exits
<1> QED BY <1>2, <1>3, <1>4, <1>5, <1>6

LEMMA BarInv ==
    ASSUME RiskParityInv, NEW p \in Row, Bar(p)
    PROVE  RiskParityInv'
<1> DEFINE row == Filled(p)
           own == Own(row)
           other == Other(row)
<1>1. Types /\ Unlevered /\ HeldIsListed /\ Between /\ Bought /\ Opening
    BY DEF RiskParityInv
<1>2. /\ row \in Row /\ rows # <<>> /\ Len(rows) < rule.bars /\ UNCHANGED rule
      /\ rows' = Append(rows, row)
      /\ age' \in [Symbols -> 0 .. rule.maxAge + 1]
      /\ \A s \in Symbols : row[s] # None => age'[s] <= rule.maxAge
      /\ book' = own.account /\ passive' = other.account
      /\ bills' = [sum |-> bills.sum ++ own.bill, doubled |-> bills.doubled \/ own.sold > 1]
      /\ window' = Windowed(own.account, own.bill)
    BY <1>1, BarIs
<1>3. /\ decided' \in Decision
      /\ decided'.passive # None => Sized(decided'.passive)
      /\ decided'.book # None =>
           /\ decided'.exits = {} /\ Sized(decided'.book)
           /\ \A s \in Symbols : decided'.book[s] # Zero =>
                  row[s] # None /\ Passes(s, Index, Last(rows))'
      /\ Index' % rule.grid # 0 =>
           decided' = [Undecided EXCEPT !.exits =
             {s \in Symbols : book'.weights[s] # Zero /\ ~Passes(s, Index, Last(rows))'}]
    BY <1>1, DecidedIs
<1>4. /\ Follows(own, book, decided.book, decided.exits, row)
      /\ Follows(other, passive, decided.passive, {}, row)
    BY <1>1, <1>2, AccountsAre
<1> HIDE DEF row, own, other
<1>5. /\ rows' \in Seq(Row) /\ rows' # <<>> /\ Len(rows') = Len(rows) + 1
      /\ Len(rows) \in Nat /\ rows \in Seq(Row)
      /\ \A s \in Symbols : SeenIn(rows, s) \subseteq SeenIn(rows', s)
      /\ \A s \in Symbols : row[s] # None => SeenIn(rows', s) # {}
    BY <1>1, <1>2, RowsGrow, KnownNext DEF Types
<1>6. /\ own.account \in Accounts /\ Sized(own.account.weights) /\ Zero \preceq own.account.equity
      /\ own.bill \in Rational /\ own.sold \in Nat
      /\ own.sold <= 1 => own.bill = own.account.fees -- book.fees
      /\ other.account \in Accounts /\ Sized(other.account.weights)
      /\ Zero \preceq other.account.equity
    BY <1>4 DEF Follows
<1>7. Spent(window', own.account, bills'.doubled)
    <2>1. bills'.doubled \in BOOLEAN /\ (~bills'.doubled => ~bills.doubled /\ ~(own.sold > 1))
        BY <1>1, <1>2 DEF Types
    <2>2. ~bills'.doubled => ~bills.doubled /\ own.bill = own.account.fees -- book.fees
        BY <1>6, <2>1
    <2> QED BY <1>1, <1>2, <1>6, <2>1, <2>2, WindowedIs
<1>8. Types'
    <2>1. bills' \in [sum : Rational, doubled : BOOLEAN]
        <3>1. bills.sum \in Rational /\ bills.doubled \in BOOLEAN
            BY <1>1 DEF Types
        <3>2. bills.sum ++ own.bill \in Rational
            BY <1>6, <3>1, SumType
        <3> QED BY <1>2, <3>1, <3>2
    <2>2. Len(rows') <= rule.bars
        BY <1>1, <1>2, <1>5, RuleIs DEF Types, IsRule
    <2> QED BY <1>1, <1>2, <1>3, <1>5, <1>6, <1>7, <2>1, <2>2 DEF Types, Spent
<1>9. Unlevered'
    BY <1>2, <1>3, <1>6 DEF Unlevered
<1>10. HeldIsListed'
    <2>1. ASSUME NEW s \in Symbols, book'.weights[s] # Zero PROVE SeenIn(rows', s) # {}
        <3>1. \/ book.weights[s] # Zero
              \/ decided.book # None /\ decided.book[s] # Zero
            BY <1>2, <1>4, <2>1 DEF Follows
        <3> QED BY <1>1, <1>5, <3>1 DEF HeldIsListed
    <2>2. ASSUME NEW s \in Symbols, decided'.book # None, decided'.book[s] # Zero
          PROVE  SeenIn(rows', s) # {}
        BY <1>3, <1>5, <2>2
    <2> QED BY <2>1, <2>2 DEF HeldIsListed
<1>11. Between'
    BY <1>2, <1>3, <1>5 DEF Between, Exits
<1>12. Bought'
    BY <1>2, <1>3 DEF Bought
<1>13. Opening'
    BY <1>2, <1>5, <1>7 DEF Opening, Spent
<1> QED BY <1>8, <1>9, <1>10, <1>11, <1>12, <1>13 DEF RiskParityInv

LEMMA StutterInv == RiskParityInv /\ UNCHANGED vars => RiskParityInv'
<1> SUFFICES ASSUME RiskParityInv, UNCHANGED vars PROVE RiskParityInv'
    OBVIOUS
<1>1. UNCHANGED <<rule, rows, age, book, passive, decided, bills, window>>
    BY DEF vars
<1>2. Types' /\ Unlevered'
    BY <1>1 DEF RiskParityInv, Types, Unlevered
<1>3. HeldIsListed'
    BY <1>1 DEF RiskParityInv, HeldIsListed
<1>5. Opening'
    BY <1>1 DEF RiskParityInv, Opening
<1>6. \A s \in Symbols : Passes(s, Index, Last(rows))' <=> Passes(s, Index, Last(rows))
    BY <1>1 DEF Passes, Price, Index
<1>7. Bought'
    BY <1>1, <1>6 DEF RiskParityInv, Bought
<1>8. Between'
    <2>1. {s \in Symbols : book'.weights[s] # Zero /\ ~Passes(s, Index, Last(rows))'}
            = {s \in Symbols : book.weights[s] # Zero /\ ~Passes(s, Index, Last(rows))}
        BY <1>1, <1>6
    <2>2. Exits(book.weights, Index, Last(rows))' = Exits(book.weights, Index, Last(rows))
        BY <2>1 DEF Exits
    <2> QED BY <1>1, <2>2 DEF RiskParityInv, Between, Index
<1> QED BY <1>2, <1>3, <1>5, <1>7, <1>8 DEF RiskParityInv

\* The rows a bar may print.
LEMMA NextIs == Next => \E p \in Row : Listed(p) \/ Bar(p)
BY DEF Next, Row

\* The inductive invariant of the book, its benchmark, their pending decisions
\* and the window: types, no gearing, nothing held that never had a price, the
\* pending decision between rebalances and the window's commissions.
THEOREM RiskParityInvariant == Spec => []RiskParityInv
<1>1. RiskParityInv /\ [Next]_vars => RiskParityInv'
    <2> SUFFICES ASSUME RiskParityInv, [Next]_vars PROVE RiskParityInv'
        OBVIOUS
    <2>1. CASE Next
        <3>1. PICK p \in Row : Listed(p) \/ Bar(p)
            BY <2>1, NextIs
        <3> QED BY <3>1, ListedInv, BarInv
    <2>2. CASE UNCHANGED vars
        BY <2>2, StutterInv
    <2> QED BY <2>1, <2>2
<1> QED BY <1>1, InitInv, PTL DEF Spec

-----------------------------------------------------------------------------
(* What a close decides *)

\* The pending book is within its cap and no larger than the benchmark.
Within == decided.book # None =>
    /\ \A s \in Symbols : decided.book[s] \preceq rule.maxWeight
    /\ Total(decided.book) \preceq Total(decided.passive)

LEMMA WithinStep ==
    ASSUME TenRounds, RiskParityInv, Within, [Next]_vars
    PROVE  Within'
<1>1. Types /\ Between
    BY DEF RiskParityInv
<1>2. CASE Next
    <2>1. PICK p \in Row : Listed(p) \/ Bar(p)
        BY <1>2, NextIs
    <2>2. CASE Listed(p)
        <3>1. decided' = Undecided
            BY <1>1, <2>2 DEF Listed, Between
        <3> QED BY <3>1 DEF Within, Undecided
    <2>3. CASE Bar(p)
        <3>1. UNCHANGED rule
            BY <2>3 DEF Bar
        <3>2. decided'.book # None =>
                 /\ \A s \in Symbols : decided'.book[s] \preceq rule.maxWeight
                 /\ Total(decided'.book) \preceq Total(decided'.passive)
            BY <1>1, <2>3, DecidedIs
        <3> QED BY <3>1, <3>2 DEF Within
    <2> QED BY <2>1, <2>2, <2>3
<1>3. CASE UNCHANGED vars
    BY <1>3 DEF vars, Within
<1> QED BY <1>2, <1>3

LEMMA SizedIsFraction ==
    ASSUME NEW w \in Numbers, Sized(w)
    PROVE  Fraction(Total(w)) /\ \A s \in Symbols : Fraction(w[s])
<1>1. Total(w) \in Rational /\ Zero \preceq Total(w) /\ Total(w) \preceq One
    BY Totals DEF Sized, Nonnegative
<1>2. ASSUME NEW s \in Symbols PROVE Zero \preceq w[s] /\ w[s] \preceq One
    <2>1. w[s] \in Rational /\ Zero \preceq w[s]
        BY NumbersAre DEF Sized, Nonnegative
    <2>2. w[s] \preceq Total(w)
        BY TotalAbove DEF Sized, Nonnegative
    <2> QED BY <1>1, <2>1, <2>2, OrderedSteps, Constants
<1> QED BY <1>1, <1>2 DEF Fraction

LEMMA InvIsSound == RiskParityInv /\ Within => DecisionsAreSound
<1> SUFFICES ASSUME RiskParityInv, Within PROVE DecisionsAreSound
    OBVIOUS
<1>1. Types /\ Unlevered /\ Bought
    BY DEF RiskParityInv
<1>2. /\ book.weights \in Numbers /\ Sized(book.weights)
      /\ passive.weights \in Numbers /\ Sized(passive.weights)
    BY <1>1 DEF Types, Unlevered, Accounts
<1>3. /\ Fraction(Total(book.weights)) /\ Fraction(Total(passive.weights))
      /\ \A s \in Symbols : Fraction(book.weights[s]) /\ Fraction(passive.weights[s])
    BY <1>2, SizedIsFraction
<1>4. TypeOK
    BY <1>1, <1>3 DEF TypeOK, Types, Decision
<1>5. NeverLevered /\ PassiveIsFuller
    BY <1>3 DEF NeverLevered, PassiveIsFuller, Within
<1>6. GoneIsNotBought
    <2>1. ~Positive(Zero)
        BY Constants DEF Positive
    <2> QED BY <1>1, <2>1 DEF GoneIsNotBought, Bought
<1> QED BY <1>4, <1>5, <1>6 DEF DecisionsAreSound

\* What run_riskparity decides at a close is within the limits of its book: no
\* gearing, no name above the cap, the benchmark at least as full, and only
\* names that were fresh and rising are bought.
THEOREM DecisionsAreAlwaysSound == ASSUME TenRounds PROVE Spec => []DecisionsAreSound
<1>1. Init => Within
    BY DEF Init, Within, Undecided
<1>2. RiskParityInv /\ Within /\ [Next]_vars => Within'
    BY WithinStep
<1> QED BY <1>1, <1>2, InvIsSound, RiskParityInvariant, PTL DEF Spec

-----------------------------------------------------------------------------
(* Trades *)

\* The units held of a symbol move with its price, unless it was gone and is
\* back.
LEMMA UnitsGrow ==
    ASSUME RiskParityInv, rows # <<>>, NEW row \in Row, rows' = Append(rows, row),
           NEW s \in Symbols,
           ~(book.weights[s] # Zero /\ Last(rows)[s] = None /\ row[s] # None)
    PROVE  /\ Units(s) \in Rational
           /\ Units(s) ** KnownIn(rows', s) = book.equity ** Grown(book.weights, row)[s]
           /\ book.equity ** Grown(book.weights, row)[s] \in Rational
           /\ book.weights[s] # Zero => KnownIn(rows', s) # Zero
           /\ KnownIn(rows', s) \in Rational
<1> DEFINE w == book.weights[s]
           e == book.equity
           m == Moved(s, row)
           k == KnownIn(rows, s)
           new == KnownIn(rows', s)
           u == Units(s)
<1>1. Types /\ Unlevered /\ HeldIsListed /\ rows \in Seq(Row)
    BY DEF RiskParityInv, Types
<1>2. w \in Rational /\ e \in Rational /\ m \in Rational
      /\ Grown(book.weights, row)[s] = w ** m
    <2>1. book.weights \in Numbers /\ e \in Rational
        BY <1>1 DEF Types, Accounts
    <2>2. w \in Rational
        BY <2>1, NumbersAre
    <2>3. m \in Rational
        BY <1>1, MovedIs
    <2> QED BY <2>1, <2>2, <2>3 DEF Grown
<1>3. u = IF w = Zero THEN Zero ELSE (w ** e) // k
    BY DEF Units, Known, KnownIn, SeenIn
<1>4. new \in Rational
    BY <1>1, KnownNext
<1>5. w # Zero => SeenIn(rows, s) # {} /\ k \in Rational /\ k # Zero /\ new # Zero
    <2>1. w # Zero => SeenIn(rows, s) # {}
        BY <1>1 DEF HeldIsListed
    <2>2. SeenIn(rows, s) # {} => k \in Rational /\ k # Zero
        BY <1>1, KnownIs
    <2>3. SeenIn(rows, s) # {} => new # Zero
        BY <1>1, KnownNext
    <2> QED BY <2>1, <2>2, <2>3
<1>6. w # Zero => k ** m = new
    <2>1. CASE row[s] = None
        <3>1. m = One /\ new = k
            BY <1>1, <2>1, MovedIs, KnownNext
        <3> HIDE DEF k, m, w, new
        <3> QED BY <1>5, <3>1, Neutral
    <2>2. CASE row[s] # None
        <3>1. w # Zero => Last(rows)[s] # None
            BY <2>2
        <3>2. new = R(row[s])
            BY <1>1, <2>2, KnownNext
        <3>3. Last(rows)[s] # None => k = R(Last(rows)[s]) /\ R(Last(rows)[s]) ** m = R(row[s])
            BY <1>1, <2>2, MovedIs, KnownIs
        <3> HIDE DEF k, m, w, new
        <3> QED BY <3>1, <3>2, <3>3
    <2> QED BY <2>1, <2>2
<1> HIDE DEF w, e, m, k, new, u
<1>7. e ** (w ** m) \in Rational
    BY <1>2, ProductType
<1>8. CASE w = Zero
    <2>1. u = Zero /\ u \in Rational
        BY <1>3, <1>8, Constants
    <2>2. u ** new = Zero /\ w ** m = Zero /\ e ** (w ** m) = Zero
        BY <1>2, <1>4, <1>8, <2>1, Neutral
    <2> QED BY <1>2, <1>4, <1>7, <1>8, <2>1, <2>2 DEF u, new, w, e
<1>9. CASE w # Zero
    <2>1. k \in Rational /\ k # Zero /\ new # Zero /\ k ** m = new
        BY <1>5, <1>6, <1>9
    <2>2. w ** e \in Rational /\ w ** e = e ** w
        BY <1>2, ProductType, ProductCommutes
    <2>3. u \in Rational /\ u ** k = w ** e
        BY <1>3, <1>9, <2>1, <2>2, Quotient
    <2>4. u ** new = (u ** k) ** m
        BY <1>2, <2>1, <2>3, ProductAssociates
    <2>5. (e ** w) ** m = e ** (w ** m)
        BY <1>2, ProductAssociates
    <2> QED BY <1>2, <1>4, <1>7, <2>1, <2>2, <2>3, <2>4, <2>5 DEF u, new, w, e
<1> QED BY <1>8, <1>9

LEMMA UnitsStay ==
    ASSUME RiskParityInv, NEW p \in Row, Bar(p), ~Returned,
           decided.book = None, decided.exits = {}, NEW s \in Symbols
    PROVE  Units(s)' = Units(s)
<1> DEFINE row == Filled(p)
           own == Own(row)
<1>1. Types /\ Unlevered
    BY DEF RiskParityInv
<1>2. row \in Row /\ rows # <<>> /\ rows' = Append(rows, row) /\ book' = own.account
    BY <1>1, BarIs
<1>3. rows'[Len(rows')] = row
    BY <1>1, <1>2, RowsGrow DEF Types
<1>4. Follows(own, book, decided.book, decided.exits, row)
    BY <1>1, <1>2, AccountsAre
<1> HIDE DEF row, own
<1>5. ~(book.weights[s] # Zero /\ Last(rows)[s] = None /\ row[s] # None)
    BY <1>3 DEF Returned
<1> DEFINE x == own.account.weights[s]
           e == own.account.equity
           k == KnownIn(rows', s)
           u == Units(s)
<1>6. /\ u \in Rational /\ k \in Rational /\ (book.weights[s] # Zero => k # Zero)
      /\ u ** k = book.equity ** Grown(book.weights, row)[s]
    BY <1>2, <1>5, UnitsGrow
<1>7. /\ x ** e = book.equity ** Grown(book.weights, row)[s]
      /\ x = Zero <=> book.weights[s] = Zero
    BY <1>4 DEF Follows
<1>8. Units(s)' = IF x = Zero THEN Zero ELSE (x ** e) // k
    BY <1>2 DEF Units, Known, KnownIn, SeenIn
<1>9. book.weights[s] = Zero => u = Zero
    BY DEF Units
<1>10. x \in Rational /\ e \in Rational
    <2>1. own.account \in Accounts
        BY <1>4 DEF Follows
    <2>2. own.account.weights \in Numbers /\ e \in Rational
        BY <2>1 DEF Accounts
    <2> QED BY <2>2, NumbersAre
<1> HIDE DEF x, e, k, u
<1>11. x # Zero => (x ** e) // k = u
    <2>1. x ** e \in Rational
        BY <1>10, ProductType
    <2> QED BY <1>6, <1>7, <2>1, QuotientIs
<1>12. x = Zero => u = Zero
    BY <1>7, <1>9
<1> QED BY <1>8, <1>11, <1>12 DEF u

LEMMA StepTrades ==
    ASSUME RiskParityInv, [Next]_vars
    PROVE  /\ [rows # <<>> /\ ~Returned /\ decided.book = None /\ decided.exits = {} =>
                  \A s \in Symbols : Units(s)' = Units(s)]_vars
           /\ [rows # <<>> /\ Index % rule.grid # 0 =>
                  \A s \in Symbols : ~Passes(s, Index, Last(rows)) => book.weights'[s] = Zero]_vars
           /\ [\A s \in Symbols :
                  book.weights[s] = Zero /\ book.weights'[s] # Zero => Index % rule.grid = 0]_vars
<1>1. Types /\ Unlevered /\ Between
    BY DEF RiskParityInv
<1>2. CASE UNCHANGED vars
    BY <1>2
<1>3. ASSUME NEW p \in Row, Listed(p) PROVE rows = <<>> /\ book' = book
    BY <1>3 DEF Listed
<1>4. ASSUME NEW p \in Row, Bar(p), ~Returned, decided.book = None, decided.exits = {}
      PROVE  \A s \in Symbols : Units(s)' = Units(s)
    <2> TAKE s \in Symbols
    <2> QED BY <1>4, UnitsStay
<1>5. ASSUME NEW p \in Row, Bar(p), Index % rule.grid # 0, NEW s \in Symbols
      PROVE  /\ ~Passes(s, Index, Last(rows)) => book'.weights[s] = Zero
             /\ book.weights[s] = Zero => book'.weights[s] = Zero
    <2> DEFINE row == Filled(p)
               own == Own(row)
    <2>1. row \in Row /\ rows # <<>> /\ book' = own.account
        BY <1>1, <1>5, BarIs
    <2>2. Follows(own, book, decided.book, decided.exits, row)
        BY <1>1, <2>1, AccountsAre
    <2> HIDE DEF row, own
    <2>3. decided = Exits(book.weights, Index, Last(rows))
        BY <1>1, <1>5, <2>1 DEF Between
    <2>4. /\ decided.book = None
          /\ decided.exits = {x \in Symbols :
                book.weights[x] # Zero /\ ~Passes(x, Index, Last(rows))}
        BY <2>3 DEF Exits, Undecided
    <2>5. ~Passes(s, Index, Last(rows)) => book.weights[s] = Zero \/ s \in decided.exits
        BY <2>4
    <2> QED BY <2>1, <2>2, <2>4, <2>5 DEF Follows
<1>6. CASE Next
    <2>1. PICK p \in Row : Listed(p) \/ Bar(p)
        BY <1>6, NextIs
    <2>2. rows # <<>> => Bar(p)
        BY <1>3, <2>1
    <2>3. rows # <<>> /\ ~Returned /\ decided.book = None /\ decided.exits = {} =>
              \A s \in Symbols : Units(s)' = Units(s)
        BY <1>4, <2>2
    <2>4. rows # <<>> /\ Index % rule.grid # 0 =>
              \A s \in Symbols : ~Passes(s, Index, Last(rows)) => book'.weights[s] = Zero
        BY <1>5, <2>2
    <2>5. \A s \in Symbols :
              book.weights[s] = Zero /\ book'.weights[s] # Zero => Index % rule.grid = 0
        BY <1>3, <1>5, <2>1
    <2> QED BY <2>3, <2>4, <2>5
<1> QED BY <1>2, <1>6

\* Units change hands only where the rules of the book let them: not on a bar
\* for which nothing was decided, a name that lost its trend is out at the next
\* close, and a name comes back only at a rebalance.
THEOREM TradesAreAlwaysDecided == Spec => TradesAreDecided
<1>1. RiskParityInv /\ [Next]_vars =>
        /\ [rows # <<>> /\ ~Returned /\ decided.book = None /\ decided.exits = {} =>
               \A s \in Symbols : Units(s)' = Units(s)]_vars
        /\ [rows # <<>> /\ Index % rule.grid # 0 =>
               \A s \in Symbols : ~Passes(s, Index, Last(rows)) => book.weights'[s] = Zero]_vars
        /\ [\A s \in Symbols :
               book.weights[s] = Zero /\ book.weights'[s] # Zero => Index % rule.grid = 0]_vars
    BY StepTrades
<1> QED BY <1>1, RiskParityInvariant, PTL
       DEF Spec, TradesAreDecided, NothingTradesUndecided, LosersAreSold, OnlyGridBuys

-----------------------------------------------------------------------------
(* Money *)

LEMMA BarConserves ==
    ASSUME CheapTrades, RiskParityInv, NEW p \in Row, Bar(p), ~Returned
    PROVE  book.equity' ++ (book.fees' -- book.fees) =
               Cash ++ Total([s \in Symbols |-> Units(s) ** Known(s)'])
<1> DEFINE row == Filled(p)
           own == Own(row)
           grown == Grown(book.weights, row)
           h == [s \in Symbols |-> Units(s) ** KnownIn(rows', s)]
<1>1. Types /\ Unlevered
    BY DEF RiskParityInv
<1>2. row \in Row /\ rows # <<>> /\ rows' = Append(rows, row) /\ book' = own.account
    BY <1>1, BarIs
<1>3. rows'[Len(rows')] = row
    BY <1>1, <1>2, RowsGrow DEF Types
<1>4. Follows(own, book, decided.book, decided.exits, row)
    BY <1>1, <1>2, AccountsAre
<1>5. book.equity \in Rational /\ book.weights \in Numbers /\ grown \in Numbers
    <2>1. book.equity \in Rational /\ book.weights \in Numbers /\ Nonnegative(book.weights)
          /\ rows \in Seq(Row)
        BY <1>1 DEF Types, Accounts, Unlevered, Sized
    <2> QED BY <1>2, <2>1, GrownIs
<1> HIDE DEF row, own, grown
<1>6. ASSUME NEW s \in Symbols
      PROVE  h[s] = book.equity ** grown[s] /\ book.equity ** grown[s] \in Rational
    <2>1. ~(book.weights[s] # Zero /\ Last(rows)[s] = None /\ row[s] # None)
        BY <1>3 DEF Returned
    <2>2. /\ Units(s) ** KnownIn(rows', s) = book.equity ** Grown(book.weights, row)[s]
          /\ book.equity ** Grown(book.weights, row)[s] \in Rational
        BY <1>2, <2>1, UnitsGrow
    <2> QED BY <2>2 DEF grown
<1>7. h \in Numbers
    BY <1>6 DEF Numbers
<1>8. h = [s \in Symbols |-> Units(s) ** Known(s)']
    BY DEF Known, KnownIn, SeenIn
<1> HIDE DEF h
<1>9. Total(h) = book.equity ** Total(grown)
    BY <1>5, <1>6, <1>7, TotalsScale
<1>10. own.account.equity ++ (own.account.fees -- book.fees)
         = Cash ++ (book.equity ** Total(grown))
    BY <1>4 DEF Follows, Cash, grown
<1> QED BY <1>2, <1>8, <1>9, <1>10

\* Price of the first, the newest, and the newest before the window.
LEMMA HoldIs ==
    ASSUME NEW a \in Nat \ {0}, NEW f \in Nat \ {0}, NEW h \in Nat \ {0},
           NEW k \in Rational, Positive(k)
    PROVE  (((Q(a, f) ** k) // (Q(h, f) ** k)) ** k) ** R(h) = k ** R(a)
<1> DEFINE x == Q(a, f)
           y == Q(h, f)
           z == (x ** k) // (y ** k)
<1>1. /\ x \in Rational /\ R(f) ** x = R(a) /\ Positive(x)
      /\ y \in Rational /\ R(f) ** y = R(h) /\ Positive(y)
      /\ R(f) \in Rational /\ R(f) # Zero /\ R(a) \in Rational /\ R(h) \in Rational
    BY CloseIsPositive
<1> HIDE DEF x, y
<1>2. /\ x ** k \in Rational /\ y ** k \in Rational /\ Positive(y ** k) /\ k # Zero
    <2>1. k # Zero
        BY Signs DEF Positive
    <2> QED BY <1>1, <2>1, PositiveProduct, ProductType
<1>3. y ** k # Zero
    BY <1>2, Signs DEF Positive
<1>4. z \in Rational /\ z ** (y ** k) = x ** k
    BY <1>2, <1>3, Quotient
<1> HIDE DEF z
<1>5. (z ** y) ** k = x ** k /\ z ** y \in Rational
    BY <1>1, <1>4, ProductAssociates, ProductType
<1>6. z ** y = x
    BY <1>1, <1>2, <1>5, ProductCancels
<1>7. z ** R(h) = R(a)
    <2>1. R(f) ** y = y ** R(f) /\ R(f) ** x = x ** R(f)
        BY <1>1, ProductCommutes
    <2>2. z ** (y ** R(f)) = (z ** y) ** R(f)
        BY <1>1, <1>4, ProductAssociates
    <2> QED BY <1>1, <1>6, <2>1, <2>2
<1>8. (z ** k) ** R(h) = (z ** R(h)) ** k
    BY <1>1, <1>4, SwapFactors
<1>9. (z ** R(h)) ** k = k ** R(a)
    BY <1>1, <1>7, ProductCommutes
<1> QED BY <1>8, <1>9 DEF z, x, y

\* The bars from 0 on and their positions in the rows, from 1 on.
LEMMA GreatestNext ==
    ASSUME NEW m \in Nat, NEW A \in SUBSET (0 .. m - 1), A # {},
           NEW S \in SUBSET (1 .. m),
           \A j \in 0 .. m - 1 : j \in A <=> j + 1 \in S
    PROVE  Max(S) = Max(A) + 1 /\ S # {}
<1>1. Max(A) \in A /\ \A j \in A : j <= Max(A)
    <2>1. m - 1 \in Int
        OBVIOUS
    <2> QED BY <2>1, GreatestIn
<1>2. Max(A) \in 0 .. m - 1 /\ Max(A) + 1 \in S
    BY <1>1
<1>3. S \in SUBSET (0 .. m) /\ S # {} /\ m \in Int
    BY <1>2
<1>4. Max(S) \in S /\ \A i \in S : i <= Max(S)
    BY <1>3, GreatestIn
<1>5. Max(S) \in 1 .. m /\ Max(A) + 1 <= Max(S)
    BY <1>2, <1>4
<1>6. Max(S) - 1 \in 0 .. m - 1 /\ (Max(S) - 1) + 1 = Max(S)
    BY <1>5
<1>7. Max(S) - 1 \in A
    BY <1>4, <1>6
<1>8. Max(S) - 1 <= Max(A)
    BY <1>1, <1>7
<1> QED BY <1>2, <1>3, <1>5, <1>8

LEMMA HoldFromInv == RiskParityInv => HoldIsAPurchase
<1> SUFFICES ASSUME RiskParityInv, window # None, NEW s \in Symbols,
                    {j \in Seen(s, Index) : j <= rule.opens} # {}
             PROVE  WindowHold(s) ** R(Price(s, Max({j \in Seen(s, Index) : j <= rule.opens})))
                      = (One -- CostRate) ** Known(s)
    BY DEF HoldIsAPurchase
<1> DEFINE n == Index
           o == rule.opens
           all == Seen(s, n)
           at == Seen(s, o)
           had == {j \in Seen(s, Index) : j <= rule.opens}
           k == One -- CostRate
           price(j) == Price(s, j)
<1>1. /\ rows \in Seq(Row) /\ Len(rows) \in Nat /\ n \in Int /\ n = Len(rows) - 1
      /\ o \in Nat /\ o + 1 <= Len(rows) /\ o <= n
    <2>1. Types /\ Opening
        BY DEF RiskParityInv
    <2>2. rule.opens \in Nat /\ rule.opens + 1 <= Len(rows) /\ rows \in Seq(Row)
          /\ Len(rows) \in Nat
        BY <2>1, RuleIs DEF Types, Opening, IsRule
    <2> QED BY <2>2 DEF Index
<1>2. ASSUME NEW j \in 0 .. n
      PROVE  /\ j + 1 \in 1 .. Len(rows) /\ price(j) = rows[j + 1][s]
             /\ price(j) # None => price(j) \in Nat \ {0}
    <2>1. j + 1 \in 1 .. Len(rows)
        BY <1>1
    <2>2. rows[j + 1] \in Row
        BY <1>1, <2>1
    <2>3. rows[j + 1][s] \in Prices \cup {None}
        BY <2>2 DEF Row
    <2> QED BY <2>1, <2>3, RiskParityAssumption DEF Price
<1>3. /\ all = {j \in 0 .. n : price(j) # None} /\ at = {j \in 0 .. o : price(j) # None}
      /\ had = {j \in all : j <= o}
      /\ SeenIn(rows, s) = {i \in 1 .. Len(rows) : rows[i][s] # None}
    BY <1>1 DEF Seen, SeenIn
<1>4. had # {}
    OBVIOUS
<1>5. WindowHold(s) = (HoldCurve(s, n) // HoldCurve(s, o)) ** k
    BY DEF WindowHold
<1>6. /\ all # {} => HoldCurve(s, n) = Q(price(Max(all)), price(Min(all))) ** k
      /\ at # {} => HoldCurve(s, o) = Q(price(Max(at)), price(Min(at))) ** k
    BY DEF HoldCurve
<1>7. Known(s) = IF SeenIn(rows, s) = {} THEN Zero ELSE R(rows[Max(SeenIn(rows, s))][s])
    BY DEF Known, SeenIn
<1>8. k \in Rational /\ Positive(k)
    BY RateIs
<1> HIDE DEF n, o, all, at, had, k, price
<1>9. at = had /\ all # {} /\ at # {}
    BY <1>1, <1>3, <1>4
<1>10. /\ all \in SUBSET (0 .. n) /\ all \in SUBSET Nat
       /\ at \in SUBSET (0 .. n) /\ at \in SUBSET Nat
    BY <1>1, <1>3
<1>11. /\ Max(all) \in all /\ (\A j \in all : j <= Max(all))
       /\ Min(all) \in all /\ (\A j \in all : Min(all) <= j)
       /\ Max(at) \in at
       /\ Min(at) \in at /\ (\A j \in at : Min(at) <= j)
    BY <1>1, <1>9, <1>10, GreatestIn, LeastIn
<1>12. Min(all) = Min(at)
    <2>1. Min(at) \in all
        BY <1>3, <1>9, <1>11
    <2>2. Min(all) <= Min(at) /\ Min(all) \in Nat /\ Min(at) \in Nat /\ Min(at) <= o
        BY <1>3, <1>9, <1>10, <1>11, <2>1
    <2>3. Min(all) \in at
        BY <1>1, <1>3, <1>9, <1>11, <2>2
    <2> QED BY <1>11, <2>2, <2>3
<1>13. Max(SeenIn(rows, s)) = Max(all) + 1 /\ SeenIn(rows, s) # {}
    <2>1. all \in SUBSET (0 .. Len(rows) - 1) /\ SeenIn(rows, s) \in SUBSET (1 .. Len(rows))
        BY <1>1, <1>3, <1>10
    <2>2. ASSUME NEW j \in 0 .. Len(rows) - 1
          PROVE  j \in all <=> j + 1 \in SeenIn(rows, s)
        BY <1>1, <1>2, <1>3
    <2> QED BY <1>1, <1>9, <2>1, <2>2, GreatestNext
<1>14. Known(s) = R(price(Max(all)))
    <2>1. Max(all) \in 0 .. n
        BY <1>3, <1>11
    <2> QED BY <1>2, <1>7, <1>13, <2>1
<1> DEFINE a == price(Max(all))
           f == price(Min(all))
           h == price(Max(at))
<1>15. a \in Nat \ {0} /\ f \in Nat \ {0} /\ h \in Nat \ {0}
    <2>1. /\ Max(all) \in 0 .. n /\ price(Max(all)) # None
          /\ Min(all) \in 0 .. n /\ price(Min(all)) # None
          /\ Max(at) \in 0 .. n /\ price(Max(at)) # None
        BY <1>3, <1>9, <1>10, <1>11
    <2> QED BY <1>2, <2>1
<1>16. WindowHold(s) = ((Q(a, f) ** k) // (Q(h, f) ** k)) ** k
    BY <1>5, <1>6, <1>9, <1>12
<1> HIDE DEF a, f, h
<1>17. (((Q(a, f) ** k) // (Q(h, f) ** k)) ** k) ** R(h) = k ** R(a)
    BY <1>8, <1>15, HoldIs
<1>18. WindowHold(s) ** R(h) = k ** Known(s)
    BY <1>14, <1>16, <1>17 DEF a
<1>19. h = Price(s, Max(had))
    BY <1>9 DEF h, price
<1> QED BY <1>18, <1>19 DEF k, had

LEMMA WindowFromInv == RiskParityInv => WindowFeesArePaid
BY DEF RiskParityInv, Opening, WindowFeesArePaid

\* A window's commissions are those paid in it as long as no bar sold two
\* names, and its reference is one purchase at its first bar.
THEOREM WindowsAddUp == Spec => [](WindowFeesArePaid /\ HoldIsAPurchase)
BY RiskParityInvariant, HoldFromInv, WindowFromInv, PTL

\* No money appears or is lost, in the whole run or in a window of it, as long
\* as a side costs no more than half of what it trades: beyond that the account
\* is stopped at zero with some of its commissions unpaid.
THEOREM MoneyAlwaysAddsUp == ASSUME CheapTrades PROVE Spec => MoneyAddsUp
<1>1. RiskParityInv /\ [Next]_vars =>
        [rows # <<>> /\ ~Returned =>
           book.equity' ++ (book.fees' -- book.fees) =
               Cash ++ Total([s \in Symbols |-> Units(s) ** Known(s)'])]_vars
    <2> SUFFICES ASSUME RiskParityInv, Next, rows # <<>>, ~Returned
                 PROVE  book.equity' ++ (book.fees' -- book.fees) =
                            Cash ++ Total([s \in Symbols |-> Units(s) ** Known(s)'])
        OBVIOUS
    <2>1. PICK p \in Row : Listed(p) \/ Bar(p)
        BY NextIs
    <2>2. Bar(p)
        BY <2>1 DEF Listed
    <2> QED BY <2>2, BarConserves
<1> QED BY <1>1, RiskParityInvariant, HoldFromInv, WindowFromInv, PTL
       DEF Spec, MoneyAddsUp, ValueIsConserved

=============================================================================
