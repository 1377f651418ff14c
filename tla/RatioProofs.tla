---------------------------- MODULE RatioProofs ----------------------------
(***************************************************************************)
(* The laws of the fractions of Ratio: lowest terms are unique, so equal   *)
(* fractions are the same pair, and ++, **, -- and // are the operations   *)
(* of an ordered field.  The accounts of the analysis are reasoned about   *)
(* with these laws.                                                        *)
(***************************************************************************)
EXTENDS Ratio, FiniteSetTheorems, TLAPS

Whole == Nat \ {0}
Divides(k, n) == \E m \in Int : n = k * m

\* g is the greatest common divisor of a and b.
IsGcd(g, a, b) ==
    /\ g \in Whole /\ Divides(g, a) /\ Divides(g, b)
    /\ \A k \in Whole : Divides(k, a) /\ Divides(k, b) => k <= g

-----------------------------------------------------------------------------
(* Integers *)

\* Every nonempty set of naturals has a least element.
LEMMA LeastNumber ==
    ASSUME NEW S \in SUBSET Nat, S # {}
    PROVE  \E m \in S : \A k \in S : m <= k
<1>1. PICK m \in S : \A y \in S : ~(<<y, m>> \in OpToRel(<, Nat))
    BY NatLessThanWellFounded, WFMin
<1>2. ASSUME NEW y \in S PROVE m <= y
    <2>1. m \in Nat /\ y \in Nat /\ <<y, m>> \in Nat \X Nat
        OBVIOUS
    <2>2. y < m => <<y, m>> \in OpToRel(<, Nat)
        BY <2>1 DEF OpToRel
    <2>3. ~(y < m)
        BY <1>1, <2>2
    <2> QED BY <2>1, <2>3
<1> QED BY <1>2

LEMMA Division ==
    ASSUME NEW a \in Int, NEW b \in Whole
    PROVE  /\ a = b * (a \div b) + (a % b) /\ a % b \in 0 .. b - 1
           /\ a \div b \in Int /\ a % b \in Nat
BY DEF Whole

LEMMA Cancels ==
    ASSUME NEW x \in Int, NEW y \in Int, NEW k \in Int, k # 0, k * x = k * y
    PROVE  x = y
OBVIOUS

LEMMA QuotientOfProduct ==
    ASSUME NEW g \in Whole, NEW m \in Int
    PROVE  (g * m) \div g = m
BY DEF Whole

\* A divisor of a number that is not zero is at most as large.
LEMMA DivisorBound ==
    ASSUME NEW k \in Whole, NEW n \in Whole, Divides(k, n)
    PROVE  k <= n
<1>1. PICK m \in Int : n = k * m
    BY DEF Divides
<1>2. k \in Int /\ k > 0 /\ n \in Int /\ n > 0
    BY DEF Whole
<1>3. m >= 1
    BY <1>1, <1>2
<1>4. k * m >= k
    BY <1>2, <1>3
<1> QED BY <1>1, <1>4

-----------------------------------------------------------------------------
(* Greatest common divisors *)

\* The step of Euclid's algorithm keeps the common divisors.
LEMMA CommonDivisors ==
    ASSUME NEW a \in Int, NEW b \in Whole, NEW k \in Whole
    PROVE  Divides(k, a) /\ Divides(k, b) <=> Divides(k, b) /\ Divides(k, a % b)
<1>1. /\ a = b * (a \div b) + (a % b) /\ a \div b \in Int /\ a % b \in Int
      /\ b \in Int /\ k \in Int
    BY Division DEF Whole
<1> DEFINE q == a \div b
           r == a % b
<1>2. q \in Int /\ r \in Int /\ a = b * q + r
    BY <1>1
<1> HIDE DEF q, r
<1>3. ASSUME NEW m \in Int, NEW n \in Int, a = k * m, b = k * n
      PROVE  Divides(k, r)
    <2>1. m - n * q \in Int /\ n * q \in Int /\ b * q = k * (n * q)
        BY <1>1, <1>2, <1>3
    <2>2. r = k * (m - n * q)
        BY <1>1, <1>2, <1>3, <2>1
    <2> QED BY <2>1, <2>2 DEF Divides
<1>4. ASSUME NEW m \in Int, NEW n \in Int, r = k * m, b = k * n
      PROVE  Divides(k, a)
    <2>1. n * q + m \in Int /\ n * q \in Int /\ b * q = k * (n * q)
        BY <1>1, <1>2, <1>4
    <2>2. a = k * (n * q + m)
        BY <1>1, <1>2, <1>4, <2>1
    <2> QED BY <2>1, <2>2 DEF Divides
<1>5. Divides(k, a) /\ Divides(k, b) => Divides(k, r)
    BY <1>3 DEF Divides
<1>6. Divides(k, r) /\ Divides(k, b) => Divides(k, a)
    BY <1>4 DEF Divides
<1> QED BY <1>5, <1>6 DEF r

LEMMA GcdStep ==
    ASSUME NEW a \in Int, NEW b \in Whole, NEW g
    PROVE  IsGcd(g, a, b) <=> IsGcd(g, b, a % b)
BY CommonDivisors DEF IsGcd

\* A number divides zero, and is the greatest that divides it and zero.
LEMMA GcdOfZero ==
    ASSUME NEW b \in Whole
    PROVE  IsGcd(b, b, 0)
<1>1. b \in Int /\ b * 1 = b /\ b * 0 = 0
    BY DEF Whole
<1>2. Divides(b, b) /\ Divides(b, 0)
    BY <1>1 DEF Divides
<1> QED BY <1>2, DivisorBound DEF IsGcd

\* There is only one.
LEMMA GcdUnique ==
    ASSUME NEW a, NEW b, NEW g, NEW h, IsGcd(g, a, b), IsGcd(h, a, b)
    PROVE  g = h
<1>1. g \in Int /\ h \in Int /\ g <= h /\ h <= g
    BY DEF IsGcd, Whole
<1> QED BY <1>1

LEMMA GcdExists ==
    ASSUME NEW a \in Int, NEW b \in Whole
    PROVE  \E g \in Whole : IsGcd(g, a, b)
<1> DEFINE gaps == {n \in Nat : n < b /\ Divides(b - n, a) /\ Divides(b - n, b)}
<1>1. b - 1 \in gaps
    <2>1. b - 1 \in Nat /\ b - 1 < b /\ b - (b - 1) = 1
        BY DEF Whole
    <2>2. Divides(1, a) /\ Divides(1, b)
        <3>1. a = 1 * a /\ b = 1 * b /\ b \in Int
            BY DEF Whole
        <3> QED BY <3>1 DEF Divides
    <2> QED BY <2>1, <2>2
<1>2. PICK n \in gaps : \A k \in gaps : n <= k
    BY <1>1, LeastNumber
<1>3. b - n \in Whole /\ Divides(b - n, a) /\ Divides(b - n, b)
    BY <1>2 DEF Whole
<1>4. ASSUME NEW k \in Whole, Divides(k, a), Divides(k, b)
      PROVE  k <= b - n
    <2>1. k <= b
        BY <1>4, DivisorBound
    <2>2. b - k \in Nat /\ b - k < b /\ b - (b - k) = k
        BY <2>1 DEF Whole
    <2>3. b - k \in gaps
        BY <1>4, <2>2
    <2>4. n <= b - k
        BY <1>2, <2>3
    <2> QED BY <2>2, <2>4 DEF Whole
<1> QED BY <1>3, <1>4 DEF IsGcd

\* gcd is the function its definition says it is.
LEMMA GcdUnfolds ==
    ASSUME NEW a \in Int, NEW b \in Nat
    PROVE  gcd[<<a, b>>] = IF b = 0 THEN a ELSE gcd[<<b, a % b>>]
<1> DEFINE D == Int \X Nat
           h == [c \in D |-> IF c[2] = 0 THEN c[1]
                             ELSE CHOOSE g \in Whole : IsGcd(g, c[1], c[2])]
           step(f) == [c \in D |-> IF c[2] = 0 THEN c[1] ELSE f[<<c[2], c[1] % c[2]>>]]
<1>1. ASSUME NEW c \in D
      PROVE  h[c] = IF c[2] = 0 THEN c[1] ELSE h[<<c[2], c[1] % c[2]>>]
    <2>1. CASE c[2] = 0
        BY <2>1
    <2>2. CASE c[2] # 0
        <3> DEFINE x == c[1]
                   y == c[2]
                   z == x % y
        <3>1. x \in Int /\ y \in Whole
            BY <2>2 DEF Whole
        <3> HIDE DEF x, y
        <3>2. z \in Nat /\ y \in Int
            BY <3>1, Division DEF Whole
        <3> USE DEF x, y
        <3>3. IsGcd(h[c], x, y)
            BY <2>2, <3>1, GcdExists
        <3>4. <<y, z>> \in D /\ <<y, z>>[1] = y /\ <<y, z>>[2] = z
            BY <3>1, <3>2
        <3> HIDE DEF x, y, z
        <3>5. IsGcd(h[<<y, z>>], y, z)
            <4>1. CASE z = 0
                BY <3>1, <3>4, <4>1, GcdOfZero
            <4>2. CASE z # 0
                <5>1. z \in Whole
                    BY <3>2, <4>2 DEF Whole
                <5> QED BY <3>2, <3>4, <4>2, <5>1, GcdExists
            <4> QED BY <4>1, <4>2
        <3>6. IsGcd(h[c], y, z)
            BY <3>1, <3>3, GcdStep DEF z
        <3>7. h[c] = h[<<y, z>>]
            BY <3>5, <3>6, GcdUnique
        <3> QED BY <2>2, <3>7 DEF x, y, z
    <2> QED BY <2>1, <2>2
<1>2. h = step(h)
    <2>1. \A c \in D : h[c] = step(h)[c]
        BY <1>1
    <2>2. h = [c \in D |-> h[c]]
        OBVIOUS
    <2>3. step(h) = [c \in D |-> step(h)[c]]
        OBVIOUS
    <2> HIDE DEF h, step
    <2> QED BY <2>1, <2>2, <2>3, Zenon
<1> HIDE DEF h
<1>3. gcd = step(gcd)
    BY <1>2, Zenon DEF gcd
<1>4. \A c \in D : gcd[c] = IF c[2] = 0 THEN c[1] ELSE gcd[<<c[2], c[1] % c[2]>>]
    BY <1>3, Zenon
<1>5. <<a, b>> \in D
    OBVIOUS
<1> QED BY <1>4, <1>5

\* Euclid's algorithm finds the greatest common divisor.
LEMMA GcdFound ==
    ASSUME NEW a \in Int, NEW b \in Whole
    PROVE  IsGcd(gcd[<<a, b>>], a, b)
<1> DEFINE Wrong == {n \in Nat : n # 0 /\ \E x \in Int : ~IsGcd(gcd[<<x, n>>], x, n)}
<1> SUFFICES ASSUME Wrong # {} PROVE FALSE
    BY DEF Whole
<1>1. PICK n \in Wrong : \A k \in Wrong : n <= k
    BY LeastNumber
<1>2. PICK x \in Int : ~IsGcd(gcd[<<x, n>>], x, n)
    BY <1>1
<1>3. n \in Whole /\ x % n \in Nat /\ x % n < n /\ n \in Int
    BY <1>1, Division DEF Whole
<1>4. gcd[<<x, n>>] = gcd[<<n, x % n>>]
    BY <1>3, GcdUnfolds DEF Whole
<1>5. IsGcd(gcd[<<n, x % n>>], n, x % n)
    <2>1. CASE x % n = 0
        <3>1. gcd[<<n, 0>>] = n
            BY <1>3, GcdUnfolds
        <3> QED BY <1>3, <2>1, <3>1, GcdOfZero
    <2>2. CASE x % n # 0
        <3>1. x % n \notin Wrong
            BY <1>1, <1>3
        <3> QED BY <1>3, <2>2, <3>1
    <2> QED BY <2>1, <2>2
<1> QED BY <1>2, <1>3, <1>4, <1>5, GcdStep

-----------------------------------------------------------------------------
(* Lowest terms *)

\* No fraction of the same value has a smaller denominator.
Reduced(m, n) == \A j \in Int, k \in Whole : m * k = j * n => n <= k

\* Numbers without a common divisor are the terms of a reduced fraction.
LEMMA CoprimeIsReduced ==
    ASSUME NEW m \in Int, NEW n \in Whole,
           \A t \in Whole : Divides(t, m) /\ Divides(t, n) => t = 1
    PROVE  Reduced(m, n)
<1> DEFINE D == {k \in Whole : \E j \in Int : m * k = j * n}
<1>1. n \in D
    BY DEF Whole
<1>2. PICK k \in D : \A i \in D : k <= i
    <2>1. D \subseteq Nat
        BY DEF Whole
    <2> QED BY <1>1, <2>1, LeastNumber
<1>3. PICK j \in Int : m * k = j * n
    BY <1>2
<1>4. n \in Int /\ n > 0 /\ k \in Int /\ k > 0 /\ k \in Whole
    BY <1>2 DEF Whole
<1> DEFINE t == n \div k
           r == n % k
<1>5. n = k * t + r /\ t \in Int /\ r \in Nat /\ r < k
    BY <1>4, Division
<1> HIDE DEF t, r
<1>6. r = 0
    <2> SUFFICES ASSUME r # 0 PROVE FALSE
        OBVIOUS
    <2>1. r \in Int /\ r \in Whole /\ k * t \in Int /\ j * t \in Int /\ m - j * t \in Int
        BY <1>4, <1>5 DEF Whole
    <2>2. m * (k * t) = (m * k) * t
        BY <1>4, <1>5
    <2>3. (m * k) * t = (j * n) * t
        BY <1>3
    <2>4. (j * n) * t = (j * t) * n
        BY <1>4, <1>5
    <2>5. m * r = m * n - m * (k * t)
        BY <1>4, <1>5, <2>1
    <2>6. (m - j * t) * n = m * n - (j * t) * n
        BY <1>4, <2>1
    <2>7. m * r = (m - j * t) * n
        BY <2>2, <2>3, <2>4, <2>5, <2>6
    <2>8. r \in D
        BY <2>1, <2>7
    <2>9. k <= r
        BY <1>2, <2>8
    <2> QED BY <1>4, <1>5, <2>9
<1>7. n = k * t
    BY <1>4, <1>5, <1>6
<1>8. m = t * j
    <2>1. k * m = k * (t * j)
        <3>1. k * m = j * (k * t)
            BY <1>3, <1>4, <1>7
        <3> QED BY <1>4, <1>5, <3>1
    <2>2. t * j \in Int
        BY <1>5
    <2> QED BY <1>4, <2>1, <2>2, Cancels
<1>9. t \in Whole
    BY <1>4, <1>5, <1>7 DEF Whole
<1>10. Divides(t, m) /\ Divides(t, n)
    <2>1. n = t * k
        BY <1>4, <1>5, <1>7
    <2> QED BY <1>4, <1>8, <2>1 DEF Divides
<1>11. n = k
    <2>1. t = 1
        BY <1>9, <1>10
    <2> QED BY <1>4, <1>7, <2>1
<1>12. \A i \in D : n <= i
    BY <1>2, <1>11
<1> QED BY <1>12 DEF Reduced

\* Lowest divides both terms by the same number, and reduces them.
LEMMA LowestReduces ==
    ASSUME NEW p \in Int, NEW q \in Whole
    PROVE  /\ Lowest(p, q) = <<Lowest(p, q)[1], Lowest(p, q)[2]>>
           /\ Lowest(p, q)[1] \in Int /\ Lowest(p, q)[2] \in Whole
           /\ Lowest(p, q)[1] * q = p * Lowest(p, q)[2]
           /\ Reduced(Lowest(p, q)[1], Lowest(p, q)[2])
<1> DEFINE g == gcd[<<p, q>>]
<1>1. IsGcd(g, p, q)
    BY GcdFound
<1>2. PICK m \in Int : p = g * m
    BY <1>1 DEF IsGcd, Divides
<1>3. PICK n \in Int : q = g * n
    BY <1>1 DEF IsGcd, Divides
<1>4. Lowest(p, q) = <<p \div g, q \div g>>
    BY DEF Lowest
<1>5. g \in Whole /\ g \in Int /\ g > 0 /\ q \in Int /\ q > 0
    BY <1>1 DEF IsGcd, Whole
<1>6. p \div g = m /\ q \div g = n
    BY <1>2, <1>3, <1>5, QuotientOfProduct
<1> HIDE DEF g
<1>7. n \in Whole
    <2>1. n > 0
        BY <1>3, <1>5
    <2> QED BY <2>1 DEF Whole
<1>8. m * q = p * n
    BY <1>2, <1>3, <1>5
<1>9. ASSUME NEW t \in Whole, Divides(t, m), Divides(t, n) PROVE t = 1
    <2>1. PICK x \in Int : m = t * x
        BY <1>9 DEF Divides
    <2>2. PICK y \in Int : n = t * y
        BY <1>9 DEF Divides
    <2>3. t \in Int /\ t > 0 /\ g * t \in Int /\ g * t > 0
        BY <1>5 DEF Whole
    <2>4. p = (g * t) * x
        BY <1>2, <1>5, <2>1, <2>3
    <2>5. q = (g * t) * y
        BY <1>3, <1>5, <2>2, <2>3
    <2>6. Divides(g * t, p) /\ Divides(g * t, q) /\ g * t \in Whole
        BY <2>3, <2>4, <2>5 DEF Divides, Whole
    <2>7. g * t <= g
        BY <1>1, <2>6 DEF IsGcd
    <2>8. t >= 2 => g * t >= g * 2
        BY <1>5, <2>3
    <2> QED BY <1>5, <2>3, <2>7, <2>8
<1>10. Reduced(m, n)
    BY <1>7, <1>9, CoprimeIsReduced
<1> QED BY <1>4, <1>6, <1>7, <1>8, <1>10

\* Fractions of one value have the same lowest terms.
LEMMA SameLowest ==
    ASSUME NEW p \in Int, NEW q \in Whole, NEW r \in Int, NEW s \in Whole, p * s = r * q
    PROVE  Lowest(p, q) = Lowest(r, s)
<1> DEFINE u == Lowest(p, q)
           v == Lowest(r, s)
<1>1. /\ u = <<u[1], u[2]>> /\ u[1] \in Int /\ u[2] \in Whole
      /\ u[1] * q = p * u[2] /\ Reduced(u[1], u[2])
    BY LowestReduces
<1>2. /\ v = <<v[1], v[2]>> /\ v[1] \in Int /\ v[2] \in Whole
      /\ v[1] * s = r * v[2] /\ Reduced(v[1], v[2])
    BY LowestReduces
<1> DEFINE u1 == u[1]
           u2 == u[2]
           v1 == v[1]
           v2 == v[2]
<1>3. /\ u1 \in Int /\ u2 \in Int /\ u2 > 0 /\ v1 \in Int /\ v2 \in Int /\ v2 > 0
      /\ q \in Int /\ q > 0 /\ s \in Int /\ s > 0
      /\ u1 * q = p * u2 /\ v1 * s = r * v2
    BY <1>1, <1>2 DEF Whole
<1> HIDE DEF u, v, u1, u2, v1, v2
<1>4. u1 * v2 = v1 * u2
    <2>1. (q * s) * (u1 * v2) = (u1 * q) * (s * v2)
        BY <1>3
    <2>2. (p * u2) * (s * v2) = (p * s) * (u2 * v2)
        BY <1>3
    <2>3. (r * q) * (u2 * v2) = (r * v2) * (q * u2)
        BY <1>3
    <2>4. (v1 * s) * (q * u2) = (q * s) * (v1 * u2)
        BY <1>3
    <2>5. (q * s) * (u1 * v2) = (q * s) * (v1 * u2)
        BY <1>3, <2>1, <2>2, <2>3, <2>4
    <2>6. u1 * v2 \in Int /\ v1 * u2 \in Int /\ q * s \in Int /\ q * s # 0
        BY <1>3
    <2> QED BY <2>5, <2>6, Cancels
<1>5. u2 <= v2 /\ v2 <= u2
    <2>1. u2 <= v2
        BY <1>1, <1>2, <1>4 DEF Reduced, u1, u2, v1, v2
    <2>2. v2 <= u2
        BY <1>1, <1>2, <1>4 DEF Reduced, u1, u2, v1, v2
    <2> QED BY <2>1, <2>2
<1>6. u2 = v2
    BY <1>3, <1>5
<1>7. u1 = v1
    <2>1. u2 * u1 = u2 * v1
        BY <1>3, <1>4, <1>6
    <2> QED BY <1>3, <2>1, Cancels
<1> QED BY <1>1, <1>2, <1>6, <1>7 DEF u, v, u1, u2, v1, v2

\* A fraction is in lowest terms after Lowest, and equal to the one it is of.
LEMMA LowestIsRational ==
    ASSUME NEW p \in Int, NEW q \in Whole
    PROVE  /\ Lowest(p, q) \in Rational
           /\ Lowest(p, q)[1] * q = p * Lowest(p, q)[2]
           /\ Lowest(p, q)[1] \in Int /\ Lowest(p, q)[2] \in Whole
<1> DEFINE u == Lowest(p, q)
<1>1. /\ u = <<u[1], u[2]>> /\ u[1] \in Int /\ u[2] \in Whole
      /\ u[1] * q = p * u[2]
    BY LowestReduces
<1>2. Lowest(u[1], u[2]) = u
    BY <1>1, SameLowest
<1>3. u \in Int \X (Nat \ {0})
    BY <1>1 DEF Whole
<1> QED BY <1>1, <1>2, <1>3 DEF Rational

\* The terms of a fraction.
LEMMA Terms ==
    ASSUME NEW a \in Rational
    PROVE  /\ a[1] \in Int /\ a[2] \in Whole /\ a[2] \in Int /\ a[2] > 0
           /\ a = <<a[1], a[2]>> /\ Lowest(a[1], a[2]) = a
BY DEF Rational, Whole

\* Equal fractions are cross products apart, and only they.
LEMMA LowestEqual ==
    ASSUME NEW p \in Int, NEW q \in Whole, NEW r \in Int, NEW s \in Whole
    PROVE  Lowest(p, q) = Lowest(r, s) <=> p * s = r * q
<1>1. ASSUME Lowest(p, q) = Lowest(r, s) PROVE p * s = r * q
    <2> DEFINE u1 == Lowest(p, q)[1]
               u2 == Lowest(p, q)[2]
    <2>1. /\ u1 \in Int /\ u2 \in Int /\ u2 # 0 /\ q \in Int /\ s \in Int
          /\ u1 * q = p * u2 /\ u1 * s = r * u2
        BY <1>1, LowestIsRational DEF Whole
    <2> HIDE DEF u1, u2
    <2>2. (u1 * q) * s = (u1 * s) * q
        BY <2>1
    <2>3. (p * u2) * s = u2 * (p * s) /\ (r * u2) * q = u2 * (r * q)
        BY <2>1
    <2>4. u2 * (p * s) = u2 * (r * q)
        BY <2>1, <2>2, <2>3
    <2>5. p * s \in Int /\ r * q \in Int
        BY <2>1
    <2> QED BY <2>1, <2>4, <2>5, Cancels
<1> QED BY <1>1, SameLowest

-----------------------------------------------------------------------------
(* The operations, on any terms *)

LEMMA WholeProduct ==
    ASSUME NEW q \in Whole, NEW s \in Whole
    PROVE  q * s \in Whole
BY DEF Whole

\* ++ adds over a common denominator.
LEMMA SumOfTerms ==
    ASSUME NEW p \in Int, NEW q \in Whole, NEW r \in Int, NEW s \in Whole
    PROVE  <<p, q>> ++ <<r, s>> = Lowest(p * s + r * q, q * s)
<1> DEFINE g == gcd[<<q, s>>]
<1>1. q \in Int /\ s \in Int /\ q > 0 /\ s > 0
    BY DEF Whole
<1>2. IsGcd(g, q, s)
    BY <1>1, GcdFound
<1>3. PICK x \in Int : q = g * x
    BY <1>2 DEF IsGcd, Divides
<1>4. PICK y \in Int : s = g * y
    BY <1>2 DEF IsGcd, Divides
<1>5. g \in Whole /\ g \in Int /\ g > 0
    BY <1>2 DEF IsGcd, Whole
<1>6. q \div g = x /\ s \div g = y
    BY <1>3, <1>4, <1>5, QuotientOfProduct
<1>7. <<p, q>> ++ <<r, s>> = Lowest(p * (s \div g) + r * (q \div g), q * (s \div g))
    BY DEF ++
<1> HIDE DEF g
<1>8. y > 0 /\ q * y \in Whole /\ p * y + r * x \in Int
    <2>1. y > 0
        BY <1>1, <1>4, <1>5
    <2> QED BY <1>1, <2>1 DEF Whole
<1>9. q * s \in Whole /\ p * s + r * q \in Int
    BY <1>1, WholeProduct
<1>10. (p * y + r * x) * (q * s) = (p * s + r * q) * (q * y)
    <2>1. (p * y + r * x) * ((g * x) * (g * y)) = (p * (g * y) + r * (g * x)) * ((g * x) * y)
        BY <1>5
    <2> QED BY <1>3, <1>4, <2>1
<1>11. Lowest(p * y + r * x, q * y) = Lowest(p * s + r * q, q * s)
    BY <1>8, <1>9, <1>10, SameLowest
<1> QED BY <1>6, <1>7, <1>11

\* ** multiplies numerators and denominators.
LEMMA ProductOfTerms ==
    ASSUME NEW p \in Int, NEW q \in Whole, NEW r \in Int, NEW s \in Whole
    PROVE  <<p, q>> ** <<r, s>> = Lowest(p * r, q * s)
<1> DEFINE x == Lowest(p, s)
           y == Lowest(r, q)
           x1 == x[1]
           x2 == x[2]
           y1 == y[1]
           y2 == y[2]
<1>1. <<p, q>> ** <<r, s>> = Lowest(x1 * y1, x2 * y2)
    BY DEF **
<1>2. /\ x1 \in Int /\ x2 \in Whole /\ y1 \in Int /\ y2 \in Whole
      /\ x1 * s = p * x2 /\ y1 * q = r * y2
    BY LowestIsRational
<1> HIDE DEF x, y, x1, x2, y1, y2
<1>3. /\ q \in Int /\ s \in Int /\ x2 \in Int /\ y2 \in Int
      /\ x1 * y1 \in Int /\ x2 * y2 \in Whole /\ p * r \in Int /\ q * s \in Whole
    BY <1>2, WholeProduct DEF Whole
<1>4. (x1 * y1) * (q * s) = (x1 * s) * (y1 * q)
    BY <1>2, <1>3
<1>5. (p * x2) * (r * y2) = (p * r) * (x2 * y2)
    BY <1>2, <1>3
<1>6. (x1 * y1) * (q * s) = (p * r) * (x2 * y2)
    BY <1>2, <1>4, <1>5
<1>7. Lowest(x1 * y1, x2 * y2) = Lowest(p * r, q * s)
    BY <1>3, <1>6, SameLowest
<1> QED BY <1>1, <1>7

\* What ++ and ** make of fractions given by any terms.
LEMMA LowestSum ==
    ASSUME NEW p \in Int, NEW q \in Whole, NEW r \in Int, NEW s \in Whole
    PROVE  Lowest(p, q) ++ Lowest(r, s) = Lowest(p * s + r * q, q * s)
<1> DEFINE u == Lowest(p, q)
           v == Lowest(r, s)
           u1 == u[1]
           u2 == u[2]
           v1 == v[1]
           v2 == v[2]
<1>1. /\ u1 \in Int /\ u2 \in Whole /\ v1 \in Int /\ v2 \in Whole
      /\ u1 * q = p * u2 /\ v1 * s = r * v2
      /\ u = <<u1, u2>> /\ v = <<v1, v2>>
    BY LowestReduces
<1> HIDE DEF u1, u2, v1, v2
<1>2. u ++ v = Lowest(u1 * v2 + v1 * u2, u2 * v2)
    BY <1>1, SumOfTerms
<1>3. /\ q \in Int /\ s \in Int /\ u2 \in Int /\ v2 \in Int
      /\ u1 * v2 + v1 * u2 \in Int /\ u2 * v2 \in Whole
      /\ p * s + r * q \in Int /\ q * s \in Whole
    BY <1>1, WholeProduct DEF Whole
<1>4. (u1 * v2 + v1 * u2) * (q * s) = (p * s + r * q) * (u2 * v2)
    <2>1. (u1 * v2 + v1 * u2) * (q * s) = (u1 * q) * (v2 * s) + (v1 * s) * (u2 * q)
        BY <1>1, <1>3
    <2>2. (p * s + r * q) * (u2 * v2) = (p * u2) * (v2 * s) + (r * v2) * (u2 * q)
        BY <1>1, <1>3
    <2> QED BY <1>1, <2>1, <2>2
<1> HIDE DEF u, v
<1>5. Lowest(u1 * v2 + v1 * u2, u2 * v2) = Lowest(p * s + r * q, q * s)
    BY <1>3, <1>4, SameLowest
<1> QED BY <1>2, <1>5 DEF u, v

LEMMA LowestProduct ==
    ASSUME NEW p \in Int, NEW q \in Whole, NEW r \in Int, NEW s \in Whole
    PROVE  Lowest(p, q) ** Lowest(r, s) = Lowest(p * r, q * s)
<1> DEFINE u == Lowest(p, q)
           v == Lowest(r, s)
           u1 == u[1]
           u2 == u[2]
           v1 == v[1]
           v2 == v[2]
<1>1. /\ u1 \in Int /\ u2 \in Whole /\ v1 \in Int /\ v2 \in Whole
      /\ u1 * q = p * u2 /\ v1 * s = r * v2
      /\ u = <<u1, u2>> /\ v = <<v1, v2>>
    BY LowestReduces
<1> HIDE DEF u1, u2, v1, v2
<1>2. u ** v = Lowest(u1 * v1, u2 * v2)
    BY <1>1, ProductOfTerms
<1>3. /\ q \in Int /\ s \in Int /\ u2 \in Int /\ v2 \in Int
      /\ u1 * v1 \in Int /\ u2 * v2 \in Whole /\ p * r \in Int /\ q * s \in Whole
    BY <1>1, WholeProduct DEF Whole
<1>4. (u1 * v1) * (q * s) = (p * r) * (u2 * v2)
    <2>1. (u1 * v1) * (q * s) = (u1 * q) * (v1 * s)
        BY <1>1, <1>3
    <2>2. (p * r) * (u2 * v2) = (p * u2) * (r * v2)
        BY <1>1, <1>3
    <2> QED BY <1>1, <2>1, <2>2
<1> HIDE DEF u, v
<1>5. Lowest(u1 * v1, u2 * v2) = Lowest(p * r, q * s)
    BY <1>3, <1>4, SameLowest
<1> QED BY <1>2, <1>5 DEF u, v

-----------------------------------------------------------------------------
(* The laws of a field *)

LEMMA Constants == Zero \in Rational /\ One \in Rational /\ Zero # One
                   /\ Zero = <<0, 1>> /\ One = <<1, 1>>
                   /\ Zero = Lowest(0, 1) /\ One = Lowest(1, 1)
<1>1. Zero = <<0, 1>> /\ One = <<1, 1>>
    BY DEF Zero, One, R
<1>2. 1 \in Whole
    BY DEF Whole
<1>3. ASSUME NEW n \in Int PROVE Lowest(n, 1) = <<n, 1>>
    <2> DEFINE u == Lowest(n, 1)
    <2>1. /\ u = <<u[1], u[2]>> /\ u[1] \in Int /\ u[2] \in Whole
          /\ u[1] * 1 = n * u[2] /\ Reduced(u[1], u[2])
        BY <1>2, LowestReduces
    <2> DEFINE u1 == u[1]
               u2 == u[2]
    <2>2. u1 * 1 = n * u2 /\ u1 \in Int /\ u2 \in Int /\ u2 > 0 /\ u = <<u1, u2>>
        BY <2>1 DEF Whole
    <2>3. u2 <= 1
        BY <1>2, <2>1 DEF Reduced
    <2> HIDE DEF u, u1, u2
    <2>4. u2 = 1 /\ u1 = n
        BY <2>2, <2>3
    <2> QED BY <2>2, <2>4 DEF u
<1>4. Lowest(0, 1) = <<0, 1>> /\ Lowest(1, 1) = <<1, 1>>
    BY <1>3
<1> QED BY <1>1, <1>2, <1>4, LowestIsRational

LEMMA SumType ==
    ASSUME NEW a \in Rational, NEW b \in Rational
    PROVE  a ++ b \in Rational /\ a ++ b = Lowest(a[1] * b[2] + b[1] * a[2], a[2] * b[2])
<1>1. /\ a[1] \in Int /\ a[2] \in Whole /\ b[1] \in Int /\ b[2] \in Whole
      /\ a[2] \in Int /\ b[2] \in Int /\ a = <<a[1], a[2]>> /\ b = <<b[1], b[2]>>
    BY Terms
<1>2. a[1] * b[2] + b[1] * a[2] \in Int /\ a[2] * b[2] \in Whole
    BY <1>1, WholeProduct
<1>3. <<a[1], a[2]>> ++ <<b[1], b[2]>> = Lowest(a[1] * b[2] + b[1] * a[2], a[2] * b[2])
    BY <1>1, SumOfTerms
<1> QED BY <1>1, <1>2, <1>3, LowestIsRational

LEMMA ProductType ==
    ASSUME NEW a \in Rational, NEW b \in Rational
    PROVE  a ** b \in Rational /\ a ** b = Lowest(a[1] * b[1], a[2] * b[2])
<1>1. /\ a[1] \in Int /\ a[2] \in Whole /\ b[1] \in Int /\ b[2] \in Whole
      /\ a = <<a[1], a[2]>> /\ b = <<b[1], b[2]>>
    BY Terms
<1>2. a[1] * b[1] \in Int /\ a[2] * b[2] \in Whole
    BY <1>1, WholeProduct
<1>3. <<a[1], a[2]>> ** <<b[1], b[2]>> = Lowest(a[1] * b[1], a[2] * b[2])
    BY <1>1, ProductOfTerms
<1> QED BY <1>1, <1>2, <1>3, LowestIsRational

LEMMA SumCommutes ==
    ASSUME NEW a \in Rational, NEW b \in Rational
    PROVE  a ++ b = b ++ a
<1>1. /\ a[1] \in Int /\ a[2] \in Int /\ b[1] \in Int /\ b[2] \in Int
    BY Terms
<1>2. /\ a[1] * b[2] + b[1] * a[2] = b[1] * a[2] + a[1] * b[2]
      /\ a[2] * b[2] = b[2] * a[2]
    BY <1>1
<1> QED BY <1>2, SumType

LEMMA ProductCommutes ==
    ASSUME NEW a \in Rational, NEW b \in Rational
    PROVE  a ** b = b ** a
<1>1. /\ a[1] \in Int /\ a[2] \in Int /\ b[1] \in Int /\ b[2] \in Int
    BY Terms
<1>2. a[1] * b[1] = b[1] * a[1] /\ a[2] * b[2] = b[2] * a[2]
    BY <1>1
<1> QED BY <1>2, ProductType

LEMMA SumAssociates ==
    ASSUME NEW a \in Rational, NEW b \in Rational, NEW c \in Rational
    PROVE  (a ++ b) ++ c = a ++ (b ++ c)
<1> DEFINE a1 == a[1]  a2 == a[2]  b1 == b[1]  b2 == b[2]  c1 == c[1]  c2 == c[2]
<1>1. /\ a1 \in Int /\ a2 \in Whole /\ a2 \in Int /\ b1 \in Int /\ b2 \in Whole /\ b2 \in Int
      /\ c1 \in Int /\ c2 \in Whole /\ c2 \in Int
      /\ Lowest(a1, a2) = a /\ Lowest(b1, b2) = b /\ Lowest(c1, c2) = c
    BY Terms
<1>2. a ++ b = Lowest(a1 * b2 + b1 * a2, a2 * b2) /\ b ++ c = Lowest(b1 * c2 + c1 * b2, b2 * c2)
    BY SumType
<1> HIDE DEF a1, a2, b1, b2, c1, c2
<1>3. /\ a1 * b2 + b1 * a2 \in Int /\ a2 * b2 \in Whole
      /\ b1 * c2 + c1 * b2 \in Int /\ b2 * c2 \in Whole
    BY <1>1, WholeProduct
<1>4. (a ++ b) ++ c = Lowest((a1 * b2 + b1 * a2) * c2 + c1 * (a2 * b2), (a2 * b2) * c2)
    BY <1>1, <1>2, <1>3, LowestSum
<1>5. a ++ (b ++ c) = Lowest(a1 * (b2 * c2) + (b1 * c2 + c1 * b2) * a2, a2 * (b2 * c2))
    BY <1>1, <1>2, <1>3, LowestSum
<1>6. /\ (a1 * b2 + b1 * a2) * c2 + c1 * (a2 * b2) = a1 * (b2 * c2) + (b1 * c2 + c1 * b2) * a2
      /\ (a2 * b2) * c2 = a2 * (b2 * c2)
    BY <1>1
<1> QED BY <1>4, <1>5, <1>6

LEMMA ProductAssociates ==
    ASSUME NEW a \in Rational, NEW b \in Rational, NEW c \in Rational
    PROVE  (a ** b) ** c = a ** (b ** c)
<1> DEFINE a1 == a[1]  a2 == a[2]  b1 == b[1]  b2 == b[2]  c1 == c[1]  c2 == c[2]
<1>1. /\ a1 \in Int /\ a2 \in Whole /\ a2 \in Int /\ b1 \in Int /\ b2 \in Whole /\ b2 \in Int
      /\ c1 \in Int /\ c2 \in Whole /\ c2 \in Int
      /\ Lowest(a1, a2) = a /\ Lowest(b1, b2) = b /\ Lowest(c1, c2) = c
    BY Terms
<1>2. a ** b = Lowest(a1 * b1, a2 * b2) /\ b ** c = Lowest(b1 * c1, b2 * c2)
    BY ProductType
<1> HIDE DEF a1, a2, b1, b2, c1, c2
<1>3. a1 * b1 \in Int /\ a2 * b2 \in Whole /\ b1 * c1 \in Int /\ b2 * c2 \in Whole
    BY <1>1, WholeProduct
<1>4. (a ** b) ** c = Lowest((a1 * b1) * c1, (a2 * b2) * c2)
    BY <1>1, <1>2, <1>3, LowestProduct
<1>5. a ** (b ** c) = Lowest(a1 * (b1 * c1), a2 * (b2 * c2))
    BY <1>1, <1>2, <1>3, LowestProduct
<1>6. (a1 * b1) * c1 = a1 * (b1 * c1) /\ (a2 * b2) * c2 = a2 * (b2 * c2)
    BY <1>1
<1> QED BY <1>4, <1>5, <1>6

LEMMA ProductDistributes ==
    ASSUME NEW a \in Rational, NEW b \in Rational, NEW c \in Rational
    PROVE  a ** (b ++ c) = (a ** b) ++ (a ** c)
<1> DEFINE a1 == a[1]  a2 == a[2]  b1 == b[1]  b2 == b[2]  c1 == c[1]  c2 == c[2]
<1>1. /\ a1 \in Int /\ a2 \in Whole /\ a2 \in Int /\ b1 \in Int /\ b2 \in Whole /\ b2 \in Int
      /\ c1 \in Int /\ c2 \in Whole /\ c2 \in Int
      /\ Lowest(a1, a2) = a /\ Lowest(b1, b2) = b /\ Lowest(c1, c2) = c
    BY Terms
<1>2. /\ a ** b = Lowest(a1 * b1, a2 * b2) /\ a ** c = Lowest(a1 * c1, a2 * c2)
      /\ b ++ c = Lowest(b1 * c2 + c1 * b2, b2 * c2)
    BY ProductType, SumType
<1> HIDE DEF a1, a2, b1, b2, c1, c2
<1> DEFINE p == a1 * (b1 * c2 + c1 * b2)
           q == a2 * (b2 * c2)
           r == (a1 * b1) * (a2 * c2) + (a1 * c1) * (a2 * b2)
           s == (a2 * b2) * (a2 * c2)
<1>3. /\ a1 * b1 \in Int /\ a2 * b2 \in Whole /\ a1 * c1 \in Int /\ a2 * c2 \in Whole
      /\ b1 * c2 + c1 * b2 \in Int /\ b2 * c2 \in Whole
    BY <1>1, WholeProduct
<1>4. a ** (b ++ c) = Lowest(p, q)
    BY <1>1, <1>2, <1>3, LowestProduct
<1>5. (a ** b) ++ (a ** c) = Lowest(r, s)
    BY <1>2, <1>3, LowestSum
<1>6. p \in Int /\ q \in Whole /\ r \in Int /\ s \in Whole
    <2>1. a2 * b2 \in Int /\ a2 * c2 \in Int
        BY <1>1
    <2> QED BY <1>1, <1>3, <2>1, WholeProduct
<1>7. p * s = r * q
    <2>1. p * s = (a2 * (b2 * c2)) * (a2 * (a1 * (b1 * c2) + a1 * (c1 * b2)))
        BY <1>1
    <2>2. r * q = (a2 * (b2 * c2)) * (a2 * (a1 * (b1 * c2) + a1 * (c1 * b2)))
        BY <1>1
    <2> QED BY <2>1, <2>2
<1> HIDE DEF p, q, r, s
<1> QED BY <1>4, <1>5, <1>6, <1>7, SameLowest

\* Zero and One are neutral, and Zero absorbs.
LEMMA Neutral ==
    ASSUME NEW a \in Rational
    PROVE  /\ a ++ Zero = a /\ Zero ++ a = a /\ a ** One = a /\ One ** a = a
           /\ a ** Zero = Zero /\ Zero ** a = Zero
<1> DEFINE a1 == a[1]  a2 == a[2]
<1>1. a1 \in Int /\ a2 \in Whole /\ a2 \in Int /\ Lowest(a1, a2) = a
    BY Terms
<1> HIDE DEF a1, a2
<1>2. 0 \in Int /\ 1 \in Whole /\ 1 \in Int
    BY DEF Whole
<1>3. a ++ Zero = Lowest(a1 * 1 + 0 * a2, a2 * 1)
    <2>1. Lowest(a1, a2) ++ Lowest(0, 1) = Lowest(a1 * 1 + 0 * a2, a2 * 1)
        BY <1>1, <1>2, LowestSum, Zenon
    <2> QED BY <1>1, <2>1, Constants, Zenon
<1>4. a ** One = Lowest(a1 * 1, a2 * 1) /\ a ** Zero = Lowest(a1 * 0, a2 * 1)
    <2>1. /\ Lowest(a1, a2) ** Lowest(1, 1) = Lowest(a1 * 1, a2 * 1)
          /\ Lowest(a1, a2) ** Lowest(0, 1) = Lowest(a1 * 0, a2 * 1)
        BY <1>1, <1>2, LowestProduct, Zenon
    <2> QED BY <1>1, <2>1, Constants, Zenon
<1>5. a1 * 1 + 0 * a2 = a1 /\ a2 * 1 = a2 /\ a1 * 1 = a1 /\ a1 * 0 = 0
    BY <1>1
<1>6. Lowest(0, a2) = Lowest(0, 1)
    BY <1>1, <1>2, SameLowest
<1>7. a ++ Zero = a /\ a ** One = a /\ a ** Zero = Zero
    BY <1>1, <1>3, <1>4, <1>5, <1>6, Constants
<1> QED BY <1>7, Constants, SumCommutes, ProductCommutes

\* What is taken away can be put back, and nothing else was taken.
LEMMA Difference ==
    ASSUME NEW a \in Rational, NEW b \in Rational
    PROVE  a -- b \in Rational /\ (a -- b) ++ b = a
<1> DEFINE a1 == a[1]  a2 == a[2]  b1 == b[1]  b2 == b[2]
<1>1. /\ a1 \in Int /\ a2 \in Whole /\ a2 \in Int /\ b1 \in Int /\ b2 \in Whole /\ b2 \in Int
      /\ a = <<a1, a2>> /\ Lowest(a1, a2) = a /\ Lowest(b1, b2) = b
    BY Terms
<1>2. a -- b = <<a1, a2>> ++ <<-b1, b2>>
    BY <1>1 DEF --
<1> HIDE DEF a1, a2, b1, b2
<1>3. -b1 \in Int /\ a2 * b2 \in Whole /\ a1 * b2 + (-b1) * a2 \in Int
    BY <1>1, WholeProduct
<1>4. a -- b = Lowest(a1 * b2 + (-b1) * a2, a2 * b2)
    BY <1>1, <1>2, <1>3, SumOfTerms
<1> DEFINE p == (a1 * b2 + (-b1) * a2) * b2 + b1 * (a2 * b2)
           q == (a2 * b2) * b2
<1>5. (a -- b) ++ b = Lowest(p, q)
    BY <1>1, <1>3, <1>4, LowestSum
<1>6. p \in Int /\ q \in Whole /\ p * a2 = a1 * q
    <2>1. p * a2 = ((a1 * b2 - b1 * a2) * b2 + b1 * (a2 * b2)) * a2
        BY <1>1
    <2>2. ((a1 * b2 - b1 * a2) * b2 + b1 * (a2 * b2)) * a2 = a1 * ((a2 * b2) * b2)
        BY <1>1
    <2>3. a2 * b2 \in Int
        BY <1>1
    <2> QED BY <1>1, <1>3, <2>1, <2>2, <2>3, WholeProduct
<1> HIDE DEF p, q
<1>7. Lowest(p, q) = Lowest(a1, a2)
    BY <1>1, <1>6, SameLowest
<1> QED BY <1>1, <1>3, <1>4, <1>5, <1>7, LowestIsRational

LEMMA SumCancels ==
    ASSUME NEW a \in Rational, NEW b \in Rational, NEW c \in Rational, a ++ c = b ++ c
    PROVE  a = b
<1> DEFINE m == Zero -- c
<1>1. m \in Rational /\ m ++ c = Zero
    BY Constants, Difference
<1> HIDE DEF m
<1>2. c ++ m = Zero
    BY <1>1, SumCommutes
<1>3. (a ++ c) ++ m = a /\ (b ++ c) ++ m = b
    BY <1>1, <1>2, SumAssociates, Neutral
<1> QED BY <1>3

\* A fraction times a divisor that is not zero, divided again, is itself.
LEMMA Quotient ==
    ASSUME NEW a \in Rational, NEW b \in Rational, b # Zero
    PROVE  a // b \in Rational /\ (a // b) ** b = a
<1> DEFINE a1 == a[1]  a2 == a[2]  b1 == b[1]  b2 == b[2]
<1>1. /\ a1 \in Int /\ a2 \in Whole /\ a2 \in Int /\ b1 \in Int /\ b2 \in Whole /\ b2 \in Int
      /\ b2 > 0 /\ a = <<a1, a2>> /\ b = <<b1, b2>> /\ Lowest(a1, a2) = a /\ Lowest(b1, b2) = b
    BY Terms
<1>2. a // b = <<a1, a2>> ** (IF b1 < 0 THEN <<-b2, -b1>> ELSE <<b2, b1>>)
    BY <1>1 DEF //
<1> HIDE DEF a1, a2, b1, b2
<1>3. b1 # 0
    <2> SUFFICES ASSUME b1 = 0 PROVE FALSE
        OBVIOUS
    <2>1. 0 \in Int /\ 1 \in Whole /\ b1 * 1 = 0 * b2
        BY <1>1 DEF Whole
    <2>2. Lowest(b1, b2) = Lowest(0, 1)
        BY <1>1, <2>1, SameLowest
    <2> QED BY <1>1, <2>2, Constants
<1>4. ASSUME NEW r \in Int, NEW s \in Whole, r * b1 = s * b2, a // b = <<a1, a2>> ** <<r, s>>
      PROVE  a // b \in Rational /\ (a // b) ** b = a
    <2> DEFINE p == a1 * r
               q == a2 * s
               u == p * b1
               v == q * b2
    <2>1. a // b = Lowest(p, q) /\ p \in Int /\ q \in Whole
        BY <1>1, <1>4, ProductOfTerms, WholeProduct
    <2>2. u * a2 = a1 * v
        <3>1. s \in Int
            BY DEF Whole
        <3>2. u * a2 = (a1 * a2) * (r * b1)
            BY <1>1
        <3>3. a1 * v = (a1 * a2) * (s * b2)
            BY <1>1, <3>1
        <3> QED BY <1>4, <3>2, <3>3
    <2> HIDE DEF p, q
    <2>3. u \in Int /\ v \in Whole
        BY <1>1, <2>1, WholeProduct
    <2>4. Lowest(p, q) ** Lowest(b1, b2) = Lowest(u, v)
        <3>1. p \in Int /\ q \in Whole /\ b1 \in Int /\ b2 \in Whole
            BY <1>1, <2>1
        <3>2. Lowest(p, q) ** Lowest(b1, b2) = Lowest(p * b1, q * b2)
            BY ONLY <3>1, LowestProduct, Zenon
        <3> QED BY <3>2
    <2> HIDE DEF u, v
    <2>5. Lowest(u, v) = Lowest(a1, a2)
        BY <1>1, <2>2, <2>3, SameLowest
    <2> QED BY <1>1, <2>1, <2>4, <2>5, LowestIsRational
<1>5. CASE b1 < 0
    <2>1. -b2 \in Int /\ -b1 \in Whole /\ (-b2) * b1 = (-b1) * b2
        BY <1>1, <1>5 DEF Whole
    <2> QED BY <1>2, <1>4, <1>5, <2>1
<1>6. CASE b1 > 0
    <2>1. b2 \in Int /\ b1 \in Whole /\ b2 * b1 = b1 * b2 /\ ~(b1 < 0)
        BY <1>1, <1>6 DEF Whole
    <2> QED BY <1>2, <1>4, <2>1
<1> QED BY <1>1, <1>3, <1>5, <1>6

LEMMA ProductCancels ==
    ASSUME NEW a \in Rational, NEW b \in Rational, NEW c \in Rational, c # Zero,
           a ** c = b ** c
    PROVE  a = b
<1> DEFINE i == One // c
<1>1. i \in Rational /\ i ** c = One
    BY Constants, Quotient
<1> HIDE DEF i
<1>2. c ** i = One
    BY <1>1, ProductCommutes
<1>3. (a ** c) ** i = a /\ (b ** c) ** i = b
    BY <1>1, <1>2, ProductAssociates, Neutral
<1> QED BY <1>3

-----------------------------------------------------------------------------
(* Order *)

\* \preceq and \prec compare cross products.
LEMMA Comparison ==
    ASSUME NEW a \in Rational, NEW b \in Rational
    PROVE  /\ a \preceq b <=> a[1] * b[2] <= b[1] * a[2]
           /\ a \prec b <=> a[1] * b[2] < b[1] * a[2]
<1> DEFINE a1 == a[1]  a2 == a[2]  b1 == b[1]  b2 == b[2]
           g == gcd[<<a2, b2>>]
           h == gcd[<<b2, a2>>]
<1>1. /\ a1 \in Int /\ a2 \in Whole /\ a2 \in Int /\ b1 \in Int /\ b2 \in Whole /\ b2 \in Int
      /\ a2 > 0 /\ b2 > 0
    BY Terms
<1> HIDE DEF a1, a2, b1, b2
<1>2. IsGcd(g, a2, b2) /\ IsGcd(h, b2, a2)
    BY <1>1, GcdFound
<1>3. g = h
    <2>1. IsGcd(h, a2, b2)
        BY <1>2 DEF IsGcd
    <2> QED BY <1>1, <1>2, <2>1, GcdUnique
<1>4. PICK m \in Int : a2 = g * m
    BY <1>2 DEF IsGcd, Divides
<1>5. PICK k \in Int : b2 = g * k
    BY <1>2 DEF IsGcd, Divides
<1>6. g \in Whole /\ g \in Int /\ g > 0
    BY <1>2 DEF IsGcd, Whole
<1> HIDE DEF g, h
<1>7. a2 \div g = m /\ b2 \div g = k
    BY <1>4, <1>5, <1>6, QuotientOfProduct
<1>8. Widened(a, b) = a1 * k /\ Widened(b, a) = b1 * m
    <2>1. Widened(a, b) = a1 * (b2 \div g) /\ Widened(b, a) = b1 * (a2 \div h)
        BY DEF Widened, a1, a2, b1, b2, g, h
    <2> QED BY <1>3, <1>7, <2>1
<1> DEFINE x == a1 * k
           y == b1 * m
<1>9. x \in Int /\ y \in Int /\ a1 * b2 = g * x /\ b1 * a2 = g * y
    BY <1>1, <1>4, <1>5, <1>6
<1> HIDE DEF x, y
<1>10. (g * x <= g * y <=> x <= y) /\ (g * x < g * y <=> x < y)
    BY <1>6, <1>9
<1>11. (a \preceq b <=> x <= y) /\ (a \prec b <=> x < y)
    BY <1>8 DEF \preceq, \prec, x, y
<1> QED BY <1>9, <1>10, <1>11 DEF a1, a2, b1, b2

\* Fractions given by any terms compare by their cross products.
LEMMA LowestOrder ==
    ASSUME NEW p \in Int, NEW q \in Whole, NEW r \in Int, NEW s \in Whole
    PROVE  Lowest(p, q) \preceq Lowest(r, s) <=> p * s <= r * q
<1> DEFINE u == Lowest(p, q)
           v == Lowest(r, s)
           u1 == u[1]  u2 == u[2]  v1 == v[1]  v2 == v[2]
<1>1. /\ u1 \in Int /\ u2 \in Int /\ u2 > 0 /\ v1 \in Int /\ v2 \in Int /\ v2 > 0
      /\ u1 * q = p * u2 /\ v1 * s = r * v2 /\ u \in Rational /\ v \in Rational
      /\ q \in Int /\ q > 0 /\ s \in Int /\ s > 0
    BY LowestReduces, LowestIsRational DEF Whole
<1>2. u \preceq v <=> u1 * v2 <= v1 * u2
    BY <1>1, Comparison
<1> HIDE DEF u, v, u1, u2, v1, v2
<1> DEFINE x == u1 * v2
           y == v1 * u2
           e == p * s
           f == r * q
           c == q * s
           d == u2 * v2
<1>3. /\ x \in Int /\ y \in Int /\ e \in Int /\ f \in Int /\ c \in Int /\ d \in Int
      /\ c > 0 /\ d > 0
    BY <1>1
<1>4. x * c = e * d /\ y * c = f * d
    <2>1. x * c = (u1 * q) * (v2 * s) /\ y * c = (v1 * s) * (u2 * q)
        BY <1>1
    <2>2. e * d = (p * u2) * (v2 * s) /\ f * d = (r * v2) * (u2 * q)
        BY <1>1
    <2> QED BY <1>1, <2>1, <2>2
<1> HIDE DEF x, y, e, f, c, d
<1>5. x <= y <=> x * c <= y * c
    BY <1>3
<1>6. e <= f <=> e * d <= f * d
    BY <1>3
<1> QED BY <1>2, <1>4, <1>5, <1>6 DEF x, y, e, f, u, v

\* The order is total.
LEMMA Ordered ==
    ASSUME NEW a \in Rational, NEW b \in Rational
    PROVE  /\ a \preceq a
           /\ a \preceq b \/ b \preceq a
           /\ a \prec b <=> ~(b \preceq a)
           /\ a \preceq b /\ b \preceq a => a = b
<1>1. /\ a[1] \in Int /\ a[2] \in Whole /\ a[2] \in Int /\ a[2] > 0
      /\ b[1] \in Int /\ b[2] \in Whole /\ b[2] \in Int /\ b[2] > 0
      /\ Lowest(a[1], a[2]) = a /\ Lowest(b[1], b[2]) = b
    BY Terms
<1>2. a \preceq a
    BY <1>1, Comparison
<1>3. a \preceq b \/ b \preceq a
    BY <1>1, Comparison
<1>4. a \prec b <=> ~(b \preceq a)
    BY <1>1, Comparison
<1>5. ASSUME a \preceq b, b \preceq a PROVE a = b
    <2>1. a[1] * b[2] = b[1] * a[2]
        BY <1>1, <1>5, Comparison
    <2> QED BY <1>1, <2>1, SameLowest
<1> QED BY <1>2, <1>3, <1>4, <1>5

LEMMA OrderedSteps ==
    ASSUME NEW a \in Rational, NEW b \in Rational, NEW c \in Rational,
           a \preceq b, b \preceq c
    PROVE  a \preceq c
<1> DEFINE a1 == a[1]  a2 == a[2]  b1 == b[1]  b2 == b[2]  c1 == c[1]  c2 == c[2]
<1>1. /\ a1 \in Int /\ a2 \in Int /\ a2 > 0 /\ b1 \in Int /\ b2 \in Int /\ b2 > 0
      /\ c1 \in Int /\ c2 \in Int /\ c2 > 0
    BY Terms
<1>2. a1 * b2 <= b1 * a2 /\ b1 * c2 <= c1 * b2 /\ (a \preceq c <=> a1 * c2 <= c1 * a2)
    BY Comparison
<1> HIDE DEF a1, a2, b1, b2, c1, c2
<1>3. (a1 * b2) * c2 <= (b1 * a2) * c2 /\ (b1 * c2) * a2 <= (c1 * b2) * a2
    <2>1. a1 * b2 \in Int /\ b1 * a2 \in Int /\ b1 * c2 \in Int /\ c1 * b2 \in Int
        BY <1>1
    <2>2. \A x, y, z \in Int : x <= y /\ z > 0 => x * z <= y * z
        OBVIOUS
    <2> QED BY <1>1, <1>2, <2>1, <2>2
<1>4. b2 * (a1 * c2) <= b2 * (c1 * a2)
    <2>1. b2 * (a1 * c2) = (a1 * b2) * c2 /\ b2 * (c1 * a2) = (c1 * b2) * a2
          /\ (b1 * a2) * c2 = (b1 * c2) * a2
        BY <1>1
    <2>2. \A x, y, z, w \in Int : x <= y /\ z <= w /\ y = z => x <= w
        OBVIOUS
    <2> QED BY <1>1, <1>3, <2>1, <2>2
<1>5. a1 * c2 \in Int /\ c1 * a2 \in Int
    BY <1>1
<1>6. \A x, y, z \in Int : z > 0 /\ z * x <= z * y => x <= y
    OBVIOUS
<1> QED BY <1>1, <1>2, <1>4, <1>5, <1>6

LEMMA SumOrder ==
    ASSUME NEW a \in Rational, NEW b \in Rational, NEW c \in Rational
    PROVE  a \preceq b <=> a ++ c \preceq b ++ c
<1> DEFINE a1 == a[1]  a2 == a[2]  b1 == b[1]  b2 == b[2]  c1 == c[1]  c2 == c[2]
<1>1. /\ a1 \in Int /\ a2 \in Whole /\ a2 \in Int /\ b1 \in Int /\ b2 \in Whole /\ b2 \in Int
      /\ c1 \in Int /\ c2 \in Whole /\ c2 \in Int /\ c2 > 0
    BY Terms
<1>2. a ++ c = Lowest(a1 * c2 + c1 * a2, a2 * c2) /\ b ++ c = Lowest(b1 * c2 + c1 * b2, b2 * c2)
    BY SumType
<1>3. a \preceq b <=> a1 * b2 <= b1 * a2
    BY Comparison
<1> HIDE DEF a1, a2, b1, b2, c1, c2
<1> DEFINE p == a1 * c2 + c1 * a2
           q == a2 * c2
           r == b1 * c2 + c1 * b2
           s == b2 * c2
           x == a1 * b2
           y == b1 * a2
           z == c2 * c2
           k == (c1 * c2) * (a2 * b2)
<1>4. p \in Int /\ q \in Whole /\ r \in Int /\ s \in Whole
    BY <1>1, WholeProduct
<1>5. x \in Int /\ y \in Int /\ z \in Int /\ z > 0 /\ k \in Int
    BY <1>1
<1>6. p * s = z * x + k /\ r * q = z * y + k
    BY <1>1
<1> HIDE DEF p, q, r, s, x, y, z, k
<1>7. Lowest(p, q) \preceq Lowest(r, s) <=> p * s <= r * q
    BY <1>4, LowestOrder
<1>8. x <= y <=> z * x <= z * y
    BY <1>5
<1>9. z * x \in Int /\ z * y \in Int
    BY <1>5
<1>10. x <= y <=> p * s <= r * q
    BY <1>5, <1>6, <1>8, <1>9
<1> QED BY <1>2, <1>3, <1>7, <1>10 DEF p, q, r, s, x, y

LEMMA ProductOrder ==
    ASSUME NEW a \in Rational, NEW b \in Rational, NEW c \in Rational,
           a \preceq b, Zero \preceq c
    PROVE  a ** c \preceq b ** c
<1> DEFINE a1 == a[1]  a2 == a[2]  b1 == b[1]  b2 == b[2]  c1 == c[1]  c2 == c[2]
<1>1. /\ a1 \in Int /\ a2 \in Whole /\ a2 \in Int /\ b1 \in Int /\ b2 \in Whole /\ b2 \in Int
      /\ c1 \in Int /\ c2 \in Whole /\ c2 \in Int /\ c2 > 0
    BY Terms
<1>2. a ** c = Lowest(a1 * c1, a2 * c2) /\ b ** c = Lowest(b1 * c1, b2 * c2)
    BY ProductType
<1>3. a1 * b2 <= b1 * a2
    BY Comparison
<1>4. c1 >= 0
    <2>1. Zero[1] * c[2] <= c[1] * Zero[2]
        BY Comparison, Constants
    <2>2. Zero[1] = 0 /\ Zero[2] = 1
        BY Constants
    <2> QED BY <1>1, <2>1, <2>2
<1> HIDE DEF a1, a2, b1, b2, c1, c2
<1> DEFINE p == a1 * c1
           q == a2 * c2
           r == b1 * c1
           s == b2 * c2
           x == a1 * b2
           y == b1 * a2
           z == c1 * c2
<1>5. p \in Int /\ q \in Whole /\ r \in Int /\ s \in Whole
    BY <1>1, WholeProduct
<1>6. x \in Int /\ y \in Int /\ z \in Int /\ z >= 0
    BY <1>1, <1>4
<1>7. p * s = z * x /\ r * q = z * y
    BY <1>1
<1> HIDE DEF p, q, r, s, z
<1>8. Lowest(p, q) \preceq Lowest(r, s) <=> p * s <= r * q
    BY <1>5, LowestOrder
<1>9. x <= y
    BY <1>3
<1> HIDE DEF x, y
<1>10. z * x <= z * y
    BY <1>6, <1>9
<1> QED BY <1>2, <1>7, <1>8, <1>10 DEF p, q, r, s

\* The numerator has the sign.
LEMMA Signs ==
    ASSUME NEW a \in Rational
    PROVE  /\ a[1] \in Int
           /\ Positive(a) <=> ~(a \preceq Zero)
           /\ Zero \preceq a <=> a[1] >= 0
           /\ a = Zero <=> a[1] = 0
<1>1. a[1] \in Int /\ a[2] \in Whole /\ a[2] \in Int /\ a[2] > 0 /\ Lowest(a[1], a[2]) = a
    BY Terms
<1>2. Zero \in Rational /\ Zero[1] = 0 /\ Zero[2] = 1 /\ Lowest(0, 1) = Zero
    BY Constants
<1>3. (a \preceq Zero <=> a[1] <= 0) /\ (Zero \preceq a <=> a[1] >= 0)
    <2>1. a \preceq Zero <=> a[1] * 1 <= 0 * a[2]
        BY <1>2, Comparison
    <2>2. Zero \preceq a <=> 0 * a[2] <= a[1] * 1
        BY <1>2, Comparison
    <2> QED BY <1>1, <2>1, <2>2
<1>4. Positive(a) <=> a[1] > 0
    BY DEF Positive
<1>5. a[1] = 0 => a = Zero
    <2> SUFFICES ASSUME a[1] = 0 PROVE a = Zero
        OBVIOUS
    <2>1. 0 \in Int /\ 1 \in Whole /\ 0 * 1 = 0 * a[2]
        BY <1>1 DEF Whole
    <2>2. Lowest(0, a[2]) = Lowest(0, 1)
        BY <1>1, <2>1, SameLowest
    <2> QED BY <1>1, <1>2, <2>2
<1> QED BY <1>1, <1>2, <1>3, <1>4, <1>5

LEMMA LowestSign ==
    ASSUME NEW p \in Int, NEW q \in Whole
    PROVE  /\ Lowest(p, q)[1] > 0 <=> p > 0
           /\ Lowest(p, q)[1] < 0 <=> p < 0
<1> DEFINE u1 == Lowest(p, q)[1]  u2 == Lowest(p, q)[2]
<1>1. u1 \in Int /\ u2 \in Int /\ u2 > 0 /\ q \in Int /\ q > 0 /\ u1 * q = p * u2
    BY LowestReduces DEF Whole
<1> HIDE DEF u1, u2
<1>2. (u1 * q > 0 <=> u1 > 0) /\ (u1 * q < 0 <=> u1 < 0)
    BY <1>1
<1>3. (p * u2 > 0 <=> p > 0) /\ (p * u2 < 0 <=> p < 0)
    BY <1>1
<1> QED BY <1>1, <1>2, <1>3 DEF u1

\* A positive factor keeps the sign.
LEMMA ProductSign ==
    ASSUME NEW a \in Rational, NEW b \in Rational, Positive(b)
    PROVE  /\ (a ** b)[1] > 0 <=> a[1] > 0
           /\ (a ** b)[1] < 0 <=> a[1] < 0
<1>1. a[1] \in Int /\ a[2] \in Whole /\ b[1] \in Int /\ b[2] \in Whole /\ b[1] > 0
    BY Terms DEF Positive
<1>2. a[1] * b[1] \in Int /\ a[2] * b[2] \in Whole
    BY <1>1, WholeProduct
<1>3. a ** b = Lowest(a[1] * b[1], a[2] * b[2])
    BY ProductType
<1>4. (a[1] * b[1] > 0 <=> a[1] > 0) /\ (a[1] * b[1] < 0 <=> a[1] < 0)
    BY <1>1
<1> QED BY <1>2, <1>3, <1>4, LowestSign

LEMMA PositiveProduct ==
    ASSUME NEW a \in Rational, NEW b \in Rational, Positive(a), Positive(b)
    PROVE  Positive(a ** b) /\ Positive(a // b) /\ a # Zero /\ a // b \in Rational
<1>1. Positive(a ** b)
    BY ProductSign DEF Positive
<1>2. a # Zero /\ b # Zero
    BY Signs, Constants DEF Positive
<1>3. a // b \in Rational /\ (a // b) ** b = a
    BY <1>2, Quotient
<1>4. Positive(a // b)
    BY <1>3, ProductSign DEF Positive
<1> QED BY <1>1, <1>2, <1>3, <1>4

-----------------------------------------------------------------------------
(* Powers *)

\* A step can be repeated from a start any number of times.
LEMMA Iteration ==
    ASSUME NEW S, NEW s \in S, NEW G \in [S -> S]
    PROVE  \E F \in [Nat -> S] : F[0] = s /\ \A k \in Nat \ {0} : F[k] = G[F[k - 1]]
<1> DEFINE Chain(g, n) == /\ g \in [0 .. n -> S] /\ g[0] = s
                          /\ \A k \in 1 .. n : g[k] = G[g[k - 1]]
           wrong == {n \in Nat : ~ \E g : Chain(g, n)}
<1>1. ASSUME NEW n \in Nat PROVE \E g : Chain(g, n)
    <2> SUFFICES ASSUME wrong # {} PROVE FALSE
        OBVIOUS
    <2>1. PICK m \in wrong : \A k \in wrong : m <= k
        BY LeastNumber
    <2>2. CASE m = 0
        <3> DEFINE g == [k \in 0 .. 0 |-> s]
        <3>1. Chain(g, 0)
            OBVIOUS
        <3> QED BY <2>1, <2>2, <3>1
    <2>3. CASE m # 0
        <3>1. m - 1 \in Nat /\ m - 1 \notin wrong
            <4>1. m \in Nat /\ m - 1 \in Nat /\ ~(m <= m - 1)
                BY <2>3
            <4> HIDE DEF wrong
            <4> QED BY <2>1, <4>1
        <3>2. PICK h : Chain(h, m - 1)
            BY <3>1
        <3> DEFINE g == [k \in 0 .. m |-> IF k < m THEN h[k] ELSE G[h[m - 1]]]
        <3>3. g \in [0 .. m -> S] /\ g[0] = s
            BY <2>1, <2>3, <3>2
        <3>4. ASSUME NEW k \in 1 .. m PROVE g[k] = G[g[k - 1]]
            <4>1. k - 1 \in 0 .. m /\ k - 1 < m /\ g[k - 1] = h[k - 1]
                BY <2>1
            <4>2. CASE k = m
                BY <2>1, <4>1, <4>2
            <4>3. CASE k # m
                BY <2>1, <3>2, <4>1, <4>3
            <4> QED BY <4>2, <4>3
        <3>5. Chain(g, m)
            BY <3>3, <3>4
        <3> QED BY <2>1, <3>5
    <2> QED BY <2>2, <2>3
<1>2. ASSUME NEW g, NEW h, NEW n \in Nat, NEW m \in Nat, Chain(g, n), Chain(h, m),
             NEW k \in Nat, k <= n, k <= m
      PROVE  g[k] = h[k]
    <2> DEFINE apart == {j \in Nat : j <= n /\ j <= m /\ g[j] # h[j]}
    <2> SUFFICES ASSUME apart # {} PROVE FALSE
        BY <1>2
    <2>1. PICK j \in apart : \A i \in apart : j <= i
        BY LeastNumber
    <2>2. j # 0
        BY <1>2, <2>1
    <2>3. j - 1 \in Nat /\ j - 1 \notin apart /\ g[j - 1] = h[j - 1]
        BY <2>1, <2>2
    <2>4. j \in 1 .. n /\ j \in 1 .. m
        BY <2>1, <2>2
    <2> QED BY <1>2, <2>1, <2>3, <2>4
<1> DEFINE chain(n) == CHOOSE g : Chain(g, n)
           F == [n \in Nat |-> chain(n)[n]]
<1>3. ASSUME NEW n \in Nat PROVE Chain(chain(n), n)
    BY <1>1
<1> HIDE DEF chain
<1>4. F \in [Nat -> S] /\ F[0] = s
    BY <1>3
<1>5. ASSUME NEW k \in Nat \ {0} PROVE F[k] = G[F[k - 1]]
    <2>1. k - 1 \in Nat /\ k - 1 <= k /\ k \in 1 .. k
        OBVIOUS
    <2>2. chain(k)[k - 1] = chain(k - 1)[k - 1]
        <3>1. k \in Nat /\ Chain(chain(k), k) /\ Chain(chain(k - 1), k - 1) /\ k - 1 <= k - 1
            BY <1>3, <2>1
        <3> HIDE DEF Chain
        <3> QED BY <1>2, <2>1, <3>1
    <2>3. chain(k)[k] = G[chain(k)[k - 1]]
        BY <1>3, <2>1
    <2> QED BY <2>1, <2>2, <2>3
<1> QED BY <1>4, <1>5

LEMMA PowerUnfolds ==
    ASSUME NEW a \in Rational
    PROVE  /\ Power(a, 0) = One
           /\ \A k \in Nat : Power(a, k) \in Rational /\ Power(a, k + 1) = a ** Power(a, k)
<1> DEFINE G == [x \in Rational |-> a ** x]
           body(f) == [k \in Nat |-> IF k = 0 THEN One ELSE a ** f[k - 1]]
           f == CHOOSE g : g = body(g)
<1>1. G \in [Rational -> Rational]
    BY ProductType
<1>2. PICK F \in [Nat -> Rational] : F[0] = One /\ \A k \in Nat \ {0} : F[k] = G[F[k - 1]]
    <2>1. One \in Rational
        BY Constants
    <2> HIDE DEF G
    <2> QED BY <1>1, <2>1, Iteration
<1>3. F = body(F)
    <2>1. ASSUME NEW k \in Nat PROVE F[k] = IF k = 0 THEN One ELSE a ** F[k - 1]
        <3>1. CASE k = 0
            BY <1>2, <3>1
        <3>2. CASE k # 0
            <4>1. k - 1 \in Nat /\ F[k - 1] \in Rational
                BY <3>2
            <4> QED BY <1>2, <3>2, <4>1
        <3> QED BY <3>1, <3>2
    <2> QED BY <2>1
<1>4. f = body(f)
    BY <1>3, Zenon
<1>5. ASSUME NEW n \in Nat PROVE Power(a, n) = f[n]
    BY Zenon DEF Power
<1> HIDE DEF f
<1>6. f[0] = One /\ \A k \in Nat : f[k + 1] = a ** f[k]
    <2>1. f[0] = One
        BY <1>4
    <2>2. ASSUME NEW k \in Nat PROVE f[k + 1] = a ** f[k]
        <3>1. k + 1 \in Nat /\ k + 1 # 0 /\ (k + 1) - 1 = k
            OBVIOUS
        <3>2. f[k + 1] = body(f)[k + 1]
            BY <1>4
        <3> QED BY <3>1, <3>2
    <2> QED BY <2>1, <2>2
<1>7. ASSUME NEW n \in Nat PROVE f[n] \in Rational
    <2> DEFINE wrong == {k \in Nat : f[k] \notin Rational}
    <2> SUFFICES ASSUME wrong # {} PROVE FALSE
        OBVIOUS
    <2>1. PICK m \in wrong : \A k \in wrong : m <= k
        BY LeastNumber
    <2>2. m # 0
        BY <1>6, <2>1, Constants
    <2>3. m - 1 \in Nat /\ f[m - 1] \in Rational /\ (m - 1) + 1 = m
        BY <2>1, <2>2
    <2>4. f[m] = a ** f[m - 1]
        BY <1>6, <2>3
    <2> QED BY <2>1, <2>3, <2>4, ProductType
<1> QED BY <1>5, <1>6, <1>7

LEMMA PowerOfSum ==
    ASSUME NEW a \in Rational, NEW m \in Nat, NEW n \in Nat
    PROVE  Power(a, m + n) = Power(a, m) ** Power(a, n)
<1> DEFINE wrong == {k \in Nat : Power(a, k + n) # Power(a, k) ** Power(a, n)}
<1> SUFFICES ASSUME wrong # {} PROVE FALSE
    OBVIOUS
<1>1. PICK k \in wrong : \A j \in wrong : k <= j
    BY LeastNumber
<1>2. k # 0
    BY <1>1, PowerUnfolds, Neutral
<1> DEFINE j == k - 1
           x == Power(a, j)
           y == Power(a, n)
           z == Power(a, j + n)
<1>3. j \in Nat /\ z = x ** y /\ x \in Rational /\ y \in Rational /\ z \in Rational
    <2>1. j \in Nat /\ j \notin wrong /\ j + n \in Nat
        BY <1>1, <1>2
    <2> HIDE DEF j
    <2>2. z = x ** y
        BY <2>1
    <2> QED BY <2>1, <2>2, PowerUnfolds
<1>4. j + 1 = k /\ (j + n) + 1 = k + n /\ j + n \in Nat
    BY <1>1, <1>3
<1>5. Power(a, j + 1) = a ** x /\ Power(a, (j + n) + 1) = a ** z
    BY <1>3, <1>4, PowerUnfolds
<1>6. Power(a, k) = a ** x /\ Power(a, k + n) = a ** z
    BY <1>4, <1>5
<1> HIDE DEF x, y, z
<1>7. a ** z = (a ** x) ** y
    BY <1>3, ProductAssociates
<1> QED BY <1>1, <1>6, <1>7 DEF y

LEMMA PowerIsPositive ==
    ASSUME NEW a \in Rational, Positive(a), NEW n \in Nat
    PROVE  Positive(Power(a, n)) /\ Power(a, n) \in Rational
<1> DEFINE wrong == {k \in Nat : ~Positive(Power(a, k))}
<1> SUFFICES ASSUME wrong # {} PROVE FALSE
    BY PowerUnfolds
<1>1. PICK k \in wrong : \A j \in wrong : k <= j
    BY LeastNumber
<1>2. k # 0
    <2>1. Power(a, 0) = One /\ Positive(One)
        BY PowerUnfolds, Constants DEF Positive
    <2> QED BY <1>1, <2>1
<1>3. k - 1 \in Nat /\ Positive(Power(a, k - 1)) /\ (k - 1) + 1 = k
    BY <1>1, <1>2
<1>4. Power(a, k - 1) \in Rational /\ Power(a, (k - 1) + 1) = a ** Power(a, k - 1)
    BY <1>3, PowerUnfolds
<1> QED BY <1>1, <1>3, <1>4, PositiveProduct

-----------------------------------------------------------------------------
(* Combinations the accounts are computed with *)

LEMMA SwapFactors ==
    ASSUME NEW a \in Rational, NEW b \in Rational, NEW c \in Rational
    PROVE  (a ** b) ** c = (a ** c) ** b
<1>1. (a ** b) ** c = a ** (b ** c) /\ (a ** c) ** b = a ** (c ** b)
    BY ProductAssociates
<1>2. b ** c = c ** b
    BY ProductCommutes
<1> QED BY <1>1, <1>2

LEMMA QuotientIs ==
    ASSUME NEW a \in Rational, NEW b \in Rational, b # Zero, NEW x \in Rational, x ** b = a
    PROVE  a // b = x
<1>1. a // b \in Rational /\ (a // b) ** b = a
    BY Quotient
<1> QED BY <1>1, ProductCancels

LEMMA SelfQuotient ==
    ASSUME NEW a \in Rational, a # Zero
    PROVE  a // a = One
BY QuotientIs, Neutral, Constants

\* Returns compound: from c to b and from b to a is from c to a.
LEMMA QuotientChain ==
    ASSUME NEW a \in Rational, NEW b \in Rational, NEW c \in Rational, b # Zero, c # Zero
    PROVE  (b // c) ** (a // b) = a // c
<1> DEFINE x == b // c
           y == a // b
<1>1. x \in Rational /\ y \in Rational /\ x ** c = b /\ y ** b = a
    BY Quotient
<1> HIDE DEF x, y
<1>2. (x ** y) ** c = (x ** c) ** y
    BY <1>1, SwapFactors
<1>3. (x ** c) ** y = a
    BY <1>1, ProductCommutes
<1>4. x ** y \in Rational
    BY <1>1, ProductType
<1>5. a // c = x ** y
    BY <1>2, <1>3, <1>4, QuotientIs
<1> QED BY <1>5 DEF x, y

\* What a holding earns: nothing when there is none, the move when it is whole.
LEMMA EarnsOnlyHeld ==
    ASSUME NEW r \in Rational, NEW x \in Rational
    PROVE  /\ r ** (One ++ (Zero ** (x -- One))) = r
           /\ r ** (One ++ (One ** (x -- One))) = r ** x
<1> DEFINE m == x -- One
<1>1. m \in Rational /\ m ++ One = x
    BY Constants, Difference
<1> HIDE DEF m
<1>2. Zero ** m = Zero /\ One ** m = m /\ One ++ Zero = One /\ r ** One = r
    BY <1>1, Neutral, Constants
<1>3. One ++ m = x
    BY <1>1, SumCommutes, Constants
<1> QED BY <1>2, <1>3 DEF m

LEMMA Distance ==
    ASSUME NEW a \in Rational
    PROVE  Abs(a) \in Rational /\ Abs(a)[1] >= 0 /\ (Abs(a) = Zero <=> a = Zero)
<1> DEFINE a1 == a[1]  a2 == a[2]
<1>1. a1 \in Int /\ a2 \in Whole /\ a2 \in Int /\ a2 > 0 /\ Lowest(a1, a2) = a /\ a = <<a1, a2>>
    BY Terms
<1>2. Reduced(a1, a2)
    BY <1>1, LowestReduces
<1> HIDE DEF a1, a2
<1> DEFINE b == <<-a1, a2>>
<1>3. b \in Rational
    <2> DEFINE u == Lowest(-a1, a2)
               u1 == u[1]  u2 == u[2]
    <2>1. -a1 \in Int
        BY <1>1
    <2>2. /\ u1 \in Int /\ u2 \in Whole /\ u = <<u1, u2>> /\ u1 * a2 = (-a1) * u2
          /\ Reduced(u1, u2) /\ u \in Rational
        BY <1>1, <2>1, LowestReduces, LowestIsRational
    <2> HIDE DEF u, u1, u2
    <2>3. u2 <= a2
        BY <1>1, <2>1, <2>2 DEF Reduced
    <2>4. a1 * u2 = (-u1) * a2 /\ -u1 \in Int /\ u2 \in Int
        BY <1>1, <2>2 DEF Whole
    <2>5. a2 <= u2
        BY <1>2, <2>2, <2>4 DEF Reduced
    <2>6. u2 = a2
        BY <1>1, <2>3, <2>4, <2>5
    <2>7. u1 = -a1
        BY <1>1, <2>2, <2>6
    <2> QED BY <2>2, <2>6, <2>7
<1>4. b # Zero <=> a # Zero
    BY <1>1, Constants
<1>5. Abs(a) = IF a1 < 0 THEN b ELSE a
    BY <1>1 DEF Abs
<1> QED BY <1>1, <1>3, <1>4, <1>5

\* A distance is at most one between the terms and their opposites.
LEMMA WithinOne ==
    ASSUME NEW a \in Rational
    PROVE  Abs(a) \preceq One <=> a[1] <= a[2] /\ -a[1] <= a[2]
<1>1. a[1] \in Int /\ a[2] \in Int /\ a[2] > 0
    BY Terms
<1>2. Abs(a) \preceq One <=> Abs(a)[1] * One[2] <= One[1] * Abs(a)[2]
    BY Distance, Comparison, Constants
<1>3. One[1] = 1 /\ One[2] = 1
    BY Constants
<1>4. Abs(a)[2] = a[2] /\ Abs(a)[1] = IF a[1] < 0 THEN -a[1] ELSE a[1]
    BY DEF Abs
<1> QED BY <1>1, <1>2, <1>3, <1>4

LEMMA ProductWithinOne ==
    ASSUME NEW a \in Rational, NEW b \in Rational,
           Abs(a) \preceq One, Zero \preceq b, b \preceq One
    PROVE  Abs(a ** b) \preceq One
<1> DEFINE a1 == a[1]  a2 == a[2]  b1 == b[1]  b2 == b[2]
           p == a1 * b1
           q == a2 * b2
           u1 == Lowest(p, q)[1]
           u2 == Lowest(p, q)[2]
<1>1. /\ a1 \in Int /\ a2 \in Whole /\ a2 \in Int /\ a2 > 0
      /\ b1 \in Int /\ b2 \in Whole /\ b2 \in Int /\ b2 > 0
    BY Terms
<1>2. a1 <= a2 /\ -a1 <= a2 /\ b1 >= 0
    BY WithinOne, Signs
<1>3. b1 <= b2
    <2>1. b[1] * One[2] <= One[1] * b[2]
        BY Comparison, Constants
    <2> QED BY <1>1, <2>1, Constants
<1>4. a ** b = Lowest(p, q) /\ a ** b \in Rational
    BY ProductType
<1> HIDE DEF a1, a2, b1, b2
<1>5. p \in Int /\ q \in Whole
    BY <1>1, WholeProduct
<1>6. q \in Int /\ q > 0
    BY <1>5 DEF Whole
<1>7. p <= q /\ -p <= q
    <2>1. a1 * b1 <= a2 * b1 /\ (-a1) * b1 <= a2 * b1
        BY <1>1, <1>2
    <2>2. a2 * b1 <= a2 * b2
        BY <1>1, <1>3
    <2>3. (-a1) * b1 = -(a1 * b1)
        BY <1>1
    <2>4. \A x, y, z \in Int : x <= y /\ y <= z => x <= z
        OBVIOUS
    <2>5. a1 * b1 \in Int /\ -(a1 * b1) \in Int /\ a2 * b1 \in Int /\ a2 * b2 \in Int
        BY <1>1
    <2> QED BY <2>1, <2>2, <2>3, <2>4, <2>5
<1> HIDE DEF p, q
<1>8. u1 \in Int /\ u2 \in Int /\ u2 > 0 /\ u1 * q = p * u2
    BY <1>5, LowestReduces DEF Whole
<1> HIDE DEF u1, u2
<1>9. u1 <= u2 /\ -u1 <= u2
    <2>1. p * u2 <= q * u2 /\ (-p) * u2 <= q * u2
        BY <1>5, <1>6, <1>7, <1>8
    <2>2. u1 * q <= u2 * q /\ (-u1) * q <= u2 * q
        BY <1>5, <1>6, <1>8, <2>1
    <2> QED BY <1>6, <1>8, <2>2
<1> QED BY <1>4, <1>9, WithinOne DEF u1, u2

LEMMA DifferenceIs ==
    ASSUME NEW a \in Rational, NEW b \in Rational, NEW x \in Rational, x ++ b = a
    PROVE  a -- b = x
BY Difference, SumCancels

LEMMA NoDifference ==
    ASSUME NEW a \in Rational
    PROVE  a -- a = Zero /\ a -- Zero = a
BY DifferenceIs, Neutral, Constants

\* The smaller and the larger of two are one of them, and bound both.
LEMMA LeastBounds ==
    ASSUME NEW a \in Rational, NEW b \in Rational
    PROVE  /\ Least(a, b) \in {a, b} /\ Least(a, b) \preceq a /\ Least(a, b) \preceq b
           /\ Greatest(a, b) \in {a, b} /\ a \preceq Greatest(a, b) /\ b \preceq Greatest(a, b)
BY Ordered DEF Least, Greatest

\* A value part of the way from One down to a floor lies between them.
LEMMA PartOfTheWay ==
    ASSUME NEW floor \in Rational, Zero \preceq floor, floor \preceq One,
           NEW start \in Rational, NEW full \in Rational, NEW at \in Rational,
           start \preceq at, at \preceq full, start \prec full
    PROVE  LET x == One -- (((One -- floor) ** (at -- start)) // (full -- start))
           IN  x \in Rational /\ floor \preceq x /\ x \preceq One
<1> DEFINE m == One -- floor
           d == at -- start
           s == full -- start
           p == m ** d
           y == p // s
           x == One -- y
<1>1. One \in Rational /\ Zero \in Rational
    BY Constants
<1>2. m \in Rational /\ m ++ floor = One /\ d \in Rational /\ d ++ start = at
      /\ s \in Rational /\ s ++ start = full
    BY <1>1, Difference
<1> HIDE DEF m, d, s
<1>3. Zero ++ start = start /\ Zero ++ floor = floor
    BY Neutral
<1>4. Zero \preceq d /\ d \preceq s /\ Zero \preceq s /\ Zero \preceq m
    <2>1. Zero \preceq d
        BY <1>1, <1>2, <1>3, SumOrder
    <2>2. d \preceq s
        BY <1>2, SumOrder
    <2>3. Zero \preceq m
        BY <1>1, <1>2, <1>3, SumOrder
    <2> QED BY <1>1, <1>2, <2>1, <2>2, <2>3, OrderedSteps
<1>5. s # Zero
    <2>1. s = Zero => full = start
        BY <1>2, <1>3
    <2>2. full # start
        BY Ordered
    <2> QED BY <2>1, <2>2
<1>6. p \in Rational /\ Zero \preceq p /\ p \preceq m ** s /\ m ** s \in Rational
    <2>1. p \in Rational /\ m ** s \in Rational
        BY <1>2, ProductType
    <2>2. Zero ** d \preceq m ** d /\ Zero ** d = Zero
        BY <1>1, <1>2, <1>4, ProductOrder, Neutral
    <2>3. d ** m \preceq s ** m /\ d ** m = m ** d /\ s ** m = m ** s
        BY <1>2, <1>4, ProductOrder, ProductCommutes
    <2> QED BY <2>1, <2>2, <2>3
<1> HIDE DEF p
<1>7. y \in Rational /\ y ** s = p
    BY <1>2, <1>5, <1>6, Quotient
<1> HIDE DEF y
<1>8. Zero \preceq y
    <2> SUFFICES ASSUME y \preceq Zero PROVE Zero \preceq y
        BY <1>1, <1>7, Ordered
    <2>1. p \preceq Zero
        <3>1. y ** s \preceq Zero ** s
            BY <1>1, <1>2, <1>4, <1>7, ProductOrder
        <3> QED BY <1>2, <1>7, <3>1, Neutral
    <2>2. p = Zero
        BY <1>1, <1>6, <2>1, Ordered
    <2>3. y ** s = Zero ** s
        BY <1>2, <1>7, <2>2, Neutral
    <2>4. y = Zero
        BY <1>1, <1>2, <1>5, <1>7, <2>3, ProductCancels
    <2> QED BY <1>1, <2>4, Ordered
<1>9. y \preceq m
    <2> SUFFICES ASSUME m \preceq y PROVE y \preceq m
        BY <1>2, <1>7, Ordered
    <2>1. m ** s \preceq p
        BY <1>2, <1>4, <1>7, ProductOrder
    <2>2. y ** s = m ** s
        BY <1>6, <1>7, <2>1, Ordered
    <2>3. y = m
        BY <1>2, <1>5, <1>7, <2>2, ProductCancels
    <2> QED BY <1>2, <2>3, Ordered
<1>10. x \in Rational /\ x ++ y = One
    BY <1>1, <1>7, Difference
<1> HIDE DEF x
<1>11. floor \preceq x
    <2>1. y ++ floor \preceq m ++ floor
        BY <1>2, <1>7, <1>9, SumOrder
    <2>2. y ++ floor = floor ++ y
        BY <1>7, SumCommutes
    <2>3. floor ++ y \preceq x ++ y
        BY <1>2, <1>10, <2>1, <2>2
    <2> QED BY <1>7, <1>10, <2>3, SumOrder
<1>12. x \preceq One
    <2>1. Zero ++ x \preceq y ++ x
        BY <1>1, <1>7, <1>8, <1>10, SumOrder
    <2>2. Zero ++ x = x /\ y ++ x = One
        BY <1>7, <1>10, SumCommutes, Neutral
    <2> QED BY <2>1, <2>2
<1> QED BY <1>10, <1>11, <1>12 DEF x, y, p, m, d, s

-----------------------------------------------------------------------------
(* Sums over a finite set: FoldFunction takes its elements in an order     *)
(* CHOOSE makes up, so the laws are of the sums of all parts of the set.   *)

AnyOf(S) == CHOOSE x \in S : TRUE

SumOver(f) == MapThenFoldSet(++, Zero, LAMBDA i : f[i],
                             LAMBDA s : CHOOSE x \in s : TRUE, DOMAIN f)

\* F gives every part of D the sum of f over it.
Sums(F, f, D) ==
    /\ DOMAIN F = SUBSET D
    /\ F = [S \in SUBSET D |-> F[S]]
    /\ \A S \in SUBSET D : F[S] = IF S = {} THEN Zero
                                  ELSE f[AnyOf(S)] ++ F[S \ {AnyOf(S)}]

LEMMA PartsAreSmaller ==
    ASSUME NEW D, IsFiniteSet(D), NEW S \in SUBSET D, S # {}
    PROVE  /\ AnyOf(S) \in S /\ S \ {AnyOf(S)} \in SUBSET D
           /\ Cardinality(S) \in Nat /\ Cardinality(S \ {AnyOf(S)}) \in Nat
           /\ Cardinality(S \ {AnyOf(S)}) = Cardinality(S) - 1
<1>1. AnyOf(S) \in S
    BY DEF AnyOf
<1>2. IsFiniteSet(S)
    BY FS_Subset
<1> QED BY <1>1, <1>2, FS_RemoveElement, FS_CardinalityType

\* There is one such function at most.
LEMMA SumsAgree ==
    ASSUME NEW D, IsFiniteSet(D), NEW f, NEW F, NEW G, Sums(F, f, D), Sums(G, f, D)
    PROVE  F = G
<1> DEFINE wrong == {n \in Nat : \E S \in SUBSET D : Cardinality(S) = n /\ F[S] # G[S]}
<1>1. wrong = {}
    <2> SUFFICES ASSUME wrong # {} PROVE FALSE
        OBVIOUS
    <2>1. PICK n \in wrong : \A k \in wrong : n <= k
        BY LeastNumber
    <2>2. PICK S \in SUBSET D : Cardinality(S) = n /\ F[S] # G[S]
        BY <2>1
    <2>3. S # {}
        BY <2>2 DEF Sums
    <2> DEFINE T == S \ {AnyOf(S)}
    <2>4. T \in SUBSET D /\ Cardinality(T) \in Nat /\ Cardinality(T) = n - 1 /\ n \in Nat
        BY <2>2, <2>3, PartsAreSmaller
    <2>5. Cardinality(T) \notin wrong
        <3> HIDE DEF wrong, T
        <3> QED BY <2>1, <2>4
    <2>6. F[T] = G[T]
        BY <2>4, <2>5
    <2> QED BY <2>2, <2>3, <2>6 DEF Sums
<1>2. \A S \in SUBSET D : F[S] = G[S]
    <2>1. \A S \in SUBSET D : Cardinality(S) \in Nat
        BY FS_Subset, FS_CardinalityType
    <2> QED BY <1>1, <2>1
<1>3. F = [S \in SUBSET D |-> F[S]] /\ G = [S \in SUBSET D |-> G[S]]
    BY DEF Sums
<1>4. [S \in SUBSET D |-> F[S]] = [S \in SUBSET D |-> G[S]]
    BY <1>2
<1> QED BY <1>3, <1>4

\* SumOver is the sum of the whole.
LEMMA SumOfWhole ==
    ASSUME NEW f, IsFiniteSet(DOMAIN f), NEW F, Sums(F, f, DOMAIN f)
    PROVE  SumOver(f) = F[DOMAIN f]
<1> DEFINE D == DOMAIN f
           step(g) == [s \in SUBSET D |-> IF s = {} THEN Zero
                         ELSE LET x == CHOOSE x \in s : TRUE IN f[x] ++ g[s \ {x}]]
           iter == CHOOSE g : g = step(g)
<1>1. SumOver(f) = iter[D]
    BY Zenon DEF SumOver, MapThenFoldSet
<1>2. F = step(F)
    <2>1. F = [S \in SUBSET D |-> F[S]]
        BY DEF Sums
    <2>2. \A S \in SUBSET D : F[S] = IF S = {} THEN Zero
                         ELSE LET x == CHOOSE x \in S : TRUE IN f[x] ++ F[S \ {x}]
        BY Zenon DEF Sums, AnyOf
    <2>3. [S \in SUBSET D |-> F[S]] = step(F)
        BY <2>2, Zenon
    <2> QED BY <2>1, <2>3, Zenon
<1>3. iter = step(iter)
    <2> HIDE DEF step
    <2> QED BY <1>2, Zenon
<1> HIDE DEF iter
<1>4. Sums(iter, f, D)
    <2>1. \A S \in SUBSET D : iter[S] = IF S = {} THEN Zero
                         ELSE LET x == CHOOSE x \in S : TRUE IN f[x] ++ iter[S \ {x}]
        BY <1>3, Zenon
    <2>2. DOMAIN iter = SUBSET D /\ iter = [S \in SUBSET D |-> iter[S]]
        BY <1>3, Zenon
    <2> QED BY <2>1, <2>2, Zenon DEF Sums, AnyOf
<1>5. iter = F
    BY <1>4, SumsAgree, Zenon
<1> QED BY <1>1, <1>5, Zenon

\* The sums exist, and lie in any set of numbers that is closed under addition.
LEMMA SumsExist ==
    ASSUME NEW D, IsFiniteSet(D), NEW P \in SUBSET Rational, Zero \in P,
           \A a \in P, b \in P : a ++ b \in P, NEW f \in [D -> P]
    PROVE  \E F \in [SUBSET D -> P] : Sums(F, f, D)
<1> DEFINE Small(n) == {S \in SUBSET D : Cardinality(S) <= n}
           Right(F, S) == F[S] = IF S = {} THEN Zero ELSE f[AnyOf(S)] ++ F[S \ {AnyOf(S)}]
           Chain(F, n) == F \in [Small(n) -> P] /\ \A S \in Small(n) : Right(F, S)
           wrong == {n \in Nat : ~ \E F : Chain(F, n)}
<1>0. \A S \in SUBSET D : IsFiniteSet(S) /\ Cardinality(S) \in Nat
    BY FS_Subset, FS_CardinalityType
<1>1. \A S \in SUBSET D : S # {} =>
          /\ AnyOf(S) \in S /\ S \ {AnyOf(S)} \in SUBSET D
          /\ Cardinality(S \ {AnyOf(S)}) = Cardinality(S) - 1
    BY PartsAreSmaller
<1>2. wrong = {}
    <2> SUFFICES ASSUME wrong # {} PROVE FALSE
        OBVIOUS
    <2>1. PICK n \in wrong : \A k \in wrong : n <= k
        BY LeastNumber
    <2>2. CASE n = 0
        <3> DEFINE F == [S \in Small(0) |-> Zero]
        <3>1. \A S \in Small(0) : S = {}
            BY <1>0, FS_EmptySet
        <3>2. Chain(F, 0)
            BY <3>1
        <3> QED BY <2>1, <2>2, <3>2
    <2>3. CASE n # 0
        <3>1. n - 1 \in Nat /\ n - 1 \notin wrong
            <4>1. n \in Nat /\ n - 1 \in Nat /\ ~(n <= n - 1)
                BY <2>3
            <4> HIDE DEF wrong
            <4> QED BY <2>1, <4>1
        <3>2. PICK G : Chain(G, n - 1)
            BY <3>1
        <3> DEFINE Above(S) == f[AnyOf(S)] ++ G[S \ {AnyOf(S)}]
                   F == [S \in Small(n) |-> IF S \in Small(n - 1) THEN G[S] ELSE Above(S)]
        <3>3. ASSUME NEW S \in Small(n), S # {}
              PROVE  S \ {AnyOf(S)} \in Small(n - 1) /\ S \ {AnyOf(S)} \in Small(n)
            <4> DEFINE T == S \ {AnyOf(S)}
            <4>1. S \in SUBSET D /\ Cardinality(S) <= n /\ Cardinality(S) \in Nat /\ n \in Nat
                BY <1>0, <2>1
            <4>2. T \in SUBSET D /\ Cardinality(T) = Cardinality(S) - 1
                BY <1>1, <3>3, <4>1
            <4> HIDE DEF T
            <4>3. T \in Small(n - 1) /\ T \in Small(n)
                BY <4>1, <4>2
            <4> QED BY <4>3 DEF T
        <3>4. ASSUME NEW S \in Small(n)
              PROVE  F[S] \in P /\ Right(F, S)
            <4>1. CASE S \in Small(n - 1)
                <5>1. F[S] = G[S] /\ G[S] \in P /\ Right(G, S)
                    BY <3>2, <4>1
                <5>2. S # {} => F[S \ {AnyOf(S)}] = G[S \ {AnyOf(S)}]
                    BY <3>3
                <5> QED BY <5>1, <5>2
            <4>2. CASE S \notin Small(n - 1)
                <5>1. S # {}
                    BY <1>0, <2>1, <3>1, <4>2, FS_EmptySet
                <5>2. F[S] = Above(S) /\ F[S \ {AnyOf(S)}] = G[S \ {AnyOf(S)}]
                    BY <3>3, <4>2, <5>1
                <5>3. f[AnyOf(S)] \in P /\ G[S \ {AnyOf(S)}] \in P
                    <6>1. AnyOf(S) \in D
                        BY <1>1, <5>1
                    <6>2. S \ {AnyOf(S)} \in Small(n - 1)
                        BY <3>3, <5>1
                    <6> QED BY <3>2, <6>1, <6>2
                <5> QED BY <5>1, <5>2, <5>3
            <4> QED BY <4>1, <4>2
        <3>5. F \in [Small(n) -> P]
            BY <3>4
        <3>6. Chain(F, n)
            <4> HIDE DEF Right, F
            <4> QED BY <3>4, <3>5
        <3> QED BY <2>1, <3>6
    <2> QED BY <2>2, <2>3
<1>3. PICK F : Chain(F, Cardinality(D))
    <2>1. Cardinality(D) \in Nat
        BY FS_CardinalityType
    <2> QED BY <1>2, <2>1
<1>4. Small(Cardinality(D)) = SUBSET D
    BY FS_Subset
<1>5. F \in [SUBSET D -> P] /\ \A S \in SUBSET D : Right(F, S)
    BY <1>3, <1>4
<1> QED BY <1>5 DEF Sums

LEMMA SumIn ==
    ASSUME NEW D, IsFiniteSet(D), NEW P \in SUBSET Rational, Zero \in P,
           \A a \in P, b \in P : a ++ b \in P, NEW f \in [D -> P]
    PROVE  SumOver(f) \in P
<1>1. PICK F \in [SUBSET D -> P] : Sums(F, f, D)
    BY SumsExist
<1>2. DOMAIN f = D /\ D \in SUBSET D
    OBVIOUS
<1>3. SumOver(f) = F[D]
    BY <1>1, <1>2, SumOfWhole, Zenon
<1> QED BY <1>1, <1>2, <1>3

LEMMA TotalType ==
    ASSUME NEW D, IsFiniteSet(D), NEW f \in [D -> Rational]
    PROVE  SumOver(f) \in Rational
BY SumIn, SumType, Constants

\* A sum of numbers none of which is negative is not negative.
LEMMA TotalSign ==
    ASSUME NEW D, IsFiniteSet(D), NEW f \in [D -> Rational], \A x \in D : Zero \preceq f[x]
    PROVE  Zero \preceq SumOver(f)
<1> DEFINE P == {a \in Rational : Zero \preceq a}
<1>1. Zero \in P /\ P \in SUBSET Rational /\ f \in [D -> P]
    BY Constants, Ordered
<1>2. ASSUME NEW a \in P, NEW b \in P PROVE a ++ b \in P
    <2>1. a \in Rational /\ b \in Rational /\ a ++ b \in Rational /\ Zero \in Rational
        BY SumType, Constants
    <2>2. Zero ++ b \preceq a ++ b /\ Zero ++ b = b
        BY <2>1, SumOrder, Neutral
    <2> QED BY <2>1, <2>2, OrderedSteps
<1>3. SumOver(f) \in P
    <2> HIDE DEF P
    <2> QED BY <1>1, <1>2, SumIn
<1> QED BY <1>3

\* Whole numbers, and sums of four.
LEMMA WholeIsRational ==
    ASSUME NEW n \in Int
    PROVE  R(n) \in Rational /\ R(n) = Lowest(n, 1) /\ R(n)[1] = n /\ R(n)[2] = 1
<1>1. 1 \in Whole
    BY DEF Whole
<1>2. Lowest(n, 1) = R(n)
    <2>1. /\ Lowest(n, 1) = <<Lowest(n, 1)[1], Lowest(n, 1)[2]>>
          /\ Lowest(n, 1)[1] \in Int /\ Lowest(n, 1)[2] \in Whole
          /\ Lowest(n, 1)[1] * 1 = n * Lowest(n, 1)[2]
          /\ Reduced(Lowest(n, 1)[1], Lowest(n, 1)[2])
        BY <1>1, LowestReduces
    <2> DEFINE m == Lowest(n, 1)[1]
               k == Lowest(n, 1)[2]
    <2>2. m * 1 = n * k /\ m \in Int /\ k \in Int /\ k > 0
        BY <2>1 DEF Whole
    <2>3. k <= 1
        BY <1>1, <2>1 DEF Reduced
    <2> HIDE DEF m, k
    <2>4. k = 1 /\ m = n
        BY <2>2, <2>3
    <2> QED BY <2>1, <2>4 DEF m, k, R
<1>3. Lowest(n, 1) \in Rational
    BY <1>1, LowestIsRational
<1> QED BY <1>2, <1>3 DEF R

LEMMA WholesAdd ==
    ASSUME NEW m \in Int, NEW n \in Int
    PROVE  R(m + n) = R(m) ++ R(n)
<1>1. R(m) ++ R(n) = Lowest(m * 1 + n * 1, 1 * 1)
    <2>1. 1 \in Whole
        BY DEF Whole
    <2> QED BY <2>1, SumOfTerms DEF R
<1>2. m * 1 + n * 1 = m + n /\ 1 * 1 = 1 /\ m + n \in Int
    OBVIOUS
<1> QED BY <1>1, <1>2, WholeIsRational

LEMMA SumsSwap ==
    ASSUME NEW a \in Rational, NEW b \in Rational, NEW c \in Rational, NEW d \in Rational
    PROVE  (a ++ b) ++ (c ++ d) = (a ++ c) ++ (b ++ d)
<1>1. b ++ c \in Rational /\ c ++ d \in Rational /\ b ++ d \in Rational /\ c ++ b \in Rational
    BY SumType
<1>2. (a ++ b) ++ (c ++ d) = a ++ (b ++ (c ++ d))
    BY <1>1, SumAssociates
<1>3. b ++ (c ++ d) = (b ++ c) ++ d
    BY SumAssociates
<1>4. (c ++ b) ++ d = c ++ (b ++ d)
    BY SumAssociates
<1>5. a ++ (c ++ (b ++ d)) = (a ++ c) ++ (b ++ d)
    BY <1>1, SumAssociates
<1> QED BY <1>2, <1>3, <1>4, <1>5, SumCommutes

\* Sums of a function that is made up of others are made up of their sums.
LEMMA TotalAdds ==
    ASSUME NEW D, IsFiniteSet(D), NEW f \in [D -> Rational], NEW g \in [D -> Rational],
           NEW h \in [D -> Rational], \A x \in D : h[x] = f[x] ++ g[x]
    PROVE  SumOver(h) = SumOver(f) ++ SumOver(g)
<1>1. PICK F \in [SUBSET D -> Rational] : Sums(F, f, D)
    BY SumsExist, SumType, Constants
<1>2. PICK G \in [SUBSET D -> Rational] : Sums(G, g, D)
    BY SumsExist, SumType, Constants
<1> DEFINE H == [S \in SUBSET D |-> F[S] ++ G[S]]
<1>3. ASSUME NEW S \in SUBSET D, S # {}
      PROVE  H[S] = h[AnyOf(S)] ++ H[S \ {AnyOf(S)}]
    <2> DEFINE x == AnyOf(S)
               T == S \ {x}
    <2>1. x \in D /\ T \in SUBSET D
        BY <1>3, PartsAreSmaller
    <2>2. F[S] = f[x] ++ F[T] /\ G[S] = g[x] ++ G[T] /\ h[x] = f[x] ++ g[x]
        BY <1>1, <1>2, <1>3, <2>1 DEF Sums
    <2>3. f[x] \in Rational /\ g[x] \in Rational /\ F[T] \in Rational /\ G[T] \in Rational
        BY <2>1
    <2>4. H[S] = F[S] ++ G[S] /\ H[T] = F[T] ++ G[T]
        BY <2>1
    <2> HIDE DEF H, x, T
    <2>5. (f[x] ++ F[T]) ++ (g[x] ++ G[T]) = (f[x] ++ g[x]) ++ (F[T] ++ G[T])
        BY <2>3, SumsSwap
    <2>6. H[S] = h[x] ++ H[T]
        BY <2>2, <2>4, <2>5
    <2> QED BY <2>6 DEF x, T
<1>4. H[{}] = Zero
    <2>1. F[{}] = Zero /\ G[{}] = Zero
        BY <1>1, <1>2 DEF Sums
    <2> QED BY <2>1, Constants, Neutral
<1>5. Sums(H, h, D)
    BY <1>3, <1>4 DEF Sums
<1>6. DOMAIN f = D /\ DOMAIN g = D /\ DOMAIN h = D /\ H[D] = F[D] ++ G[D]
    OBVIOUS
<1> HIDE DEF H
<1>7. SumOver(f) = F[D] /\ SumOver(g) = G[D]
    BY <1>1, <1>2, <1>6, SumOfWhole, Zenon
<1>8. SumOver(h) = H[D]
    BY <1>5, <1>6, SumOfWhole, Zenon
<1> QED BY <1>6, <1>7, <1>8

LEMMA TotalScales ==
    ASSUME NEW D, IsFiniteSet(D), NEW f \in [D -> Rational], NEW c \in Rational,
           NEW h \in [D -> Rational], \A x \in D : h[x] = c ** f[x]
    PROVE  SumOver(h) = c ** SumOver(f)
<1>1. PICK F \in [SUBSET D -> Rational] : Sums(F, f, D)
    BY SumsExist, SumType, Constants
<1> DEFINE H == [S \in SUBSET D |-> c ** F[S]]
<1>2. ASSUME NEW S \in SUBSET D, S # {}
      PROVE  H[S] = h[AnyOf(S)] ++ H[S \ {AnyOf(S)}]
    <2> DEFINE x == AnyOf(S)
               T == S \ {x}
    <2>1. x \in D /\ T \in SUBSET D
        BY <1>2, PartsAreSmaller
    <2>2. F[S] = f[x] ++ F[T] /\ h[x] = c ** f[x]
        BY <1>1, <1>2, <2>1 DEF Sums
    <2>3. f[x] \in Rational /\ F[T] \in Rational
        BY <2>1
    <2>4. H[S] = c ** F[S] /\ H[T] = c ** F[T]
        BY <2>1
    <2> HIDE DEF H, x, T
    <2>5. H[S] = h[x] ++ H[T]
        BY <2>2, <2>3, <2>4, ProductDistributes
    <2> QED BY <2>5 DEF x, T
<1>3. H[{}] = Zero
    <2>1. F[{}] = Zero
        BY <1>1 DEF Sums
    <2> QED BY <2>1, Constants, Neutral
<1>4. Sums(H, h, D)
    BY <1>2, <1>3 DEF Sums
<1>5. DOMAIN f = D /\ DOMAIN h = D /\ H[D] = c ** F[D]
    OBVIOUS
<1> HIDE DEF H
<1>6. SumOver(f) = F[D] /\ SumOver(h) = H[D]
    BY <1>1, <1>4, <1>5, SumOfWhole, Zenon
<1> QED BY <1>5, <1>6

\* The same number for each member of a part.
LEMMA TotalOfPart ==
    ASSUME NEW D, IsFiniteSet(D), NEW L \in SUBSET D, NEW c \in Rational,
           NEW h \in [D -> Rational], \A x \in D : h[x] = IF x \in L THEN c ELSE Zero
    PROVE  SumOver(h) = c ** R(Cardinality(L))
<1> DEFINE H == [S \in SUBSET D |-> c ** R(Cardinality(S \cap L))]
<1>1. ASSUME NEW S \in SUBSET D, S # {}
      PROVE  H[S] = h[AnyOf(S)] ++ H[S \ {AnyOf(S)}]
    <2> DEFINE x == AnyOf(S)
               T == S \ {x}
               m == Cardinality(S \cap L)
               n == Cardinality(T \cap L)
    <2>1. x \in D /\ x \in S /\ T \in SUBSET D
        BY <1>1, PartsAreSmaller
    <2>2. IsFiniteSet(S \cap L) /\ m \in Nat /\ n \in Nat
        <3>1. S \cap L \in SUBSET D /\ T \cap L \in SUBSET D
            OBVIOUS
        <3> QED BY <3>1, FS_Subset, FS_CardinalityType
    <2>3. T \cap L = (S \cap L) \ {x}
        OBVIOUS
    <2>4. n = IF x \in L THEN m - 1 ELSE m
        <3>1. x \in S \cap L <=> x \in L
            BY <2>1
        <3>2. Cardinality((S \cap L) \ {x}) = IF x \in S \cap L THEN m - 1 ELSE m
            BY <2>2, FS_RemoveElement
        <3> QED BY <2>3, <3>1, <3>2
    <2>5. H[S] = c ** R(m) /\ H[T] = c ** R(n)
        BY <2>1
    <2>6. h[x] = IF x \in L THEN c ELSE Zero
        BY <2>1
    <2>7. R(m) \in Rational /\ R(n) \in Rational
        BY <2>2, WholeIsRational
    <2> HIDE DEF H, x, T, m, n
    <2>8. CASE x \in L
        <3>1. R(m) = One ++ R(n)
            <4>1. m = 1 + n
                BY <2>2, <2>4, <2>8
            <4> QED BY <2>2, <4>1, WholesAdd DEF One
        <3>2. c ** R(m) = (c ** One) ++ (c ** R(n))
            BY <2>7, <3>1, Constants, ProductDistributes
        <3>3. H[S] = h[x] ++ H[T]
            BY <2>5, <2>6, <2>8, <3>2, Neutral
        <3> QED BY <3>3 DEF x, T
    <2>9. CASE x \notin L
        <3>1. H[S] = h[x] ++ H[T]
            BY <2>4, <2>5, <2>6, <2>7, <2>9, ProductType, Neutral
        <3> QED BY <3>1 DEF x, T
    <2> QED BY <2>8, <2>9
<1>2. H[{}] = Zero
    <2>1. {} \cap L = {} /\ Cardinality({}) = 0
        BY FS_EmptySet
    <2>2. H[{}] = c ** R(0)
        BY <2>1
    <2> QED BY <2>2, Neutral DEF Zero
<1>3. Sums(H, h, D)
    BY <1>1, <1>2 DEF Sums
<1>4. DOMAIN h = D /\ H[D] = c ** R(Cardinality(L))
    <2>1. D \cap L = L
        OBVIOUS
    <2> QED BY <2>1
<1> HIDE DEF H
<1>5. SumOver(h) = H[D]
    BY <1>3, <1>4, SumOfWhole, Zenon
<1> QED BY <1>4, <1>5

\* The larger function has the larger sum.
LEMMA TotalOrder ==
    ASSUME NEW D, IsFiniteSet(D), NEW f \in [D -> Rational], NEW g \in [D -> Rational],
           \A x \in D : f[x] \preceq g[x]
    PROVE  SumOver(f) \preceq SumOver(g)
<1> DEFINE h == [x \in D |-> g[x] -- f[x]]
<1>1. ASSUME NEW x \in D
      PROVE  h[x] \in Rational /\ g[x] = f[x] ++ h[x] /\ Zero \preceq h[x]
    <2>1. f[x] \in Rational /\ g[x] \in Rational /\ h[x] = g[x] -- f[x]
        OBVIOUS
    <2> HIDE DEF h
    <2>2. h[x] \in Rational /\ h[x] ++ f[x] = g[x]
        BY <2>1, Difference
    <2>3. Zero ++ f[x] \preceq h[x] ++ f[x]
        BY <1>1, <2>1, <2>2, Neutral
    <2> QED BY <2>1, <2>2, <2>3, SumOrder, SumCommutes, Constants
<1>2. h \in [D -> Rational]
    BY <1>1
<1>3. SumOver(g) = SumOver(f) ++ SumOver(h)
    <2> HIDE DEF h
    <2> QED BY <1>1, <1>2, TotalAdds
<1>4. Zero \preceq SumOver(h) /\ SumOver(h) \in Rational /\ SumOver(f) \in Rational
    <2> HIDE DEF h
    <2> QED BY <1>1, <1>2, TotalSign, TotalType
<1>5. Zero ++ SumOver(f) \preceq SumOver(h) ++ SumOver(f)
    BY <1>4, SumOrder, Constants
<1> QED BY <1>3, <1>4, <1>5, Neutral, SumCommutes

\* A sum of numbers, none negative and one positive, is positive.
LEMMA TotalPositive ==
    ASSUME NEW D, IsFiniteSet(D), NEW f \in [D -> Rational], NEW y \in D,
           \A x \in D : Zero \preceq f[x], Positive(f[y])
    PROVE  Positive(SumOver(f))
<1> DEFINE h == [x \in D |-> IF x \in {y} THEN f[y] ELSE Zero]
<1>1. h \in [D -> Rational] /\ \A x \in D : h[x] \preceq f[x]
    BY Constants, Ordered
<1>2. SumOver(h) = f[y]
    <2>1. SumOver(h) = f[y] ** R(Cardinality({y}))
        <3>1. {y} \in SUBSET D /\ f[y] \in Rational
              /\ \A x \in D : h[x] = IF x \in {y} THEN f[y] ELSE Zero
            OBVIOUS
        <3> HIDE DEF h
        <3> QED BY <1>1, <3>1, TotalOfPart
    <2> QED BY <2>1, FS_Singleton, Neutral DEF One
<1>3. f[y] \preceq SumOver(f) /\ SumOver(f) \in Rational
    <2> HIDE DEF h
    <2> QED BY <1>1, <1>2, TotalOrder, TotalType
<1>4. f[y] \in Rational
    OBVIOUS
<1>5. ~(SumOver(f) \preceq Zero)
    BY <1>3, <1>4, Signs, OrderedSteps, Constants
<1> QED BY <1>3, <1>5, Signs

\* The size of a fraction is that of its numerator.
LEMMA AbsOfLowest ==
    ASSUME NEW p \in Int, NEW q \in Whole, p < 0
    PROVE  Abs(Lowest(p, q)) = Lowest(-p, q)
<1> DEFINE a == Lowest(p, q)
<1>1. a \in Rational /\ a[1] * q = p * a[2] /\ a[1] \in Int /\ a[2] \in Whole /\ a[1] < 0
    BY LowestIsRational, LowestSign
<1>2. Abs(a) = <<-a[1], a[2]>> /\ Abs(a) \in Rational
    BY <1>1, Distance DEF Abs
<1>3. Lowest(-a[1], a[2]) = Abs(a)
    BY <1>2, Terms
<1>4. (-a[1]) * q = (-p) * a[2]
    <2> DEFINE m == a[1]
               n == a[2]
    <2>1. m * q = p * n /\ m \in Int /\ n \in Int /\ q \in Int
        BY <1>1 DEF Whole
    <2> HIDE DEF m, n
    <2>2. (-m) * q = (-p) * n
        BY <2>1
    <2> QED BY <2>2 DEF m, n
<1> HIDE DEF a
<1>5. -a[1] \in Int /\ -p \in Int
    BY <1>1
<1>6. Lowest(-a[1], a[2]) = Lowest(-p, q)
    BY <1>1, <1>4, <1>5, SameLowest
<1> QED BY <1>3, <1>6 DEF a

LEMMA HalfIs == <<1, 2>> \in Rational /\ <<1, 2>> ++ <<1, 2>> = One
                /\ Zero \preceq <<1, 2>> /\ <<1, 2>> \preceq One
<1>1. 1 \in Whole /\ 2 \in Whole /\ 4 \in Whole
    BY DEF Whole
<1>2. Lowest(1, 2) = <<1, 2>>
    <2> DEFINE m == Lowest(1, 2)[1]
               k == Lowest(1, 2)[2]
    <2>1. Lowest(1, 2) = <<m, k>> /\ m \in Int /\ k \in Whole /\ m * 2 = 1 * k /\ Reduced(m, k)
        BY <1>1, LowestReduces
    <2> HIDE DEF m, k
    <2>2. k <= 2
        <3>1. 1 \in Int /\ 2 \in Whole /\ m * 2 = 1 * k
            BY <1>1, <2>1
        <3> QED BY <2>1, <3>1 DEF Reduced
    <2>3. k = 2 /\ m = 1
        BY <2>1, <2>2 DEF Whole
    <2> QED BY <2>1, <2>3
<1>3. <<1, 2>> \in Rational
    BY <1>1, <1>2, LowestIsRational
<1>4. <<1, 2>> ++ <<1, 2>> = One
    <2>1. <<1, 2>> ++ <<1, 2>> = Lowest(1 * 2 + 1 * 2, 2 * 2)
        BY <1>1, SumOfTerms
    <2>2. 1 * 2 + 1 * 2 = 4 /\ 2 * 2 = 4
        OBVIOUS
    <2>3. Lowest(4, 4) = Lowest(1, 1)
        <3>1. 4 \in Int /\ 4 \in Whole /\ 1 \in Int /\ 1 \in Whole /\ 4 * 1 = 1 * 4
            BY <1>1
        <3> QED BY <3>1, SameLowest
    <2> QED BY <2>1, <2>2, <2>3, Constants
<1>5. Zero \preceq <<1, 2>>
    BY <1>3, Signs
<1>6. <<1, 2>> \preceq One
    <2>1. 1 * 1 <= 1 * 2
        OBVIOUS
    <2> QED BY <1>3, <2>1, Comparison, Constants
<1> QED BY <1>3, <1>4, <1>5, <1>6

\* The size of a number that is not negative, and of one's mirror.
LEMMA SizeOf ==
    ASSUME NEW a \in Rational, Zero \preceq a
    PROVE  Abs(a) = a /\ Zero -- a \in Rational /\ Abs(Zero -- a) = a
<1>1. /\ a[1] \in Int /\ a[2] \in Whole /\ a[1] >= 0 /\ a = <<a[1], a[2]>>
      /\ Lowest(a[1], a[2]) = a
    BY Terms, Signs
<1>2. Zero -- a = Lowest(-a[1], a[2])
    <2> DEFINE p == a[1]
               q == a[2]
    <2>1. p \in Int /\ -p \in Int /\ q \in Whole /\ q \in Int /\ 1 \in Whole
        BY <1>1 DEF Whole
    <2>2. Zero -- a = <<0, 1>> ++ <<-p, q>>
        BY <1>1 DEF --, Zero, R
    <2> HIDE DEF p, q
    <2>3. <<0, 1>> ++ <<-p, q>> = Lowest(0 * q + (-p) * 1, 1 * q)
        BY <2>1, SumOfTerms
    <2>4. 0 * q + (-p) * 1 = -p /\ 1 * q = q
        BY <2>1
    <2> QED BY <2>2, <2>3, <2>4 DEF p, q
<1>3. Abs(a) = a
    BY <1>1 DEF Abs
<1>4. Abs(Zero -- a) = a
    <2>1. CASE a[1] > 0
        <3>1. -a[1] \in Int /\ -a[1] < 0 /\ -(-a[1]) = a[1]
            BY <1>1, <2>1
        <3>2. Abs(Lowest(-a[1], a[2])) = Lowest(-(-a[1]), a[2])
            BY <1>1, <3>1, AbsOfLowest
        <3> QED BY <1>1, <1>2, <3>1, <3>2
    <2>2. CASE ~(a[1] > 0)
        <3>1. -a[1] = a[1]
            BY <1>1, <2>2
        <3> QED BY <1>1, <1>2, <1>3, <3>1
    <2> QED BY <2>1, <2>2
<1>5. Zero -- a \in Rational
    BY Difference, Constants
<1> QED BY <1>3, <1>4, <1>5

-----------------------------------------------------------------------------
(* Parts of an amount, prices and distances *)

\* A close is a positive number, the quotient of two of them as well.
LEMMA CloseIsPositive ==
    ASSUME NEW p \in Nat \ {0}, NEW q \in Nat \ {0}
    PROVE  /\ R(p) \in Rational /\ Positive(R(p)) /\ R(p) # Zero
           /\ Q(p, q) \in Rational /\ Positive(Q(p, q))
           /\ R(q) ** Q(p, q) = R(p)
<1>1. p \in Int /\ q \in Int /\ q \in Whole /\ 1 \in Whole /\ ~(q < 0) /\ p > 0 /\ q > 0
    BY DEF Whole
<1>2. R(p) \in Rational /\ R(p)[1] = p /\ R(p) = Lowest(p, 1) /\ R(q) = Lowest(q, 1)
    BY <1>1, WholeIsRational
<1>3. Q(p, q) = Lowest(p, q)
    BY <1>1 DEF Q
<1>4. Lowest(p, q) \in Rational /\ Lowest(p, q)[1] > 0
    BY <1>1, LowestIsRational, LowestSign
<1>5. R(q) ** Q(p, q) = Lowest(q * p, 1 * q)
    BY <1>1, <1>2, <1>3, LowestProduct
<1>6. Lowest(q * p, 1 * q) = Lowest(p, 1)
    <2>1. (q * p) * 1 = p * (1 * q) /\ q * p \in Int /\ 1 * q \in Whole
        BY <1>1
    <2> QED BY <1>1, <2>1, SameLowest
<1> QED BY <1>1, <1>2, <1>3, <1>4, <1>5, <1>6, Signs DEF Positive

\* A weight, and what became of it.
LEMMA TermType ==
    ASSUME NEW w \in Rational, NEW r \in Rational
    PROVE  /\ r -- One \in Rational /\ w ** (r -- One) \in Rational /\ w ** r \in Rational
           /\ (w ** (r -- One)) ++ w = w ** r
<1>1. r -- One \in Rational /\ (r -- One) ++ One = r
    BY Difference, Constants
<1>2. w ** (r -- One) \in Rational /\ w ** r \in Rational
    BY <1>1, ProductType
<1>3. w ** r = (w ** (r -- One)) ++ (w ** One)
    BY <1>1, ProductDistributes, Constants
<1> QED BY <1>1, <1>2, <1>3, Neutral

\* A part and the rest make the whole.
LEMMA PartAndRest ==
    ASSUME NEW v \in Rational, NEW t \in Rational
    PROVE  /\ One -- t \in Rational /\ v ** t \in Rational /\ v ** (One -- t) \in Rational
           /\ (v ** t) ++ (v ** (One -- t)) = v
<1>1. One -- t \in Rational /\ (One -- t) ++ t = One
    BY Difference, Constants
<1>2. t ++ (One -- t) = One
    BY <1>1, SumCommutes
<1>3. v ** (t ++ (One -- t)) = (v ** t) ++ (v ** (One -- t))
    BY <1>1, ProductDistributes
<1> QED BY <1>1, <1>2, <1>3, Neutral, ProductType

LEMMA Apart ==
    ASSUME NEW a \in Rational, NEW b \in Rational, a \preceq b
    PROVE  /\ b -- a \in Rational /\ Zero \preceq b -- a
           /\ a # b => Positive(b -- a)
<1> DEFINE d == b -- a
<1>1. d \in Rational /\ d ++ a = b
    BY Difference
<1> HIDE DEF d
<1>2. Zero ++ a = a
    BY Neutral
<1>3. Zero \preceq d
    BY <1>1, <1>2, SumOrder, Constants
<1>4. d = Zero => a = b
    BY <1>1, <1>2
<1>5. a # b => Positive(d)
    BY <1>1, <1>3, <1>4, Signs, Ordered, Constants
<1> QED BY <1>1, <1>3, <1>5 DEF d

LEMMA PositiveAbove ==
    ASSUME NEW a \in Rational, NEW b \in Rational, Positive(a), a \preceq b
    PROVE  Positive(b)
<1>1. ASSUME b \preceq Zero PROVE a \preceq Zero
    BY <1>1, OrderedSteps, Constants
<1> QED BY <1>1, Signs

LEMMA ScaledBack ==
    ASSUME NEW a \in Rational, NEW b \in Rational, NEW c \in Rational, Positive(c),
           a ** c \preceq b ** c
    PROVE  a \preceq b
<1>1. c # Zero /\ Zero \preceq c
    BY Signs, Constants, Ordered
<1>2. SUFFICES ASSUME b \preceq a PROVE a = b
    BY Ordered
<1>3. b ** c \preceq a ** c /\ a ** c \in Rational /\ b ** c \in Rational
    BY <1>1, <1>2, ProductOrder, ProductType
<1>4. a ** c = b ** c
    BY <1>3, Ordered
<1> QED BY <1>1, <1>4, ProductCancels

LEMMA DifferenceScales ==
    ASSUME NEW a \in Rational, NEW b \in Rational, NEW v \in Rational
    PROVE  a -- b \in Rational /\ (a ** v) -- (b ** v) = (a -- b) ** v
<1>1. a -- b \in Rational /\ (a -- b) ++ b = a
    BY Difference
<1> DEFINE d == a -- b
<1>2. d \in Rational /\ d ++ b = a
    BY <1>1
<1> HIDE DEF d
<1>3. d ** v \in Rational /\ b ** v \in Rational /\ a ** v \in Rational
    BY <1>2, ProductType
<1>4. v ** (d ++ b) = (v ** d) ++ (v ** b)
    BY <1>2, ProductDistributes
<1>5. v ** (d ++ b) = a ** v /\ v ** d = d ** v /\ v ** b = b ** v
    BY <1>2, ProductCommutes
<1>6. (d ** v) ++ (b ** v) = a ** v
    BY <1>4, <1>5
<1>7. (a ** v) -- (b ** v) = d ** v
    BY <1>3, <1>6, DifferenceIs
<1> QED BY <1>1, <1>7 DEF d

LEMMA QuotientScales ==
    ASSUME NEW a \in Rational, NEW n \in Rational, n # Zero, NEW y \in Rational
    PROVE  /\ a // n \in Rational /\ (a // n) ** y \in Rational
           /\ (a // n) ** y = (a ** y) // n
<1> DEFINE q == a // n
<1>1. q \in Rational /\ q ** n = a
    BY Quotient
<1> HIDE DEF q
<1>2. q ** y \in Rational /\ a ** y \in Rational
    BY <1>1, ProductType
<1>3. (q ** y) ** n = (q ** n) ** y
    BY <1>1, SwapFactors
<1>4. (a ** y) // n = q ** y
    BY <1>1, <1>2, <1>3, QuotientIs
<1> QED BY <1>1, <1>2, <1>4 DEF q

LEMMA DistanceBound ==
    ASSUME NEW a \in Rational, NEW b \in Rational, Zero \preceq a, Zero \preceq b
    PROVE  Abs(a -- b) \preceq a ++ b
<1> DEFINE d == a -- b
           e == b -- a
<1>1. d \in Rational /\ d ++ b = a /\ e \in Rational /\ e ++ a = b
    BY Difference
<1> HIDE DEF d, e
<1>2. a \preceq a ++ b /\ b \preceq a ++ b /\ a ++ b \in Rational
    <2>1. Zero ++ a = a /\ Zero ++ b = b /\ a ++ b = b ++ a
        BY Neutral, SumCommutes
    <2>2. Zero ++ a \preceq b ++ a /\ Zero ++ b \preceq a ++ b
        BY SumOrder, Constants
    <2> QED BY <2>1, <2>2, SumType
<1>3. CASE Zero \preceq d
    <2>1. Abs(d) = d
        BY <1>1, <1>3, SizeOf
    <2>2. d \preceq a
        <3>1. Zero ++ d \preceq b ++ d
            BY <1>1, SumOrder, Constants
        <3> QED BY <1>1, <3>1, Neutral, SumCommutes
    <2>3. d \preceq a ++ b
        BY <1>1, <1>2, <2>2, OrderedSteps
    <2> QED BY <2>1, <2>3 DEF d
<1>4. CASE ~(Zero \preceq d)
    <2>1. d ++ e = Zero
        <3>1. (d ++ e) ++ a = Zero ++ a
            <4>1. (d ++ e) ++ a = d ++ (e ++ a)
                BY <1>1, SumAssociates
            <4> QED BY <1>1, <4>1, Neutral
        <3>2. d ++ e \in Rational
            BY <1>1, SumType
        <3> QED BY <3>1, <3>2, SumCancels, Constants
    <2>2. Zero \preceq e
        <3>1. d \preceq Zero
            BY <1>1, <1>4, Ordered, Constants
        <3>2. d ++ e \preceq Zero ++ e
            BY <1>1, <3>1, SumOrder, Constants
        <3> QED BY <1>1, <2>1, <3>2, Neutral
    <2>3. d = Zero -- e
        <3>1. Zero -- e = d
            BY <1>1, <2>1, DifferenceIs, Constants
        <3> QED BY <3>1
    <2>4. Abs(d) = e
        BY <1>1, <2>2, <2>3, SizeOf
    <2>5. e \preceq b
        <3>1. Zero ++ e \preceq a ++ e
            BY <1>1, SumOrder, Constants
        <3> QED BY <1>1, <3>1, Neutral, SumCommutes
    <2>6. e \preceq a ++ b
        BY <1>1, <1>2, <2>5, OrderedSteps
    <2> QED BY <2>4, <2>6 DEF d
<1> QED BY <1>3, <1>4
=============================================================================
