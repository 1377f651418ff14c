-------------------------------- MODULE Ratio --------------------------------
(***************************************************************************)
(* Exact fractions <<p, q>>, q > 0, in lowest terms.  The analysis computes *)
(* in floating point; the identities its comments and warnings speak of    *)
(* ("reproduces exactly, up to float noise") are stated over these.        *)
(***************************************************************************)
EXTENDS Integers, Sequences

gcd[c \in Int \X Nat] == IF c[2] = 0 THEN c[1] ELSE gcd[<<c[2], c[1] % c[2]>>]
Lowest(p, q) == LET d == gcd[<<p, q>>] IN <<p \div d, q \div d>>

Rational == {a \in Int \X (Nat \ {0}) : Lowest(a[1], a[2]) = a}

Q(p, q) == IF q < 0 THEN Lowest(-p, -q) ELSE Lowest(p, q)

R(n) == <<n, 1>>
Zero == R(0)
One == R(1)

a ++ b == LET g == gcd[<<a[2], b[2]>>]
           IN  Lowest(a[1] * (b[2] \div g) + b[1] * (a[2] \div g), a[2] * (b[2] \div g))
a -- b == a ++ <<-b[1], b[2]>>
a ** b == LET x == Lowest(a[1], b[2])  y == Lowest(b[1], a[2])
           IN  Lowest(x[1] * y[1], x[2] * y[2])
a // b == a ** (IF b[1] < 0 THEN <<-b[2], -b[1]>> ELSE <<b[2], b[1]>>)

\* Compared over the least common denominator.
Widened(a, b) == a[1] * (b[2] \div gcd[<<a[2], b[2]>>])
a \preceq b == Widened(a, b) <= Widened(b, a)
a \prec b == Widened(a, b) < Widened(b, a)
Positive(a) == a[1] > 0
Least(a, b) == IF a \preceq b THEN a ELSE b
Greatest(a, b) == IF a \preceq b THEN b ELSE a
Abs(a) == IF a[1] < 0 THEN <<-a[1], a[2]>> ELSE a

\* a to the power n, n a natural number.
Power(a, n) == LET f[k \in Nat] == IF k = 0 THEN One ELSE a ** f[k - 1] IN f[n]

\* The sum of f over the domain of a sequence.
SumOf(s) == LET f[k \in 0 .. Len(s)] == IF k = 0 THEN Zero ELSE f[k - 1] ++ s[k] IN f[Len(s)]
=============================================================================
