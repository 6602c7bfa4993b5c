----------------------------- MODULE SampleRate -----------------------------
(***************************************************************************)
(* Sample rates as miniSEED 2 writes them (pack.c, unpack.c): a factor and *)
(* a multiplier of 16 bits.  A rate is a fraction <<p, q>> in lowest terms, *)
(* in samples a second.                                                    *)
(***************************************************************************)
EXTENDS Integers, FiniteSetsExt

CONSTANTS
    MaxFactor,   \* 32767 in the code
    Precise,     \* of ms_ratapprox(): one part in 10^8
    Different    \* of the test for a blockette 100: one part in 10^4

ASSUME RateAssumption ==
    /\ MaxFactor \in Nat /\ MaxFactor >= 15 \* a search starts at 3 at least
    /\ Precise \in Nat \ {0} /\ Different \in Nat \ {0}

Abs(n) == IF n < 0 THEN -n ELSE n
GCD(a, b) == Max({d \in 1..Max({a, b}) : a % d = 0 /\ b % d = 0})
Lowest(p, q, d) == <<p \div d, q \div d>>
Ratio(p, q) == IF p = 0 THEN <<0, 1>> ELSE Lowest(p, q, GCD(p, q))
NoRate == <<0, 1>>
Reciprocal(rate) == <<rate[2], rate[1]>>
\* | r - t | > 1 / parts
Apart(r, t, parts) == Abs(r[1] * t[2] - t[1] * r[2]) * parts > r[2] * t[2]

-----------------------------------------------------------------------------
\* ms_ratapprox(): continued fractions; `rest' is the fraction still to be
\* expanded, a and b the last convergent, a1 and b1 the one before it.
IntPart(r) == (r[1] * Precise + r[2]) \div (r[2] * Precise)
RatApprox(rate) ==
    LET converge[rest \in Int \X Int, a \in Int, b \in Int, a1 \in Int, b1 \in Int] ==
            IF Apart(rate, <<a, b>>, Precise) /\ a < MaxFactor /\ b < MaxFactor
            THEN converge[<<rest[2], rest[1] - IntPart(rest) * rest[2]>>,
                          IntPart(rest) * a + a1, IntPart(rest) * b + b1, a, b]
            ELSE IF b1 = 0 \/ (a < MaxFactor /\ b < MaxFactor) THEN <<a, b>> ELSE <<a1, b1>>
    IN  converge[<<rate[2], rate[1] - IntPart(rate) * rate[2]>>, IntPart(rate), 1, 1, 0]

\* The two factors of an integer rate: the first divisor from the root on
\* down, or the closest factor before the other one gets too large.
SearchFactor(rate, root) ==
    LET search[factor \in Nat, closest \in Nat, least \in Nat] ==
            IF rate % factor = 0 THEN factor
            ELSE LET f    == factor - 1
                     diff == rate % f
                     best == IF diff < least THEN f ELSE closest
                 IN  IF rate \div (f - 1) > MaxFactor THEN best
                     ELSE search[f, best, Min({diff, least})]
    IN  search[root, root, root]

Root(n) == Max({x \in 0..n : x * x <= n})

NoFactors == <<>>

TwoFactors(rate, f) ==
    IF f <= MaxFactor /\ rate \div f <= MaxFactor THEN <<f, rate \div f>> ELSE NoFactors
FactorsFrom(rate, root) == TwoFactors(rate, SearchFactor(rate, root))

\* ms_reduce_rate(), of a rate of 1 or more.
ReduceRate(rate) ==
    IF rate[2] = 1
    THEN IF rate[1] <= MaxFactor THEN <<rate[1], 1>>
         ELSE IF rate[1] > MaxFactor * MaxFactor THEN NoFactors
         ELSE FactorsFrom(rate[1], Root(rate[1]))
    ELSE IF rate[1] <= MaxFactor * rate[2]
         THEN LET r == RatApprox(rate) IN <<r[1], -r[2]>>
         ELSE NoFactors

\* ms_genfactmult(): rates below one are written as periods.
Negated(r) == IF r = NoFactors THEN NoFactors ELSE <<-r[1], -r[2]>>
GenFactMult(rate) ==
    IF rate[1] = 0 THEN <<0, 0>>
    ELSE IF rate[1] >= rate[2] THEN ReduceRate(rate)
    ELSE Negated(ReduceRate(Reciprocal(rate)))

\* ms_nomsamprate().
NomSampRate(factor, multiplier) ==
    LET p == (IF factor > 0 THEN factor ELSE 1) * (IF multiplier > 0 THEN multiplier ELSE 1)
        q == (IF factor < 0 THEN -factor ELSE 1) * (IF multiplier < 0 THEN -multiplier ELSE 1)
    IN  IF factor = 0 THEN NoRate ELSE Ratio(p, q)
=============================================================================
