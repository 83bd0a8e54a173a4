-------------------------------- MODULE DFT --------------------------------
(***************************************************************************)
(* The plan of a discrete Fourier transform of length n that KCFTracker    *)
(* computes on the CPU and hands to the GPU kernels: the factors of n      *)
(* (DFTFactorize) and the order in which the kernels read their input      *)
(* (DFTInit, the table itab).  The twiddle factors wave[] are floating     *)
(* point constants and are left out.                                       *)
(***************************************************************************)
EXTENDS Integers, Sequences, FiniteSets, SequencesExt, FiniteSetsExt

\* The largest power of two that divides n: (((n - 1) ^ n) + 1) >> 1.
LowestBit(n) == Max({2 ^ k : k \in {i \in 0 .. 8 : n % (2 ^ i) = 0}})

\* The odd factors of n in ascending order, by trial division from 3.
OddFactors(n) ==
    LET trial[left \in 1 .. n, f \in 3 .. n + 4] ==
            IF left = 1 THEN <<>>
            ELSE IF left % f = 0 THEN <<f>> \o trial[left \div f, f]
            ELSE IF (f + 2) * (f + 2) > left THEN <<left>>
            ELSE trial[left, f + 2]
    IN  trial[n, 3]

\* The power of two first, then the odd factors, the largest of them first.
DFTFactorize(n) ==
    LET f   == LowestBit(n)
        odd == Reverse(OddFactors(n \div f))
    IN  IF n <= 5 THEN <<n>>
        ELSE IF f > 1 THEN <<f>> \o odd
        ELSE odd

\* radix[i] is the product of the factors after the i-th one.
Radix(factors) ==
    [i \in 0 .. Len(factors) |->
        FoldSeq(LAMBDA f, r : f * r, 1, SubSeq(factors, i + 1, Len(factors)))]

\* The entries of the first factor, a power of two: four at a time, from a
\* table of reversed bytes that is shifted to the bits i \div 4 has.
BitRev(i, bits) ==
    SumSet({2 ^ (bits - 1 - k) : k \in {b \in 0 .. bits - 1 : (i \div (2 ^ b)) % 2 = 1}})

FirstBlock(n, a) ==
    LET na2 == (n * a) \div 2
        na4 == na2 \div 2
        m   == CHOOSE k \in 0 .. 8 : 2 ^ k = n
    IN  IF n = 2 THEN [i \in 0 .. 1 |-> i * na2]
        ELSE [i \in 0 .. n - 1 |->
                BitRev(i \div 4, m - 2) * a + CASE i % 4 = 0 -> 0
                                                [] i % 4 = 1 -> na2
                                                [] i % 4 = 2 -> na4
                                                [] i % 4 = 3 -> na2 + na4]

\* One step of the counter whose digits are based on the factors from the
\* first on: the digits that overflow are cleared and j is corrected.
Count(s, factors, first) ==
    LET radix == Radix(factors)
        k     == Min({i \in first .. Len(factors) :
                        i = Len(factors) \/ s.digits[i] + 1 < factors[i + 1]})
    IN  [digits |-> [i \in DOMAIN s.digits |->
                        IF i < k THEN 0 ELSE IF i = k THEN s.digits[i] + 1 ELSE s.digits[i]],
         j      |-> s.j + radix[first + 1]
                      + FoldSet(LAMBDA i, sum : sum + radix[i + 2] - radix[i],
                                              0, first .. k - 1)]

\* The read order of a transform of length n0: short lengths have a table of
\* their own; an even length repeats its first block shifted by the counter,
\* an odd one takes the counter itself.
DFTInit(n0, factors) ==
    LET n     == factors[1]
        radix == Radix(factors)
        even  == n % 2 = 0
        first == IF even THEN 1 ELSE 0
        size  == IF even THEN n ELSE 1
        block == IF even THEN FirstBlock(n, radix[1]) ELSE [i \in {0} |-> 0]
        count[b \in 0 .. (n0 \div size) - 1] ==
            IF b = 0 THEN [digits |-> [i \in 0 .. Len(factors) |-> 0], j |-> 0]
            ELSE Count(count[b - 1], factors, first)
    IN  IF n0 <= 5 /\ n0 # 4 THEN [i \in 0 .. n0 - 1 |-> i]
        ELSE IF n0 = 4 THEN [i \in 0 .. 3 |-> CASE i = 1 -> 2 [] i = 2 -> 1 [] OTHER -> i]
        ELSE [i \in 0 .. n0 - 1 |-> block[i % size] + count[i \div size].j]

Plan(n) == LET factors == DFTFactorize(n)
           IN  [length |-> n, factors |-> factors, itab |-> DFTInit(n, factors)]

\* What the table must be: the factors multiply to n, and position i, written
\* with a digit per prime of the power of two and per odd factor, the fastest
\* first, holds the number with these digits reversed.
DigitReversal(plan) ==
    LET n     == plan.length
        f     == plan.factors[1]
        twos  == IF f \in {2 ^ k : k \in 1 .. 8}
                 THEN [k \in 1 .. CHOOSE e \in 1 .. 8 : 2 ^ e = f |-> 2] ELSE <<f>>
        base  == twos \o Tail(plan.factors)
        Product(s) == FoldSeq(LAMBDA a, b : a * b, 1, s)
        below == [k \in DOMAIN base |-> Product(SubSeq(base, 1, k - 1))]
    IN  /\ Product(plan.factors) = n
        /\ \A i \in 0 .. n - 1 :
             plan.itab[i] =
                FoldSet(LAMBDA k, sum : sum + ((i \div below[k]) % base[k])
                                                * (n \div (below[k] * base[k])),
                        0, DOMAIN base)
=============================================================================
