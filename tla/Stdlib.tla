------------------------------- MODULE Stdlib -------------------------------
(***************************************************************************)
(* src/pintos/src/lib/stdlib.c (atoi, heapsort, binary search) and         *)
(* src/pintos/src/lib/arithmetic.c (64-bit division out of a 32-bit divide *)
(* instruction), in words of W bits and double words of 2 * W bits.        *)
(***************************************************************************)
EXTENDS Integers, Sequences, SequencesExt, FiniteSetsExt, Folds

CONSTANT W           \* bits of a word (32 in the code); a power of 2

WordSize == 2^W
DoubleSize == 2^(2 * W)

\* A double word read as a signed number, and back.
AsSigned(u) == IF u < DoubleSize \div 2 THEN u ELSE u - DoubleSize

AsUnsigned(v) == v % DoubleSize

\* The divide instruction: it traps unless the quotient fits in a word (the CASE has no
\* other arm).
divl(n, d) == CASE d # 0 /\ n \div d < WordSize -> n \div d

\* Leading zeros of a nonzero word: the upper half is tested and shifted out, then the
\* upper quarter, and so on.
nlz(x) ==
  LET Step(s, half) ==
        IF s.x < 2^(W - half) THEN [n |-> s.n + half, x |-> (s.x * 2^half) % WordSize] ELSE s
  IN  FoldLeft(Step, [n |-> 0, x |-> x],
               SetToSortSeq({2^k : k \in {j \in 0 .. W : 2^j < W}}, >)).n

udiv64(n, d) ==
  LET n1 == n \div WordSize
      n0 == n % WordSize
      s == nlz(d \div WordSize)
      q == divl(n \div 2, ((d * 2^s) % DoubleSize) \div WordSize) \div 2^(W - 1 - s)
  IN  IF d \div WordSize = 0
        THEN divl(WordSize * (n1 % d) + n0, d) + WordSize * (n1 \div d)
      ELSE IF n < d THEN 0
      ELSE IF (n - (q - 1) * d) % DoubleSize < d THEN q - 1 ELSE q

\* The remainder is returned in one word.
umod64(n, d) == (n - d * udiv64(n, d)) % WordSize

\* On signed double words.
sdiv64(n, d) ==
  LET Abs(v) == AsUnsigned(IF v >= 0 THEN v ELSE -v)
      q_abs == AsSigned(udiv64(Abs(n), Abs(d)))
  IN  AsSigned(AsUnsigned(IF (n < 0) = (d < 0) THEN q_abs ELSE -q_abs))

\* In one signed word.
smod64(n, d) ==
  LET r == (n - d * sdiv64(n, d)) % WordSize
  IN  IF r < WordSize \div 2 THEN r ELSE r - WordSize

----------------------------------------------------------------------------
\* stdlib.c.  Characters are one-character strings.

Digits == <<"0", "1", "2", "3", "4", "5", "6", "7", "8", "9">>
IsDigit(c) == c \in Range(Digits)
DigitValue(c) == (CHOOSE i \in DOMAIN Digits : Digits[i] = c) - 1

Ints == -(DoubleSize \div 2) .. DoubleSize \div 2 - 1

\* A signed result that does not fit is undefined: any value may come out.
Outcomes(v) == IF v \in Ints THEN {v} ELSE Ints

\* The values atoi may return: the digits are accumulated as a negative number.
atoi(s) ==
  LET Skip == Min({i \in 1 .. Len(s) + 1 : i > Len(s) \/ s[i] # " "})
      signed == Skip <= Len(s) /\ s[Skip] \in {"+", "-"}
      from == IF signed THEN Skip + 1 ELSE Skip
      to == Min({i \in from .. Len(s) + 1 : i > Len(s) \/ ~IsDigit(s[i])}) - 1
      Accumulate(values, c) == UNION {Outcomes(v * 10 - DigitValue(c)) : v \in values}
      values == FoldLeft(Accumulate, {0}, SubSeq(s, from, to))
  IN  IF signed /\ s[Skip] = "-" THEN values ELSE UNION {Outcomes(-v) : v \in values}

\* Elements are integers, compared as such; indexes start at 1 in the code as well.
do_swap(array, a_idx, b_idx) == [array EXCEPT ![a_idx] = array[b_idx], ![b_idx] = array[a_idx]]

do_compare(array, a_idx, b_idx) == array[a_idx] - array[b_idx]

RECURSIVE heapify(_, _, _)
heapify(array, i, cnt) ==
  LET Larger(j, max) == IF j <= cnt /\ do_compare(array, j, max) > 0 THEN j ELSE max
      max == Larger(2 * i + 1, Larger(2 * i, i))
  IN  IF max = i THEN array ELSE heapify(do_swap(array, i, max), max, cnt)

sort(array, cnt) ==
  LET heap == FoldLeft(LAMBDA a, k : heapify(a, cnt \div 2 + 1 - k, cnt), array,
                       [k \in 1 .. cnt \div 2 |-> k])
      Extract(a, k) == heapify(do_swap(a, 1, cnt + 1 - k), 1, cnt - k)
  IN  FoldLeft(Extract, heap, [k \in 1 .. cnt - 1 |-> k])

\* The index of a match between first (included) and last (excluded), 0 for none.
RECURSIVE binary_search(_, _, _, _)
binary_search(key, array, first, last) ==
  LET middle == first + (last - first) \div 2
  IN  IF first >= last THEN 0
      ELSE IF key < array[middle] THEN binary_search(key, array, first, middle)
      ELSE IF key > array[middle] THEN binary_search(key, array, middle + 1, last)
      ELSE middle

----------------------------------------------------------------------------
\* What they should compute.

\* Division by d of every n: the quotient is exact, and so is a remainder that fits in the
\* word it is returned in, as every remainder by a divisor of one word does.
UnsignedRight(d) ==
  \A n \in 0 .. DoubleSize - 1 :
    udiv64(n, d) = n \div d /\ (n % d < WordSize => umod64(n, d) = n % d)

\* Towards zero, as C has it, for a signed divisor.  The one quotient that does not fit
\* wraps around.
SignedRight(d) ==
  LET Mag(v) == IF v < 0 THEN -v ELSE v
      Truncated(n) == IF (n < 0) = (d < 0) THEN Mag(n) \div Mag(d) ELSE -(Mag(n) \div Mag(d))
      half == WordSize \div 2
  IN  \A n \in Ints :
        LET r == n - d * Truncated(n)
        IN  /\ sdiv64(n, d) = AsSigned(AsUnsigned(Truncated(n)))
            /\ r \in -half .. half - 1 => smod64(n, d) = r

\* The decimal notation of a number, after sign and white space.
RECURSIVE Decimal(_)
Decimal(n) == IF n < 10 THEN <<Digits[n + 1]>> ELSE Append(Decimal(n \div 10), Digits[(n % 10) + 1])

AtoiRight(v) ==
  LET text == Decimal(IF v < 0 THEN -v ELSE v)
      Written == IF v < 0 THEN {<<"-">> \o text} ELSE {text, <<"+">> \o text}
  IN  \A s \in Written : \A before \in {<<>>, <<" ">>}, after \in {<<>>, <<"x", "1">>} :
        atoi(before \o s \o after) = {v}

SortRight(array) ==
  LET sorted == sort(array, Len(array))
  IN  /\ \A i \in 1 .. Len(array) - 1 : sorted[i] <= sorted[i + 1]
      /\ \A v \in Range(array) :
           Cardinality({i \in DOMAIN array : array[i] = v})
             = Cardinality({i \in DOMAIN sorted : sorted[i] = v})
      /\ \A key \in 0 .. 3 :
           LET at == binary_search(key, sorted, 1, Len(sorted) + 1)
           IN  IF key \in Range(array) THEN sorted[at] = key ELSE at = 0
=============================================================================
