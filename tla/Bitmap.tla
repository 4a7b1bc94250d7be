------------------------------- MODULE Bitmap -------------------------------
(***************************************************************************)
(* The bitmaps of src/pintos/src/lib/kernel/bitmap.c: bit_cnt bits packed  *)
(* into elements of ELEM_BITS bits.  An ASSERT of the code is the only arm *)
(* of a CASE: TLC stops where it would fail.                               *)
(***************************************************************************)
EXTENDS Integers, Sequences, SequencesExt, FiniteSets, Bitwise

CONSTANTS ELEM_BITS,        \* 32 in the code
          SizeofElem,       \* bytes of an element
          SizeofBitmap      \* bytes of struct bitmap

BITMAP_ERROR == -1

elem_idx(bit_idx) == bit_idx \div ELEM_BITS
bit_mask(bit_idx) == 2 ^ (bit_idx % ELEM_BITS)
elem_cnt(bit_cnt) == (bit_cnt + ELEM_BITS - 1) \div ELEM_BITS
byte_cnt(bit_cnt) == SizeofElem * elem_cnt(bit_cnt)
last_mask(b) == 2 ^ (IF b.bit_cnt % ELEM_BITS = 0 THEN ELEM_BITS ELSE b.bit_cnt % ELEM_BITS) - 1
bitmap_buf_size(bit_cnt) == SizeofBitmap + byte_cnt(bit_cnt)
bitmap_size(b) == b.bit_cnt

bitmap_mark(b, i) == [b EXCEPT !.bits[elem_idx(i)] = @ | bit_mask(i)]
bitmap_reset(b, i) == [b EXCEPT !.bits[elem_idx(i)] = @ & (2 ^ ELEM_BITS - 1 - bit_mask(i))]
bitmap_flip(b, i) == [b EXCEPT !.bits[elem_idx(i)] = @ ^^ bit_mask(i)]

bitmap_set(b, i, value) ==
  CASE i < b.bit_cnt -> IF value THEN bitmap_mark(b, i) ELSE bitmap_reset(b, i)

bitmap_test(b, i) == CASE i < b.bit_cnt -> (b.bits[elem_idx(i)] & bit_mask(i)) # 0

bitmap_set_multiple(b, start, cnt, value) ==
  CASE start + cnt <= b.bit_cnt ->
    FoldLeft(LAMBDA m, i : bitmap_set(m, start + i - 1, value), b, [i \in 1 .. cnt |-> i])

bitmap_set_all(b, value) == bitmap_set_multiple(b, 0, bitmap_size(b), value)

bitmap_count(b, start, cnt, value) ==
  CASE start + cnt <= b.bit_cnt ->
    Cardinality({i \in start .. start + cnt - 1 : bitmap_test(b, i) = value})

bitmap_contains(b, start, cnt, value) ==
  CASE start + cnt <= b.bit_cnt -> \E i \in start .. start + cnt - 1 : bitmap_test(b, i) = value

bitmap_any(b, start, cnt) == bitmap_contains(b, start, cnt, TRUE)
bitmap_none(b, start, cnt) == ~bitmap_contains(b, start, cnt, TRUE)
bitmap_all(b, start, cnt) == ~bitmap_contains(b, start, cnt, FALSE)

\* The first of the groups of cnt bits that all have the value.
bitmap_scan(b, start, cnt, value) ==
  LET groups == {i \in start .. b.bit_cnt - cnt : ~bitmap_contains(b, i, cnt, ~value)}
  IN  CASE start <= b.bit_cnt ->
        IF cnt > b.bit_cnt \/ groups = {} THEN BITMAP_ERROR
        ELSE CHOOSE i \in groups : \A j \in groups : i <= j

\* The bitmap after the call, and the index returned.
bitmap_scan_and_flip(b, start, cnt, value) ==
  LET idx == bitmap_scan(b, start, cnt, value)
  IN  [map |-> IF idx # BITMAP_ERROR THEN bitmap_set_multiple(b, idx, cnt, ~value) ELSE b,
       idx |-> idx]

\* A bitmap over storage whose bits are not known.
bitmap_create_in_buf(bit_cnt, garbage, block_size) ==
  CASE block_size >= bitmap_buf_size(bit_cnt) ->
    bitmap_set_all([bit_cnt |-> bit_cnt, bits |-> [i \in 0 .. elem_cnt(bit_cnt) - 1 |-> garbage]],
                   FALSE)

\* bitmap_read: the elements come from the file, the bits past the end are masked off.
bitmap_read(b, elems) ==
  LET last == elem_cnt(b.bit_cnt) - 1
  IN  IF b.bit_cnt = 0 THEN b ELSE [b EXCEPT !.bits = [elems EXCEPT ![last] = @ & last_mask(b)]]

----------------------------------------------------------------------------
\* A bitmap against the set S of its bits that are true.

BitsOf(b) == {i \in 0 .. b.bit_cnt - 1 : bitmap_test(b, i)}

\* The bitmap of n bits for S, in storage that held ones.
BitmapOf(n, S) ==
  LET blank == bitmap_create_in_buf(n, 2 ^ ELEM_BITS - 1, bitmap_buf_size(n))
  IN  FoldLeft(LAMBDA b, i : IF i - 1 \in S THEN bitmap_set(b, i - 1, TRUE) ELSE b, blank,
               [i \in 1 .. n |-> i])

\* Every question about cnt bits from start on is answered from S, a group of bits that is
\* found is the first and is flipped as a whole (of no bits, only from the start of the
\* bitmap on), and elements read from a file give their bits back
\* whatever is behind the last one.
BitmapRight(n, S, start, cnt, value) ==
  LET b == BitmapOf(n, S)
      range == start .. start + cnt - 1
      Has(i, v) == (i \in S) = v
      fits == {i \in start .. n - cnt : \A j \in i .. i + cnt - 1 : Has(j, value)}
      r == bitmap_scan_and_flip(b, start, cnt, value)
      flipped == r.idx .. r.idx + cnt - 1
      dirty == [b.bits EXCEPT ![elem_cnt(n) - 1] = @ | (2 ^ ELEM_BITS - 1 - last_mask(b))]
  IN  /\ BitsOf(b) = S
      /\ bitmap_count(b, start, cnt, value) = Cardinality({i \in range : Has(i, value)})
      /\ bitmap_any(b, start, cnt) = (range \intersect S # {})
      /\ bitmap_none(b, start, cnt) = (range \intersect S = {})
      /\ bitmap_all(b, start, cnt) = (range \subseteq S)
      /\ start < n => BitsOf(bitmap_flip(b, start)) = (S \ {start}) \union ({start} \ S)
      /\ BitsOf(bitmap_set_multiple(b, start, cnt, value)) = (S \ range) \union (IF value THEN range ELSE {})
      /\ IF cnt = 0 /\ start > 0 THEN r.map = b
         ELSE IF fits = {} THEN r = [map |-> b, idx |-> BITMAP_ERROR]
         ELSE /\ r.idx \in fits /\ \A i \in fits : r.idx <= i
              /\ BitsOf(r.map) = (S \ flipped) \union (IF value THEN {} ELSE flipped)
      /\ BitsOf(bitmap_read(BitmapOf(n, {}), dirty)) = S
=============================================================================
