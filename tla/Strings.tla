------------------------------ MODULE Strings -------------------------------
(***************************************************************************)
(* The functions of src/pintos/src/lib/string.c.  Memory m maps addresses  *)
(* 0 .. n - 1 to bytes; a pointer is an address, a string ends before the  *)
(* first 0.  A function that writes yields the memory it leaves.           *)
(***************************************************************************)
EXTENDS Integers, Sequences, SequencesExt, FiniteSetsExt

\* The null pointer, which is no address.
Null == -1

\* The least element of S, Null if it is empty: where a forward search ends.
FirstOf(S) == IF S = {} THEN Null ELSE Min(S)

Numbers(n) == [i \in 1 .. n |-> i]

strlen(m, s) == Min({i \in DOMAIN m : i >= s /\ m[i] = 0}) - s

strnlen(m, s, maxlen) ==
  Min({i \in 0 .. maxlen : i = maxlen \/ (s + i \in DOMAIN m /\ m[s + i] = 0)})

memcmp(m, a, b, size) ==
  LET d == FirstOf({i \in 0 .. size - 1 : m[a + i] # m[b + i]})
  IN  IF d = Null THEN 0 ELSE IF m[a + d] > m[b + d] THEN 1 ELSE -1

strcmp(m, a, b) ==
  LET shorter == Min({strlen(m, a), strlen(m, b)})
      d == Min({i \in 0 .. shorter : m[a + i] = 0 \/ m[a + i] # m[b + i]})
  IN  IF m[a + d] < m[b + d] THEN -1 ELSE IF m[a + d] > m[b + d] THEN 1 ELSE 0

memchr(m, block, ch, size) == FirstOf({i \in block .. block + size - 1 : m[i] = ch})

\* The terminator counts as part of the string.
strchr(m, s, c) == FirstOf({i \in s .. s + strlen(m, s) : m[i] = c})

\* Here it does not.
strrchr(m, s, c) ==
  LET hits == {i \in s .. s + strlen(m, s) - 1 : m[i] = c}
  IN  IF hits = {} THEN Null ELSE Max(hits)

strcspn(m, s, stop) ==
  Min({i \in 0 .. strlen(m, s) : m[s + i] = 0 \/ strchr(m, stop, m[s + i]) # Null})

strspn(m, s, skip) ==
  Min({i \in 0 .. strlen(m, s) : m[s + i] = 0 \/ strchr(m, skip, m[s + i]) = Null})

strpbrk(m, s, stop) ==
  FirstOf({i \in s .. s + strlen(m, s) - 1 : strchr(m, stop, m[i]) # Null})

strstr(m, haystack, needle) ==
  LET n == strlen(m, needle)
  IN  FirstOf({i \in haystack .. haystack + strlen(m, haystack) - n :
                 memcmp(m, i, needle, n) = 0})

\* Copies the bytes one by one, upwards.
memcpy(m, dst, src, size) ==
  FoldLeft(LAMBDA w, i : [w EXCEPT ![dst + i - 1] = w[src + i - 1]], m, Numbers(size))

\* Upwards when the destination is below the source, else downwards: the memory after the
\* call, and the pointer returned, which has moved with the bytes.
memmove(m, dst, src, size) ==
  LET Down(w, i) == [w EXCEPT ![dst + size - i] = w[src + size - i]]
  IN  IF dst < src THEN [m |-> memcpy(m, dst, src, size), ret |-> dst + size]
      ELSE [m |-> FoldLeft(Down, m, Numbers(size)), ret |-> dst]

\* The memory after the call, and the length returned.
strlcpy(m, dst, src, size) ==
  LET src_len == strlen(m, src)
      dst_len == Min({size - 1, src_len})
  IN  [m |-> IF size = 0 THEN m ELSE [memcpy(m, dst, src, dst_len) EXCEPT ![dst + dst_len] = 0],
       ret |-> src_len]

strlcat(m, dst, src, size) ==
  LET src_len == strlen(m, src)
      dst_len == strlen(m, dst)
      copy_cnt == Min({size - dst_len - 1, src_len})
  IN  [m |-> IF size > 0 /\ dst_len < size
               THEN [memcpy(m, dst + dst_len, src, copy_cnt) EXCEPT ![dst + dst_len + copy_cnt] = 0]
               ELSE m,
       ret |-> src_len + dst_len]

\* Mutant: the byte after the token is not skipped on the next call.
strtok_r_no_skip(m, s, delimiters, save_ptr) ==
  LET from == IF s = Null THEN save_ptr ELSE s
      token == Min({i \in from .. from + strlen(m, from) :
                      m[i] = 0 \/ strchr(m, delimiters, m[i]) = Null})
      end == Min({i \in token .. token + strlen(m, token) : strchr(m, delimiters, m[i]) # Null})
  IN  IF m[token] = 0 THEN [m |-> m, token |-> Null, save |-> token]
      ELSE [m |-> [m EXCEPT ![end] = 0], token |-> token, save |-> end]

\* The memory, the token and *save_ptr after the call.  strchr finds the terminator in
\* any string of delimiters.
strtok_r(m, s, delimiters, save_ptr) ==
  LET from == IF s = Null THEN save_ptr ELSE s
      token == Min({i \in from .. from + strlen(m, from) :
                      m[i] = 0 \/ strchr(m, delimiters, m[i]) = Null})
      end == Min({i \in token .. token + strlen(m, token) : strchr(m, delimiters, m[i]) # Null})
  IN  IF m[token] = 0 THEN [m |-> m, token |-> Null, save |-> token]
      ELSE IF m[end] # 0 THEN [m |-> [m EXCEPT ![end] = 0], token |-> token, save |-> end + 1]
      ELSE [m |-> m, token |-> token, save |-> end]

----------------------------------------------------------------------------
\* Strings as sequences of bytes other than 0.

\* Memory with the strings of a sequence one after the other.
Stored(strings) ==
  LET bytes == FoldLeft(LAMBDA b, s : b \o s \o <<0>>, <<>>, strings)
  IN  [i \in 0 .. Len(bytes) - 1 |-> bytes[i + 1]]

StringAt(m, s) == [i \in 1 .. strlen(m, s) |-> m[s + i - 1]]

\* All tokens, by repeated calls of strtok_r.
RECURSIVE TokensFrom(_, _, _, _)
TokensFrom(m, s, delimiters, save) ==
  LET r == strtok_r(m, s, delimiters, save)
  IN  IF r.token = Null THEN [m |-> r.m, tokens |-> <<>>]
      ELSE LET rest == TokensFrom(r.m, Null, delimiters, r.save)
           IN  [m |-> rest.m, tokens |-> <<r.token>> \o rest.tokens]

\* The maximal runs of bytes outside D, and where they start.
RunsOf(s, D) ==
  LET starts == {i \in DOMAIN s : s[i] \notin D /\ (i = 1 \/ s[i - 1] \in D)}
      End(i) == Max({j \in i .. Len(s) : \A k \in i .. j : s[k] \notin D})
  IN  [k \in 1 .. Cardinality(starts) |->
         LET i == SetToSortSeq(starts, <)[k] IN [at |-> i - 1, text |-> SubSeq(s, i, End(i))]]

\* The lexicographic order of sequences.
Order(a, b) ==
  LET longer == Max({Len(a), Len(b)}) + 1
      At(s, i) == IF i <= Len(s) THEN s[i] ELSE 0
      d == {i \in 1 .. longer : At(a, i) # At(b, i)}
  IN  IF d = {} THEN 0 ELSE IF At(a, Min(d)) < At(b, Min(d)) THEN -1 ELSE 1

----------------------------------------------------------------------------
\* The functions on memory against what they say of strings.

Prefix(s, n) == SubSeq(s, 1, Min({n, Len(s)}))

\* Tokens of s under delimiters d: the runs, in place, nothing but delimiters changed.
TokensRight(s, d) ==
  LET m == Stored(<<s, d>>)
      r == TokensFrom(m, 0, Len(s) + 1, Null)
      runs == RunsOf(s, Range(d))
  IN  /\ Len(r.tokens) = Len(runs)
      /\ \A k \in DOMAIN runs :
           r.tokens[k] = runs[k].at /\ StringAt(r.m, r.tokens[k]) = runs[k].text
      /\ \A i \in DOMAIN m : r.m[i] # m[i] => m[i] \in Range(d) /\ r.m[i] = 0

SearchRight(a, b) ==
  LET m == Stored(<<a, b>>)
      B == Len(a) + 1
      At(i) == SubSeq(a, i + 1, i + Len(b)) = b
  IN  /\ strcmp(m, 0, B) = Order(a, b)
      /\ strstr(m, 0, B) = FirstOf({i \in 0 .. Len(a) - Len(b) : At(i)})
      /\ \A n \in 0 .. Len(a) + 1 : strnlen(m, 0, n) = Min({n, Len(a)})
      /\ \A i \in 1 .. strspn(m, 0, B) : a[i] \in Range(b)
      /\ strspn(m, 0, B) < Len(a) => a[strspn(m, 0, B) + 1] \notin Range(b)
      /\ \A i \in 1 .. strcspn(m, 0, B) : a[i] \notin Range(b)
      /\ IF strcspn(m, 0, B) < Len(a) THEN strpbrk(m, 0, B) = strcspn(m, 0, B)
                                      ELSE strpbrk(m, 0, B) = Null
      /\ \A c \in Range(a) : /\ strchr(m, 0, c) = memchr(m, 0, c, Len(a))
                             /\ a[strrchr(m, 0, c) + 1] = c
                             /\ \A i \in strrchr(m, 0, c) + 2 .. Len(a) : a[i] # c

\* strlcpy and strlcat of string b into a buffer of size bytes that holds string a, with
\* bytes behind the buffer that must not change.  What strlcat leaves is claimed for a string
\* a that ends inside the buffer: otherwise it writes nothing, not even a terminator.
CopyRight(a, b, size) ==
  LET pad == [i \in 1 .. 6 |-> 9]
      m == Stored(<<b, a \o pad>>)
      dst == Len(b) + 1
      n == [m EXCEPT ![dst + Len(a)] = 0]
      cpy == strlcpy(n, dst, 0, size)
      cat == strlcat(n, dst, 0, size)
      Kept(w) == \A i \in DOMAIN n : i < dst \/ i >= dst + size => w[i] = n[i]
  IN  /\ cpy.ret = Len(b) /\ Kept(cpy.m)
      /\ size > 0 => StringAt(cpy.m, dst) = Prefix(b, size - 1)
      /\ cat.ret = Len(a) + Len(b) /\ Kept(cat.m)
      /\ size > Len(a) => StringAt(cat.m, dst) = Prefix(a \o b, size - 1)

\* memmove as if through a copy of the source; memcpy the same without overlap.  The pointer
\* memmove returns is dst when the bytes are moved downwards; nothing is said of it otherwise.
MoveRight(dst, src, size) ==
  LET m == [i \in 0 .. 5 |-> i]
      moved == [i \in DOMAIN m |->
                  IF i \in dst .. dst + size - 1 THEN m[src + i - dst] ELSE m[i]]
      r == memmove(m, dst, src, size)
  IN  /\ r.m = moved
      /\ dst >= src => r.ret = dst
      /\ (dst >= src + size \/ src >= dst + size) => memcpy(m, dst, src, size) = moved
=============================================================================
