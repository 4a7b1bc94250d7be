------------------------------- MODULE Ustar --------------------------------
(***************************************************************************)
(* The archive headers of src/pintos/src/lib/ustar.c: a header is a record *)
(* of fields, each a sequence of bytes of its size.  The fields that are   *)
(* always written the same and never read are one field, "other".          *)
(***************************************************************************)
EXTENDS Strings

CONSTANTS
  NameSize,          \* bytes of the name field (100 in the code)
  SizeSize,          \* bytes of the size field (12)
  ChksumSize,        \* bytes of the checksum field (8)
  UlongBits          \* bits of an unsigned long (32); an int has one less

Slash == 47
Dot == 46
Zero == 48
Space == 32

FieldSize == [name |-> NameSize, size |-> SizeSize, chksum |-> ChksumSize, typeflag |-> 1,
              magic |-> 6, version |-> 2, prefix |-> 1, other |-> 2]

SumOf(bytes) == FoldLeft(LAMBDA n, b : n + b, 0, bytes)

\* The checksum field counts as spaces.
calculate_chksum(h) ==
  MapThenSumSet(LAMBDA f : IF f = "chksum" THEN Space * ChksumSize ELSE SumOf(h[f]),
                DOMAIN FieldSize)

RECURSIVE strip_antisocial_prefixes(_)
strip_antisocial_prefixes(file_name) ==
  LET Starts(p) == IsPrefix(p, file_name)
      slash == Min({i \in 1 .. Len(file_name) : file_name[i] = Slash})
  IN  IF Starts(<<Slash>>) \/ Starts(<<Dot, Slash>>) \/ Starts(<<Dot, Dot, Slash>>)
        THEN strip_antisocial_prefixes(SubSeq(file_name, slash + 1, Len(file_name)))
      ELSE IF file_name = <<>> \/ file_name = <<Dot, Dot>> THEN <<Dot>> ELSE file_name

\* A string in a field of n bytes, the rest 0.
Field(s, n) == [i \in 1 .. n |-> IF i <= Len(s) THEN s[i] ELSE 0]

\* A number as octal digits that fill a field of n bytes but for the final 0.
OctalField(v, n) == [i \in 1 .. n |-> IF i = n THEN 0 ELSE Zero + ((v \div 8^(n - 1 - i)) % 8)]

Magic == <<117, 115, 116, 97, 114, 0>>

\* The header, or the empty sequence of fields for a name that is too long.
ustar_make_header(file_name, type, size) ==
  LET name == strip_antisocial_prefixes(file_name)
      h == [name |-> Field(name, NameSize), size |-> OctalField(size, SizeSize),
            chksum |-> Field(<<>>, ChksumSize), typeflag |-> <<type>>, magic |-> Magic,
            version |-> <<Zero, Zero>>, prefix |-> <<0>>, other |-> <<114, 116>>]
  IN  IF Len(name) > NameSize - 1 THEN [ok |-> FALSE, h |-> h]
      ELSE [ok |-> TRUE, h |-> [h EXCEPT !.chksum = OctalField(calculate_chksum(h), ChksumSize)]]

\* The value of an octal field, and whether it is one.
parse_octal_field(s) ==
  LET end == FirstOf({i \in DOMAIN s : s[i] \notin Zero .. Zero + 7})
      to == IF end = Null THEN Len(s) ELSE end - 1
      Digit(r, c) == [ok |-> r.ok /\ r.value <= (2^UlongBits - 1) \div 8,
                      value |-> (c - Zero + r.value * 8) % 2^UlongBits]
      r == FoldLeft(Digit, [ok |-> TRUE, value |-> 0], SubSeq(s, 1, to))
  IN  [ok |-> r.ok /\ end # Null /\ end > 1 /\ s[end] \in {Space, 0}, value |-> r.value]

is_all_zeros(h) == \A f \in DOMAIN h : \A i \in DOMAIN h[f] : h[f][i] = 0

Regular == Zero
Directory == Zero + 5

\* The name, type and size, or an error.
ustar_parse_header(h) ==
  LET chksum == parse_octal_field(h.chksum)
      size == parse_octal_field(h.size)
      type == h.typeflag[1]
      Error == [error |-> TRUE, name |-> <<>>, type |-> 0, size |-> 0]
      NameIn(field) == SubSeq(field, 1, Min({i \in DOMAIN field : field[i] = 0}) - 1)
  IN  IF is_all_zeros(h) THEN [error |-> FALSE, name |-> <<>>, type |-> Null, size |-> 0]
      ELSE IF h.magic # Magic \/ h.version # <<Zero, Zero>>
              \/ ~chksum.ok \/ chksum.value # calculate_chksum(h)
              \/ h.name[NameSize] # 0 \/ h.prefix # <<0>>
              \/ type \notin {Regular, Directory}
              \/ (type = Regular /\ (~size.ok \/ size.value >= 2^(UlongBits - 1)))
        THEN Error
      ELSE [error |-> FALSE, name |-> strip_antisocial_prefixes(NameIn(h.name)), type |-> type,
            size |-> IF type = Regular THEN size.value ELSE 0]

----------------------------------------------------------------------------
\* A header that is written reads back as what it was written for, under a name that stays
\* below the current directory, and a header with one byte changed is never taken for
\* another file's.
HeaderRight(file_name, type, size) ==
  LET made == ustar_make_header(file_name, type, size)
      read == ustar_parse_header(made.h)
      name == strip_antisocial_prefixes(file_name)
  IN  /\ made.ok = (Len(name) < NameSize)
      /\ name # <<>> /\ name[1] # Slash /\ name # <<Dot, Dot>>
      /\ ~IsPrefix(<<Dot, Slash>>, name) /\ ~IsPrefix(<<Dot, Dot, Slash>>, name)
      /\ made.ok =>
           /\ read = [error |-> FALSE, name |-> name, type |-> type,
                      size |-> IF type = Regular THEN size ELSE 0]
           /\ \A f \in DOMAIN FieldSize : \A i \in 1 .. FieldSize[f], b \in {0, 32, 47, 48, 49, 53, 55, 56} :
                LET damaged == ustar_parse_header([made.h EXCEPT ![f][i] = b])
                IN  damaged.error \/ damaged = read

\* An octal field is accepted exactly if digits, at least one, are followed by a space or a
\* null byte and the number fits.
OctalRight(s) ==
  LET r == parse_octal_field(s)
      digits == {n \in 1 .. Len(s) - 1 : (\A i \in 1 .. n : s[i] \in Zero .. Zero + 7)
                                         /\ s[n + 1] \in {Space, 0}}
      Value(n) == FoldLeft(LAMBDA v, c : v * 8 + c - Zero, 0, SubSeq(s, 1, n))
  IN  /\ r.ok = (digits # {} /\ \A n \in digits : Value(n) < 2^UlongBits)
      /\ r.ok => \A n \in digits : r.value = Value(n)
=============================================================================
