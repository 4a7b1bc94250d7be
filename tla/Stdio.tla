------------------------------- MODULE Stdio --------------------------------
(***************************************************************************)
(* The formatting of src/pintos/src/lib/stdio.c.  A format, a string       *)
(* argument and the output are sequences of one-character strings; integer *)
(* arguments are bit patterns of the width of their type.                  *)
(***************************************************************************)
EXTENDS Integers, Sequences, SequencesExt, FiniteSetsExt, Folds

CONSTANTS
  Bits,              \* the width of each integer type of printf_conversion
  BufSize            \* characters in format_integer's buffer (64 in the code)

Numerals == <<"0", "1", "2", "3", "4", "5", "6", "7", "8", "9", "a", "b", "c", "d", "e", "f">>
Capitals == <<"0", "1", "2", "3", "4", "5", "6", "7", "8", "9", "A", "B", "C", "D", "E", "F">>

base_d == [base |-> 10, digits |-> Numerals, x |-> "", group |-> 3]
base_o == [base |-> 8, digits |-> Numerals, x |-> "", group |-> 3]
base_x == [base |-> 16, digits |-> Numerals, x |-> "x", group |-> 4]
base_X == [base |-> 16, digits |-> Capitals, x |-> "X", group |-> 4]

\* cnt times the character ch; none for a count that is not positive.
output_dup(ch, cnt) == [i \in 1 .. Max({cnt, 0}) |-> ch]

\* The digits, least significant first, with the group separators between them.
RECURSIVE DigitsOf(_, _, _, _)
DigitsOf(value, b, grouped, digit_cnt) ==
  IF value = 0 THEN <<>>
  ELSE (IF grouped /\ digit_cnt > 0 /\ digit_cnt % b.group = 0 THEN <<",">> ELSE <<>>)
         \o <<b.digits[(value % b.base) + 1]>>
         \o DigitsOf(value \div b.base, b, grouped, digit_cnt + 1)

\* The contents of the buffer: digits, zeros up to the precision, octal's leading zero.
Buffer(value, b, c) ==
  LET digits == DigitsOf(value, b, "'" \in c.flags, 0)
      precision == IF c.precision < 0 THEN 1 ELSE c.precision
      full == digits \o output_dup("0", Min({precision, BufSize - 1}) - Len(digits))
  IN  IF "#" \in c.flags /\ b.base = 8 /\ (full = <<>> \/ Last(full) # "0")
        THEN Append(full, "0") ELSE full

format_integer(value, is_signed, negative, b, c) ==
  LET buf == Buffer(value, b, c)
      sign == IF ~is_signed THEN <<>>
              ELSE IF negative THEN <<"-">>
              ELSE IF "+" \in c.flags THEN <<"+">>
              ELSE IF " " \in c.flags THEN <<" ">> ELSE <<>>
      x == IF "#" \in c.flags /\ value # 0 /\ b.x # "" THEN <<"0", b.x>> ELSE <<>>
      pad_cnt == c.width - Len(buf) - Len(x) - Len(sign)
  IN  (IF c.flags \intersect {"-", "0"} = {} THEN output_dup(" ", pad_cnt) ELSE <<>>)
        \o sign \o x
        \o (IF "0" \in c.flags THEN output_dup("0", pad_cnt) ELSE <<>>)
        \o Reverse(buf)
        \o (IF "-" \in c.flags THEN output_dup(" ", pad_cnt) ELSE <<>>)

format_string(string, c) ==
  LET pad == output_dup(" ", c.width - Len(string))
  IN  IF "-" \in c.flags THEN string \o pad ELSE pad \o string

----------------------------------------------------------------------------
\* Parsing.  p is a position in the format; past its end is the terminator.

At(format, p) == IF p <= Len(format) THEN format[p] ELSE ""

FlagChars == {"-", "+", " ", "#", "0", "'"}

\* The position after the run of characters of C that starts at p.
After(format, p, C) == Min({q \in p .. Len(format) + 1 : At(format, q) \notin C})

\* A number, or the next argument for an asterisk: its value, the position behind it and
\* the arguments left.
NumberAt(format, p, args) ==
  LET end == After(format, p, Range(SubSeq(Numerals, 1, 10)))
      Value(c) == (CHOOSE i \in 1 .. 10 : Numerals[i] = c) - 1
  IN  IF At(format, p) = "*" THEN [n |-> Head(args), p |-> p + 1, args |-> Tail(args)]
      ELSE [n |-> FoldLeft(LAMBDA n, c : n * 10 + Value(c), 0, SubSeq(format, p, end - 1)),
            p |-> end, args |-> args]

\* The type letters at p, and how many characters they take.
TypeAt(format, p) ==
  LET two == At(format, p) \o At(format, p + 1)
  IN  CASE two = "hh" -> [type |-> "CHAR", len |-> 2]
        [] two = "ll" -> [type |-> "LONGLONG", len |-> 2]
        [] At(format, p) = "h" /\ two # "hh" -> [type |-> "SHORT", len |-> 1]
        [] At(format, p) = "l" /\ two # "ll" -> [type |-> "LONG", len |-> 1]
        [] At(format, p) = "j" -> [type |-> "INTMAX", len |-> 1]
        [] At(format, p) = "t" -> [type |-> "PTRDIFFT", len |-> 1]
        [] At(format, p) = "z" -> [type |-> "SIZET", len |-> 1]
        [] OTHER -> [type |-> "INT", len |-> 0]

\* The conversion from its flags, what was found for the width and what for the precision:
\* the conversion c, the position of its letter and the arguments left.
Conversion(format, flags, w, r) ==
  LET precision == Max({r.n, -1})
      t == TypeAt(format, r.p)
  IN  [c |-> [flags |-> (flags \union (IF w.n < 0 THEN {"-"} ELSE {}))
                          \ (IF precision >= 0 THEN {"0"} ELSE {}),
              width |-> IF w.n < 0 THEN -w.n ELSE w.n,
              precision |-> precision, type |-> t.type],
       p |-> r.p + t.len, args |-> r.args]

parse_conversion(format, p, args) ==
  LET p1 == After(format, p, FlagChars)
      given == Range(SubSeq(format, p, p1 - 1))
      kept == given \ ((IF "-" \in given THEN {"0"} ELSE {}) \union
                       (IF "+" \in given THEN {" "} ELSE {}))
      w == NumberAt(format, p1, args)
  IN  Conversion(format, kept, w,
                 IF At(format, w.p) = "." THEN NumberAt(format, w.p + 1, w.args)
                                          ELSE [w EXCEPT !.n = -1])

\* An argument converted to a type of the given width.
Unsigned(arg, type) == arg % 2^Bits[type]
Signed(arg, type) ==
  LET u == Unsigned(arg, type) IN IF u < 2^(Bits[type] - 1) THEN u ELSE u - 2^Bits[type]

\* What stands for a null string pointer among the arguments.
NullString == <<"NULL">>

\* The text of one conversion whose letter is ch, for the argument arg.
Converted(ch, c, arg) ==
  CASE ch \in {"d", "i"} ->
         LET value == Signed(arg, c.type)
         IN  format_integer(IF value < 0 THEN -value ELSE value, TRUE, value < 0, base_d, c)
    [] ch = "o" -> format_integer(Unsigned(arg, c.type), FALSE, FALSE, base_o, c)
    [] ch = "u" -> format_integer(Unsigned(arg, c.type), FALSE, FALSE, base_d, c)
    [] ch = "x" -> format_integer(Unsigned(arg, c.type), FALSE, FALSE, base_x, c)
    [] ch = "X" -> format_integer(Unsigned(arg, c.type), FALSE, FALSE, base_X, c)
    [] ch = "c" -> format_string(<<arg>>, c)
    [] ch = "s" -> LET s == IF arg = NullString THEN <<"(", "n", "u", "l", "l", ")">> ELSE arg
                   IN  format_string(IF c.precision < 0 THEN s
                                     ELSE SubSeq(s, 1, Min({c.precision, Len(s)})), c)
    [] ch = "p" -> format_integer(Unsigned(arg, "LONG"), FALSE, FALSE, base_x,
                                  [c EXCEPT !.flags = {"#"}])

\* The text in place of a conversion that is not supported.
Refused(ch) ==
  <<"<", "<", "n", "o", " ", "%", ch>>
    \o (IF ch \in {"f", "e", "E", "g", "G", "n"}
          THEN <<" ", "i", "n", " ", "k", "e", "r", "n", "e", "l">>
          ELSE <<" ", "c", "o", "n", "v", "e", "r", "s", "i", "o", "n">>)
    \o <<">", ">">>

\* The whole output of format from position p on.
RECURSIVE vprintf(_, _, _)
vprintf(format, p, args) ==
  LET r == parse_conversion(format, p + 1, args)
      ch == At(format, r.p)
  IN  IF p > Len(format) THEN <<>>
      ELSE IF format[p] # "%" THEN <<format[p]>> \o vprintf(format, p + 1, args)
      ELSE IF At(format, p + 1) = "%" THEN <<"%">> \o vprintf(format, p + 2, args)
      ELSE IF ch \in {"d", "i", "o", "u", "x", "X", "c", "s", "p"}
        THEN Converted(ch, r.c, Head(r.args)) \o vprintf(format, r.p + 1, Tail(r.args))
      ELSE Refused(ch) \o vprintf(format, r.p + 1, r.args)

printf(format, args) == vprintf(format, 1, args)

\* One character for vsnprintf: it is counted, and stored while there is room.
vsnprintf_helper(aux, ch) ==
  IF aux.length < aux.max_length
    THEN [aux EXCEPT !.buffer[aux.p] = ch, !.p = @ + 1, !.length = @ + 1]
    ELSE [aux EXCEPT !.length = @ + 1]

\* The buffer, a function from 0 on, and the length returned.
vsnprintf(buffer, buf_size, format, args) ==
  LET start == [buffer |-> buffer, p |-> 0, length |-> 0,
                max_length |-> IF buf_size > 0 THEN buf_size - 1 ELSE 0]
      aux == FoldLeft(vsnprintf_helper, start, printf(format, args))
  IN  [buffer |-> IF buf_size > 0 THEN [aux.buffer EXCEPT ![aux.p] = ""] ELSE aux.buffer,
       ret |-> aux.length]

----------------------------------------------------------------------------
\* The two printing routines built on it.

CONSTANT PerLine     \* bytes on a line of a dump (16 in the code)

Repeat(text, n) == FoldLeft(LAMBDA t, i : t \o text, <<>>, output_dup(0, n))

\* The lines of the dump of buf, a sequence of characters' codes, from offset ofs on;
\* shown[b] is the character of a printable code, "." for the others.
RECURSIVE hex_dump(_, _, _, _)
hex_dump(ofs, buf, ascii, shown) ==
  LET start == ofs % PerLine
      end == Min({PerLine, start + Len(buf)})
      n == end - start
      Byte(i) == printf(<<"%", "0", "2", "h", "h", "x", "%", "c">>,
                        <<buf[i - start + 1], IF i = PerLine \div 2 - 1 THEN "-" ELSE " ">>)
      bytes == FoldLeft(LAMBDA t, k : t \o Byte(start + k - 1), <<>>, [k \in 1 .. n |-> k])
      side == <<"|">> \o Repeat(<<" ">>, start) \o [k \in 1 .. n |-> shown[buf[k]]]
                \o Repeat(<<" ">>, PerLine - end) \o <<"|">>
      line == printf(<<"%", "0", "8", "j", "x", " ", " ">>, <<ofs - start>>)
                \o Repeat(<<" ", " ", " ">>, start) \o bytes
                \o (IF ascii THEN Repeat(<<" ", " ", " ">>, PerLine - end) \o side ELSE <<>>)
  IN  IF buf = <<>> THEN <<>>
      ELSE <<line>> \o hex_dump(ofs + n, SubSeq(buf, n + 1, Len(buf)), ascii, shown)

\* The number and the position of the unit printed for a size in bytes.
RECURSIVE HumanReadable(_, _)
HumanReadable(size, unit) ==
  IF size >= 1024 /\ unit < 5 THEN HumanReadable(size \div 1024, unit + 1)
  ELSE [n |-> size, unit |-> unit]

factors == <<<<"b", "y", "t", "e", "s">>, <<"k", "B">>, <<"M", "B">>, <<"G", "B">>, <<"T", "B">>>>

print_human_readable_size(size) ==
  LET h == HumanReadable(size, 1)
  IN  IF size = 1 THEN <<"1", " ", "b", "y", "t", "e">>
      ELSE printf(<<"%", "l", "l", "u", " ", "%", "s">>, <<h.n, factors[h.unit]>>)

----------------------------------------------------------------------------
\* What the output should say.

\* The value a text of digits stands for, group separators left out.
ValueOf(text, b) ==
  LET Value(c) == (CHOOSE i \in 1 .. 16 : b.digits[i] = c) - 1
  IN  FoldLeft(LAMBDA n, c : IF c = "," THEN n ELSE n * b.base + Value(c), 0, text)

\* Integer conversions: the text without padding, sign and prefix reads back as the value,
\* fills the field, and holds the digits the precision asks for.
IntegerRight(ch, flags, width, precision, type, arg) ==
  LET c == [flags |-> flags, width |-> width, precision |-> precision, type |-> type]
      b == CASE ch = "d" -> base_d [] ch = "o" -> base_o [] ch = "u" -> base_d [] ch = "x" -> base_x
      text == Converted(ch, c, arg)
      bare == SelectSeq(text, LAMBDA k : k \notin {" ", "+", "-", b.x})
      value == IF ch = "d" THEN Signed(arg, type) ELSE Unsigned(arg, type)
  IN  /\ ValueOf(bare, b) = (IF value < 0 THEN -value ELSE value)
      /\ (value < 0) = ("-" \in Range(text))
      /\ Len(text) >= width
      /\ Len(bare) >= Min({precision, BufSize - 1})
      /\ Len(Buffer(IF value < 0 THEN -value ELSE value, b, c)) <= BufSize
      \* Nothing but padding beyond what the value, the sign and the prefix need.
      /\ Len(text) > width =>
           Len(text) = Len(Buffer(IF value < 0 THEN -value ELSE value, b, c))
                         + Cardinality({i \in DOMAIN text : text[i] \in {"-", "+"}})
                         + (IF " " \in flags /\ "+" \notin flags /\ ch = "d" /\ value >= 0 THEN 1 ELSE 0)
                         + (IF b.x # "" /\ "#" \in flags /\ value # 0 THEN 2 ELSE 0)

\* A format that is written out and cut off: snprintf stores what fits, ends it, leaves the
\* bytes behind the buffer alone and returns the whole length.
BufferRight(format, args, size, whole) ==
  LET before == [i \in 0 .. 12 |-> "?"]
      kept == Min({size - 1, Len(whole)})
  IN  \A r \in {vsnprintf(before, size, format, args)} :
        /\ r.ret = Len(whole)
        /\ \A i \in 1 .. kept : r.buffer[i - 1] = whole[i]
        /\ size > 0 => r.buffer[kept] = ""
        /\ \A i \in DOMAIN before : i >= size => r.buffer[i] = "?"

\* Every byte of a dump stands in the line and the column of its offset.
DumpRight(ofs, buf, ascii, shown) ==
  LET Row(k) == (ofs + k - 1) \div PerLine - ofs \div PerLine + 1
      Col(k) == (ofs + k - 1) % PerLine
  IN  \A lines \in {hex_dump(ofs, buf, ascii, shown)} :
        /\ Len(lines) = (IF buf = <<>> THEN 0 ELSE Row(Len(buf)))
        /\ \A k \in DOMAIN buf : \A line \in {lines[Row(k)]} :
             /\ ValueOf(SubSeq(line, 1, 8), base_x) = ((ofs + k - 1) \div PerLine) * PerLine
             /\ ValueOf(SubSeq(line, 11 + 3 * Col(k), 12 + 3 * Col(k)), base_x) = buf[k]
             /\ ascii => line[12 + 3 * PerLine + Col(k)] = shown[buf[k]]

SizeRight(size) ==
  LET h == HumanReadable(size, 1)
      scale == 1024^(h.unit - 1)
      Space(text) == CHOOSE i \in DOMAIN text : text[i] = " "
  IN  /\ \A text \in {print_human_readable_size(size)} :
           /\ ValueOf(SubSeq(text, 1, Space(text) - 1), base_d) = size \div scale
           /\ size # 1 => SubSeq(text, Space(text) + 1, Len(text)) = factors[h.unit]
      /\ h.n < 1024 \/ h.unit = 5
      /\ h.unit > 1 => h.n >= 1
=============================================================================
