------------------------------- MODULE Printf -------------------------------
(***************************************************************************)
(* The formatter behind every printf of the kernel (libc/stdio/nanoprintf.h *)
(* as configured by printf.c: field widths, precisions, large and binary    *)
(* specifiers; no floats, no write-back).  A format is a sequence of        *)
(* one-character strings, a string argument such a sequence, and any other  *)
(* argument the bits of its slot.  The integer types keep their wrapping    *)
(* and their order of widths, but the widths are parameters.                *)
(***************************************************************************)
EXTENDS Integers, Sequences, SequencesExt

CONSTANTS
  CharBits, ShortBits, IntBits, LongBits  \* widths of the integer types

ASSUME PrintfAssumption ==
  /\ CharBits \in Nat \ {0}
  /\ CharBits < ShortBits /\ ShortBits < IntBits /\ IntBits < LongBits

NUL == "NUL"

Char(f, i) == IF i <= Len(f) THEN f[i] ELSE NUL

Numerals == <<"0", "1", "2", "3", "4", "5", "6", "7", "8", "9", "a", "b", "c", "d", "e", "f">>

Capitals == <<"A", "B", "C", "D", "E", "F">>

DigitOf(c) == CHOOSE d \in 0..9 : Numerals[d + 1] = c

IsDigit(c) == \E d \in 0..9 : Numerals[d + 1] = c

Times(n, c) == [i \in 1..n |-> c]

-----------------------------------------------------------------------------
(* npf_parse_format_spec: the directive whose '%' stands at position i - 1.  *)

Blank ==
  [field_width |-> 0, field_width_opt |-> "NONE", left_justified |-> FALSE,
   leading_zero_pad |-> FALSE, prec |-> 0, prec_opt |-> "NONE", prepend |-> <<>>,
   alt_form |-> FALSE, lowercase |-> TRUE, length_modifier |-> "NONE", conv_spec |-> "NONE"]

Flag(s, c) ==
  CASE c = "-" -> [s EXCEPT !.left_justified = TRUE, !.leading_zero_pad = FALSE]
    [] c = "0" -> [s EXCEPT !.leading_zero_pad = ~s.left_justified]
    [] c = "+" -> [s EXCEPT !.prepend = <<"+">>]
    [] c = " " -> [s EXCEPT !.prepend = IF @ = <<>> THEN <<" ">> ELSE @]
    [] c = "#" -> [s EXCEPT !.alt_form = TRUE]

RECURSIVE Flags(_, _, _)
Flags(f, i, s) ==
  IF Char(f, i) \in {"-", "0", "+", " ", "#"}
  THEN Flags(f, i + 1, Flag(s, Char(f, i)))
  ELSE [spec |-> s, at |-> i]

RECURSIVE Number(_, _, _)
Number(f, i, n) ==
  IF IsDigit(Char(f, i)) THEN Number(f, i + 1, n * 10 + DigitOf(Char(f, i)))
  ELSE [value |-> n, at |-> i]

FieldWidth(f, i, s) ==
  CASE Char(f, i) = "*" -> [spec |-> [s EXCEPT !.field_width_opt = "STAR"], at |-> i + 1]
    [] IsDigit(Char(f, i)) ->
         LET n == Number(f, i, 0)
         IN  [spec |-> [s EXCEPT !.field_width_opt = "LITERAL", !.field_width = n.value], at |-> n.at]
    [] OTHER -> [spec |-> s, at |-> i]

Precision(f, i, s) ==
  CASE Char(f, i) # "." -> [spec |-> s, at |-> i]
    [] Char(f, i + 1) = "*" -> [spec |-> [s EXCEPT !.prec_opt = "STAR"], at |-> i + 2]
    [] Char(f, i + 1) = "-" ->
         LET n == Number(f, i + 2, 0) IN [spec |-> [s EXCEPT !.prec = n.value], at |-> n.at]
    [] OTHER ->
         LET n == Number(f, i + 1, 0)
         IN  [spec |-> [s EXCEPT !.prec_opt = "LITERAL", !.prec = n.value], at |-> n.at]

LengthModifier(f, i, s) ==
  LET is(m, n) == [spec |-> [s EXCEPT !.length_modifier = m], at |-> i + n]
      c == Char(f, i)
      double == Char(f, i + 1) = c
  IN  CASE c = "h" -> IF double THEN is("CHAR", 2) ELSE is("SHORT", 1)
        [] c = "l" -> IF double THEN is("LARGE", 2) ELSE is("LONG", 1)
        [] c \in {"j", "z", "t"} -> is("LARGE", 1)
        [] OTHER -> is("NONE", 0)

\* The integer conversion that forgets that a precision switches the '0' flag off.
IntegerKeepsZero(s, conv) ==
  [s EXCEPT !.conv_spec = conv]

Integer(s, conv) ==
  [s EXCEPT !.conv_spec = conv, !.leading_zero_pad = @ /\ s.prec_opt = "NONE"]

Conversion(s, c) ==
  CASE c = "%" -> [s EXCEPT !.conv_spec = "PERCENT", !.prec_opt = "NONE"]
    [] c = "c" -> [s EXCEPT !.conv_spec = "CHAR", !.prec_opt = "NONE"]
    [] c = "s" -> [s EXCEPT !.conv_spec = "STRING", !.leading_zero_pad = FALSE]
    [] c \in {"i", "d"} -> Integer(s, "SIGNED_INT")
    [] c = "o" -> Integer(s, "OCTAL")
    [] c = "u" -> Integer(s, "UNSIGNED_INT")
    [] c = "X" -> Integer([s EXCEPT !.lowercase = FALSE], "HEX_INT")
    [] c = "x" -> Integer(s, "HEX_INT")
    [] c = "p" -> [s EXCEPT !.conv_spec = "POINTER", !.prec_opt = "NONE"]
    [] c = "B" -> [s EXCEPT !.conv_spec = "BINARY", !.lowercase = FALSE]
    [] c = "b" -> [s EXCEPT !.conv_spec = "BINARY"]
    [] OTHER -> s

\* The directive, and where the text after it starts; conv_spec NONE when it is none.
npf_parse_format_spec(f, i) ==
  LET fl == Flags(f, i, Blank)
      wd == FieldWidth(f, fl.at, fl.spec)
      pr == Precision(f, wd.at, wd.spec)
      lm == LengthModifier(f, pr.at, pr.spec)
  IN  [spec |-> Conversion(lm.spec, Char(f, lm.at)), at |-> lm.at + 1]

-----------------------------------------------------------------------------
(* npf_vpprintf: the arguments of a directive and the text it becomes.       *)

Width(s) ==
  CASE s.length_modifier = "CHAR" -> CharBits
    [] s.length_modifier = "SHORT" -> ShortBits
    [] s.length_modifier = "NONE" -> IntBits
    [] s.length_modifier \in {"LONG", "LARGE"} -> LongBits

Unsigned(slot, bits) == slot % (2 ^ bits)

Signed(slot, bits) ==
  LET u == Unsigned(slot, bits) IN IF u >= 2 ^ (bits - 1) THEN u - 2 ^ bits ELSE u

\* The digits of val, the least significant one first.
RECURSIVE npf_utoa_rev(_, _, _)
npf_utoa_rev(val, base, lowercase) ==
  LET d == val % base
      digit == IF d < 10 \/ lowercase THEN Numerals[d + 1] ELSE Capitals[d - 9]
  IN  <<digit>> \o IF val < base THEN <<>> ELSE npf_utoa_rev(val \div base, base, lowercase)

npf_bin_len(u) == IF u = 0 THEN 1 ELSE CHOOSE n \in 1..LongBits : 2 ^ (n - 1) <= u /\ u < 2 ^ n

\* The star arguments come first: the specification with them, and the arguments left.
StarArgs(s, args) ==
  LET w == IF s.field_width_opt = "STAR" THEN Signed(Head(args), IntBits) ELSE s.field_width
      wide == [s EXCEPT !.field_width = IF w < 0 THEN -w ELSE w,
                        !.left_justified = @ \/ w < 0]
      rest == IF s.field_width_opt = "STAR" THEN Tail(args) ELSE args
      p == IF s.prec_opt = "STAR" THEN Signed(Head(rest), IntBits) ELSE s.prec
  IN  [spec |-> [wide EXCEPT !.prec = p,
                             !.prec_opt = IF @ = "STAR" /\ p < 0 THEN "NONE" ELSE @],
       args |-> IF s.prec_opt = "STAR" THEN Tail(rest) ELSE rest]

NothingToPrint(s, val) == val = 0 /\ s.prec_opt # "NONE" /\ s.prec = 0

Converted(cbuf, sign_c, need_0x, zero, prec) ==
  [cbuf |-> cbuf, sign_c |-> sign_c, need_0x |-> need_0x, zero |-> zero, prec |-> prec]

SignedInt(s, slot) ==
  LET val == Signed(slot, Width(s))
  IN  Converted(IF NothingToPrint(s, val) THEN <<>>
                ELSE npf_utoa_rev(IF val < 0 THEN -val ELSE val, 10, s.lowercase),
                IF val < 0 THEN <<"-">> ELSE s.prepend, <<>>, val = 0, s.prec)

UnsignedInt(s, slot) ==
  LET val == Unsigned(slot, Width(s))
      octal == s.conv_spec = "OCTAL"
      base == CASE octal -> 8 [] s.conv_spec = "HEX_INT" -> 16 [] OTHER -> 10
      digits ==
        CASE NothingToPrint(s, val) -> <<>>
          [] s.conv_spec = "BINARY" ->
               [i \in 1..npf_bin_len(val) |-> Numerals[((val \div 2 ^ (i - 1)) % 2) + 1]]
          [] OTHER -> npf_utoa_rev(val, base, s.lowercase)
      prefix == CASE s.conv_spec = "HEX_INT" -> <<"0", IF s.lowercase THEN "x" ELSE "X">>
                  [] s.conv_spec = "BINARY" -> <<"0", IF s.lowercase THEN "b" ELSE "B">>
                  [] OTHER -> <<>>
  IN  Converted(digits \o IF val # 0 /\ s.alt_form /\ octal THEN <<"0">> ELSE <<>>,
                <<>>, IF val # 0 /\ s.alt_form THEN prefix ELSE <<>>, val = 0,
                IF NothingToPrint(s, val) /\ octal /\ s.alt_form THEN 1 ELSE s.prec)

\* The text of one conversion: reversed, but for a string.
Convert(s, args) ==
  CASE s.conv_spec = "PERCENT" -> Converted(<<"%">>, <<>>, <<>>, FALSE, s.prec)
    [] s.conv_spec = "CHAR" -> Converted(<<Head(args)>>, <<>>, <<>>, FALSE, s.prec)
    [] s.conv_spec = "STRING" ->
         Converted(IF s.prec_opt = "NONE" \/ Len(Head(args)) <= s.prec THEN Head(args)
                   ELSE SubSeq(Head(args), 1, s.prec), <<>>, <<>>, FALSE, s.prec)
    [] s.conv_spec = "SIGNED_INT" -> SignedInt(s, Head(args))
    [] s.conv_spec = "POINTER" ->
         Converted(npf_utoa_rev(Unsigned(Head(args), LongBits), 16, TRUE), <<>>,
                   <<"0", "x">>, FALSE, s.prec)
    [] OTHER -> UnsignedInt(s, Head(args))

\* What the field is filled up with, nothing when it is not.
PadChar(s, c) ==
  CASE s.field_width_opt = "NONE" -> <<>>
    [] ~s.leading_zero_pad -> <<" ">>
    [] s.conv_spec \in {"STRING", "CHAR", "PERCENT"} -> <<>>
    [] s.prec_opt # "NONE" /\ c.prec = 0 /\ c.zero -> <<" ">>
    [] OTHER -> <<"0">>

Layout(s, c) ==
  LET string == s.conv_spec = "STRING"
      prec_pad == IF string THEN 0 ELSE Max({0, c.prec - Len(c.cbuf)})
      field_pad == Max({0, s.field_width - Len(c.cbuf) - Len(c.sign_c)
                              - Len(c.need_0x) - prec_pad})
      pad_c == PadChar(s, c)
      fill == IF pad_c = <<>> THEN <<>> ELSE Times(field_pad, pad_c[1])
      right == ~s.left_justified
      signFirst == right /\ pad_c = <<"0">>
  IN  (CASE signFirst -> c.sign_c \o c.need_0x \o fill
         [] right /\ pad_c = <<" ">> -> fill \o c.need_0x
         [] OTHER -> c.need_0x)
      \o (IF string THEN c.cbuf
          ELSE (IF signFirst THEN <<>> ELSE c.sign_c) \o Times(prec_pad, "0") \o Reverse(c.cbuf))
      \o (IF right THEN <<>> ELSE fill)

\* All that is put for the rest of the format, from position i.
RECURSIVE npf_vpprintf(_, _, _)
npf_vpprintf(f, i, args) ==
  LET fs == npf_parse_format_spec(f, i + 1)
      st == StarArgs(fs.spec, args)
      left == IF fs.spec.conv_spec = "PERCENT" THEN st.args ELSE Tail(st.args)
  IN  CASE i > Len(f) -> <<>>
        [] i <= Len(f) /\ (f[i] # "%" \/ fs.spec.conv_spec = "NONE") ->
             <<f[i]>> \o npf_vpprintf(f, i + 1, args)
        [] OTHER -> Layout(st.spec, Convert(st.spec, st.args)) \o npf_vpprintf(f, fs.at, left)

npf_bufputc(b, c) ==
  IF b.cur < b.len THEN [b EXCEPT !.dst = @ \o <<c>>, !.cur = @ + 1] ELSE b

\* The text in the buffer with its NUL, and the length that is returned.  (The NUL
\* always written to the buffer's last byte shows only when the text reaches it.)
npf_vsnprintf(bufsz, f, args) ==
  LET out == npf_vpprintf(f, 1, args)
      b == FoldLeft(npf_bufputc, [dst |-> <<>>, len |-> bufsz, cur |-> 0], out \o <<NUL>>)
  IN  [dst |-> IF bufsz > 0 /\ Len(b.dst) = bufsz THEN [b.dst EXCEPT ![bufsz] = NUL] ELSE b.dst,
       n |-> Len(out)]

-----------------------------------------------------------------------------
(* What ISO C says of a directive d: flags and length modifier are sequences *)
(* of characters, width and precision are omitted, literal or a star.        *)

Spelled(part) ==
  CASE part.opt = "NONE" -> <<>>
    [] part.opt = "LITERAL" -> <<Numerals[part.n + 1]>>
    [] part.opt = "STAR" -> <<"*">>

Text(d) ==
  <<"%">> \o d.flags \o Spelled(d.width)
    \o (IF d.prec.opt = "NONE" THEN <<>> ELSE <<".">> \o Spelled(d.prec)) \o d.mod \o <<d.conv>>

Stars(part) == IF part.opt = "STAR" THEN <<Unsigned(part.n, LongBits)>> ELSE <<>>

Arguments(d) == Stars(d.width) \o Stars(d.prec) \o <<d.arg>>

Has(d, flag) == flag \in ToSet(d.flags)

IntegerConv == {"d", "i", "u", "o", "x", "X", "b", "B"}

HasPrec(d) == d.prec.opt # "NONE" /\ d.prec.n >= 0

\* The directives with a meaning in C, without the three cases in which nanoprintf goes
\* its own way: the 0 flag with a negative star width or precision (it pads after the
\* number with zeros, or with spaces), and with a precision of a binary conversion.
Defined(d) ==
  /\ Has(d, "#") => d.conv \in IntegerConv \ {"d", "i", "u"}
  /\ Has(d, "0") => /\ d.conv \in IntegerConv
                    /\ ~(d.width.opt = "STAR" /\ d.width.n < 0)
                    /\ ~(d.prec.opt = "STAR" /\ d.prec.n < 0)
                    /\ d.conv \in {"b", "B"} => ~HasPrec(d)
  /\ d.prec.opt # "NONE" => d.conv \in IntegerConv \cup {"s"}
  /\ d.mod # <<>> => d.conv \in IntegerConv

ArgBits(d) ==
  CASE d.conv = "p" -> LongBits
    [] d.mod = <<"h", "h">> -> CharBits
    [] d.mod = <<"h">> -> ShortBits
    [] d.mod = <<>> -> IntBits
    [] OTHER -> LongBits

\* The value of the argument once it is converted to the directive's type.
Value(d) ==
  LET low == IF d.conv \in {"d", "i"} THEN -(2 ^ (ArgBits(d) - 1)) ELSE 0
  IN  CHOOSE v \in low..(low + 2 ^ ArgBits(d) - 1) : (d.arg - v) % (2 ^ ArgBits(d)) = 0

Magnitude(d) == IF Value(d) < 0 THEN -Value(d) ELSE Value(d)

BaseOf(d) ==
  CASE d.conv \in {"d", "i", "u"} -> 10 [] d.conv = "o" -> 8
    [] d.conv \in {"b", "B"} -> 2 [] d.conv \in {"x", "X", "p"} -> 16

Numeral(v, base, capital) ==
  LET len == CHOOSE n \in 1..LongBits : v < base ^ n /\ (n = 1 \/ base ^ (n - 1) <= v)
      glyph(k) == IF k >= 10 /\ capital THEN Capitals[k - 9] ELSE Numerals[k + 1]
  IN  [i \in 1..len |-> glyph((v \div base ^ (len - i)) % base)]

\* The digits: at least the precision's number of them, none for zero with precision
\* zero, and a zero in front in the alternative octal form.
Figures(d) ==
  LET v == Magnitude(d)
      least == IF HasPrec(d) THEN d.prec.n ELSE 1
      plain == IF v = 0 /\ least = 0 THEN <<>> ELSE Numeral(v, BaseOf(d), d.conv = "X")
      full == Times(Max({0, least - Len(plain)}), "0") \o plain
  IN  IF Has(d, "#") /\ d.conv = "o" /\ (full = <<>> \/ Head(full) # "0")
      THEN <<"0">> \o full ELSE full

Sign(d) ==
  CASE d.conv = "p" -> <<"0", "x">>
    [] Has(d, "#") /\ d.conv # "o" /\ Value(d) # 0 -> <<"0", d.conv>>
    [] d.conv \notin {"d", "i"} -> <<>>
    [] Value(d) < 0 -> <<"-">>
    [] Has(d, "+") -> <<"+">>
    [] Has(d, " ") -> <<" ">>
    [] OTHER -> <<>>

\* The output C describes for the directive.
Standard(d) ==
  LET number == d.conv \in IntegerConv \cup {"p"}
      sign == IF number THEN Sign(d) ELSE <<>>
      body == CASE number -> Figures(d)
                [] d.conv = "c" -> <<d.arg>>
                [] HasPrec(d) -> SubSeq(d.arg, 1, Min({d.prec.n, Len(d.arg)}))
                [] OTHER -> d.arg
      width == IF d.width.n < 0 THEN -d.width.n ELSE d.width.n
      gap == Max({0, width - Len(sign \o body)})
  IN  CASE Has(d, "-") \/ d.width.n < 0 -> sign \o body \o Times(gap, " ")
        [] ~Has(d, "-") /\ Has(d, "0") /\ ~HasPrec(d) -> sign \o Times(gap, "0") \o body
        [] OTHER -> Times(gap, " ") \o sign \o body

\* FormatRight.  A directive with a meaning in C becomes exactly the text C gives it,
\* between the text before and after it, the arguments of the next directive are found
\* where they are, and a buffer of bufsz bytes gets the output cut to fit and ended by
\* NUL while the length of the uncut output is returned (npf_vsnprintf and all below it).
FormatRight(d, bufsz) ==
  LET out == <<"a">> \o Standard(d) \o <<"%", "!">>
      r == npf_vsnprintf(bufsz, <<"a">> \o Text(d) \o <<"%", "%", "%", "c">>,
                         Arguments(d) \o <<"!">>)
  IN  Defined(d) =>
        /\ r.n = Len(out)
        /\ r.dst = IF bufsz = 0 THEN <<>>
                   ELSE SubSeq(out, 1, Min({bufsz - 1, Len(out)})) \o <<NUL>>

=============================================================================
