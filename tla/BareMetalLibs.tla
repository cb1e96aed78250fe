---------------------------- MODULE BareMetalLibs ----------------------------
(***************************************************************************)
(* The arithmetic and printing of bare metal programs: the division of     *)
(* software/libs/softint64.c, uart_putint and uart_puthex of uart.c and    *)
(* the number conversions of printf.c, on numbers of BITS bits instead of  *)
(* 64 and 32.  What is printed is a sequence of digits, signs and PADs.    *)
(***************************************************************************)
EXTENDS Integers, Sequences, SequencesExt, FiniteSetsExt

CONSTANTS BITS,           \* bits of a number; a multiple of 4
          TEN,            \* the base of uart_putint and %d
          Widths          \* field widths of a conversion

ASSUME LibsAssumption == BITS \in {4, 8} /\ TEN \in 2 .. 10 /\ Widths \subseteq Nat

VARIABLES request, output   \* what was called with which arguments, what it printed

libs_vars == <<request, output>>

MINUS == -1
PLUS == -2
SPACE == -3
Word == 0 .. 2 ^ BITS - 1
INT_MIN == -(2 ^ (BITS - 1))
Signed == INT_MIN .. 2 ^ (BITS - 1) - 1
Wrap(v) == IF v > 2 ^ (BITS - 1) - 1 THEN v - 2 ^ BITS ELSE v
BitOf(n, i) == (n \div 2 ^ i) % 2

-----------------------------------------------------------------------------
(* Operators for the functions of the libraries *)

\* One round of __udivmoddi4: the next bit of n comes into the remainder.
KeepsGreater(r, d) == r > d \* mutant
Fits(r, d) == r >= d
Round(acc, n, d, i) ==
  LET r == (acc.r * 2 + BitOf(n, i)) % 2 ^ BITS
  IN IF Fits(r, d) THEN [q |-> acc.q + 2 ^ i, r |-> r - d] ELSE [acc EXCEPT !.r = r]
udivmoddi4(n, d) ==
  FoldLeftDomain(LAMBDA acc, k : Round(acc, n, d, BITS - k), [q |-> 0, r |-> 0], [k \in 1 .. BITS |-> k])

\* The digits of v in a base, the last first: do while (v > 0).
Digits(v, base) ==
  LET length == CHOOSE n \in 0 .. BITS : base ^ n > v /\ (n = 0 \/ base ^ (n - 1) <= v)
  IN [k \in 1 .. length |-> (v \div base ^ (k - 1)) % base]

\* The buffer is printed from its end.
InOrder(digits) == digits \* mutant
FromBuffer(digits) == Reverse(digits)

\* uart_putint: val = -val leaves the least integer as it is, and then no
\* digit is put in the buffer.
uart_putint(val) ==
  LET magnitude == Wrap(IF val < 0 THEN -val ELSE val)
  IN IF magnitude = 0 THEN <<0>>
     ELSE (IF val < 0 THEN <<MINUS>> ELSE <<>>)
          \o (IF magnitude > 0 THEN FromBuffer(Digits(magnitude, TEN)) ELSE <<>>)

\* uart_puthex: every nibble, the highest first.
uart_puthex(val) == [k \in 1 .. BITS \div 4 |-> (val \div 16 ^ (BITS \div 4 - k)) % 16]

Flags == [left : BOOLEAN, zero : BOOLEAN, plus : BOOLEAN, space : BOOLEAN]

\* uvprintf, one conversion of a number: sign, then where the padding goes.
ZeroBeforeSign(f, sign, pad, digits) == IF f.left THEN sign \o digits \o pad ELSE pad \o sign \o digits \* mutant
Field(f, sign, pad, digits) ==
  IF f.left THEN sign \o digits \o pad
  ELSE IF f.zero THEN sign \o pad \o digits ELSE pad \o sign \o digits

Conversion(f, width, negative, uv, base) ==
  LET sign == IF negative THEN <<MINUS>> ELSE IF base # TEN THEN <<>>
              ELSE IF f.plus THEN <<PLUS>> ELSE IF f.space THEN <<SPACE>> ELSE <<>>
      digits == IF uv = 0 THEN <<0>> ELSE FromBuffer(Digits(uv, base))
      missing == width - (Len(digits) + Len(sign))
      pad == [k \in 1 .. (IF missing < 0 THEN 0 ELSE missing) |-> IF f.zero /\ ~f.left THEN 0 ELSE SPACE]
  IN Field(f, sign, pad, digits)

\* %d, whose -sv is taken as unsigned, and %x.
PrintD(f, width, sv) == Conversion(f, width, sv < 0, IF sv < 0 THEN -sv ELSE sv, TEN)
PrintX(f, width, uv) == Conversion(f, width, FALSE, uv, 16)

-----------------------------------------------------------------------------
Request(c, out) == request = <<>> /\ request' = c /\ output' = out

Divide == \E n, d \in Word : LET qr == udivmoddi4(n, d) IN Request(<<"div", n, d>>, <<qr.q, qr.r>>)
Putint == \E v \in Signed : Request(<<"putint", v>>, uart_putint(v))
Puthex == \E v \in Word : Request(<<"puthex", v>>, uart_puthex(v))
Printf == \E f \in Flags, w \in Widths :
            \/ \E v \in Signed : Request(<<"d", v, w, f>>, PrintD(f, w, v))
            \/ \E v \in Word : Request(<<"x", v, w, f>>, PrintX(f, w, v))

LibsInit == request = <<>> /\ output = <<>>
LibsNext == Divide \/ Putint \/ Puthex \/ Printf
LibsSpec == LibsInit /\ [][LibsNext]_libs_vars

-----------------------------------------------------------------------------
(* Properties *)

\* __udivmoddi4: quotient and remainder of every division, the divisors above
\* half the range included, where the remainder uses every bit.
DivisionIsRight ==
  request # <<>> /\ request[1] = "div" /\ request[3] # 0 =>
    output[1] = request[2] \div request[3] /\ output[2] = request[2] % request[3]

\* What a reader makes of printed digits and signs.
Numerals(s) == SelectSeq(s, LAMBDA c : c \notin {MINUS, PLUS, SPACE})
Negative(s) == \E k \in DOMAIN s : s[k] = MINUS
ReadBack(s, base) ==
  LET n == FoldLeft(LAMBDA v, c : v * base + c, 0, Numerals(s)) IN IF Negative(s) THEN -n ELSE n

\* uart_putint, uart_puthex and uvprintf: read back, what is printed is the
\* number, for every flag and width; uart_putint leaves out the digits of the
\* least integer.
PrintedIsTheNumber ==
  LET base == IF request[1] \in {"x", "puthex"} THEN 16 ELSE TEN
  IN request # <<>> /\ request[1] # "div" /\ request # <<"putint", INT_MIN>> =>
       Numerals(output) # <<>> /\ ReadBack(output, base) = request[2]

\* uvprintf: a field is at least as wide as asked for, and what fills it stands
\* where a number still reads as one: no blank or zero before the sign's digits
\* that the flags do not ask for.
FieldIsWellFormed ==
  request # <<>> /\ request[1] \in {"d", "x"} =>
    /\ Len(output) >= request[3]
    /\ \A k \in DOMAIN output : output[k] \in {MINUS, PLUS} =>
         \A j \in 1 .. k - 1 : output[j] = SPACE

\* Division and printing without hardware or library under them are right to
\* the last bit, digit and blank.
LibrariesAreRight == DivisionIsRight /\ PrintedIsTheNumber /\ FieldIsWellFormed
=============================================================================
