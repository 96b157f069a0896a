------------------------------- MODULE Numbers -------------------------------
(***************************************************************************)
(* The integers of libdar: infinint, of any size (real_infinint.cpp, on a  *)
(* storage in base Radix, the first byte being the highest), limitint,     *)
(* which stands for it when libdar is built for 32 or 64 bits and throws   *)
(* Elimitint instead of overflowing (limitint.hpp), and deci, what users   *)
(* read and write of them (deci.cpp).                                      *)
(***************************************************************************)
EXTENDS Integers, Sequences, FiniteSets, Bitwise

CONSTANTS BitsOfAByte, TG,  \* bits of a byte, bytes of a group
          FieldBytes,       \* bytes of the field of a limitint
          PAS,              \* bytes a deci starts with
          Operands,         \* numbers to calculate with, some with leading zeros
          Bits,             \* by how much numbers are shifted
          MaxValue          \* bound: results beyond it are not explored

VARIABLES number,   \* an infinint
          limited,  \* the limitint that went through the same calls, or Elimitint once it threw
          call      \* the call being made, with the value before it, or Idle

numberVars == <<number, limited, call>>

Radix == 2^BitsOfAByte
Low(s, k) == IF k <= Len(s) THEN s[Len(s) + 1 - k] ELSE 0   \* k-th byte from rbegin()
Zeros(n) == [i \in 1..n |-> 0]

Value(s) == LET v[i \in 0..Len(s)] == IF i = 0 THEN 0 ELSE v[i - 1] * Radix + s[i] IN v[Len(s)]

-----------------------------------------------------------------------------
(* infinint; what throws gives what is not a number. *)

Refusal == <<>>
Reduce(a) ==
  LET first == {i \in DOMAIN a : a[i] # 0}
  IN IF first = {} THEN <<0>>
     ELSE SubSeq(a, CHOOSE i \in first : \A j \in first : i <= j, Len(a))
MakeAtLeastAsWide(a, b) == IF Len(a) < Len(b) THEN Zeros(Len(b) - Len(a)) \o a ELSE a
WithCarry(a, retenue) == IF retenue = 0 THEN a ELSE <<retenue>> \o a

\* infinint_from, of the bytes of a machine integer.
From(v) == LET n == CHOOSE k \in 1..(v + 1) : v < Radix^k /\ (k = 1 \/ v >= Radix^(k - 1))
           IN [i \in 1..n |-> (v \div Radix^(n - i)) % Radix]

Difference(x, y) ==
  LET a == Reduce(x)
      b == Reduce(y)
      differ == {i \in DOMAIN a : i \in DOMAIN b /\ a[i] # b[i]}
      first == CHOOSE i \in differ : \A j \in differ : i <= j
  IN IF Len(a) # Len(b) THEN Len(a) - Len(b)
     ELSE IF differ = {} THEN 0 ELSE a[first] - b[first]

Add(x, b) ==
  LET a == MakeAtLeastAsWide(x, b)
      somme[k \in 0..Len(a)] == IF k = 0 THEN 0 ELSE Low(a, k) + Low(b, k) + somme[k - 1] \div Radix
  IN WithCarry([i \in DOMAIN a |-> somme[Len(a) + 1 - i] % Radix], somme[Len(a)] \div Radix)

\* The comparison that comes first reduces both.
Subtract(x, y) ==
  LET a == Reduce(x)
      b == Reduce(y)
      retenue[k \in 0..Len(a)] ==
        IF k = 0 THEN 0
        ELSE LET somme == Low(a, k) - Low(b, k) - retenue[k - 1]
             IN IF somme >= 0 THEN 0
                ELSE (-somme) \div Radix + (IF (-somme) % Radix # 0 THEN 1 ELSE 0)
      Digit(k) == LET somme == Low(a, k) - Low(b, k) - retenue[k - 1]
                  IN IF somme >= 0 THEN somme
                     ELSE IF (-somme) % Radix # 0 THEN Radix - ((-somme) % Radix) ELSE 0
  IN IF Difference(x, y) < 0 THEN Refusal ELSE [i \in DOMAIN a |-> Digit(Len(a) + 1 - i)]

MultiplyByte(a, n) ==
  LET produit[k \in 0..Len(a)] == IF k = 0 THEN 0 ELSE Low(a, k) * n + produit[k - 1] \div Radix
      product == WithCarry([i \in DOMAIN a |-> produit[Len(a) + 1 - i] % Radix], produit[Len(a)] \div Radix)
  IN IF n = 0 THEN Reduce(product) ELSE product

\* The bytes first, then the bits that are left, carried from each byte to the next.
ShiftBits(a, bit) ==
  [i \in DOMAIN a |-> (IF i = 1 THEN 0 ELSE (a[i - 1] % 2^bit) * 2^(BitsOfAByte - bit)) + (a[i] \div 2^bit)]
ShiftRight(a, n) ==
  LET byte == n \div BitsOfAByte
  IN IF byte >= Len(a) THEN <<0>> ELSE ShiftBits(SubSeq(a, 1, Len(a) - byte), n % BitsOfAByte)
\* One byte more for the bits, then shifted the other way, once reduced by
\* a comparison with zero.
ShiftLeft(x, n) ==
  LET a == Reduce(x)
      bit == n % BitsOfAByte
      wide == a \o Zeros(n \div BitsOfAByte + (IF bit = 0 THEN 0 ELSE 1))
  IN IF Difference(a, <<0>>) = 0 THEN a
     ELSE IF bit = 0 THEN wide ELSE ShiftBits(wide, BitsOfAByte - bit)

Multiply(a, b) ==
  LET ret[i \in 0..Len(a)] ==
        IF i = 0 THEN <<0>> ELSE Add(ShiftLeft(ret[i - 1], BitsOfAByte), MultiplyByte(b, a[i]))
  IN ret[Len(a)]
Power(a, n) == LET ret[i \in 0..n] == IF i = 0 THEN <<1>> ELSE Multiply(ret[i - 1], a) IN ret[n]

\* Bits the argument does not have are lost by & alone.
BitByBit(Op(_, _), x, b) ==
  LET a == MakeAtLeastAsWide(x, b)
  IN [i \in DOMAIN a |-> IF Len(a) + 1 - i <= Len(b) THEN Op(a[i], Low(b, Len(a) + 1 - i)) ELSE a[i]]
BitAnd(x, b) ==
  LET a == BitByBit(LAMBDA m, n : m & n, x, b)
  IN IF Len(a) = Len(b) THEN a
     ELSE Reduce([i \in DOMAIN a |-> IF Len(a) + 1 - i <= Len(b) THEN a[i] ELSE 0])
BitOr(x, b) == BitByBit(LAMBDA m, n : m | n, x, b)
BitXor(x, b) == BitByBit(LAMBDA m, n : m ^^ n, x, b)

\* The divisor is shifted above the dividend, byte by byte, and back.
RECURSIVE Above(_, _)
Above(a, r) == IF Len(a) < Len(r) THEN r ELSE Above(a, ShiftLeft(r, BitsOfAByte))
RECURSIVE Taken(_, _, _)
Taken(a, r, q) == IF Difference(r, a) <= 0 THEN Taken(Subtract(a, r), r, Add(q, <<1>>)) ELSE [a |-> a, q |-> q]
RECURSIVE Divide(_, _, _, _)
Divide(a, b, q, r) ==
  IF Difference(b, r) >= 0 THEN [q |-> q, r |-> a]
  ELSE LET s == ShiftRight(r, BitsOfAByte)
           t == Taken(a, s, ShiftLeft(q, BitsOfAByte))
       IN Divide(t.a, b, t.q, s)
Euclide(a, b) ==
  IF Difference(b, <<0>>) = 0 THEN [q |-> Refusal, r |-> Refusal]
  ELSE IF Difference(a, b) < 0 THEN [q |-> <<0>>, r |-> a]
  ELSE Divide(Reduce(a), b, <<0>>, Above(Reduce(a), Reduce(b)))

\* unstack, to an integer that holds v and may hold max.
Unstack(a, v, max) ==
  LET step == From(max - v)
  IN IF Difference(a, step) < 0 THEN [v |-> v + Value(a), left |-> Subtract(a, a)]
     ELSE [v |-> max, left |-> Subtract(a, step)]

(* A preamble says in how many groups of TG bytes the number is: one bit set
   in as many bits as there are groups. *)
Dump(x) ==
  LET a == IF x[1] = 0 THEN Reduce(x) ELSE x
      groups == Len(a) \div TG + (IF Len(a) % TG = 0 THEN 0 ELSE 1)
      pos == groups % BitsOfAByte
      preamble == IF pos = 0 THEN Append(Zeros(groups \div BitsOfAByte - 1), 1)
                  ELSE Append(Zeros(groups \div BitsOfAByte), 2^(BitsOfAByte - pos))
  IN preamble \o (IF Len(a) % TG = 0 THEN <<>> ELSE Zeros(TG - (Len(a) % TG))) \o a

FirstSet(f) == LET set == {i \in DOMAIN f : f[i] # 0} IN CHOOSE i \in set : \A j \in set : i <= j
SizeRead(f) ==
  LET k == FirstSet(f)
      bit == CHOOSE p \in 1..BitsOfAByte : f[k] = 2^(BitsOfAByte - p)
  IN ((k - 1) * BitsOfAByte + bit) * TG
\* The first byte set has one bit set, and the groups it announces are there.
Preambled(f) ==
  (\E i \in DOMAIN f : f[i] # 0) /\ f[FirstSet(f)] \in {2^p : p \in 0..(BitsOfAByte - 1)}
IsNumber(f) == Preambled(f) /\ FirstSet(f) + SizeRead(f) <= Len(f)
BuildFromFile(f) ==
  LET end == FirstSet(f) + SizeRead(f)
  IN IF IsNumber(f) THEN [number |-> Reduce(SubSeq(f, FirstSet(f) + 1, end)), used |-> end]
     ELSE [number |-> Refusal, used |-> Len(f)]

-----------------------------------------------------------------------------
(* limitint: what is thrown (a division by zero too) stands below every number. *)

Elimitint == -1
Erange == -2
Width == FieldBytes * BitsOfAByte
Wrap(v) == v % 2^Width
HigherPowerOf2(v) == CHOOSE i \in 0..Width : v \div 2^i <= 1 /\ (i = 0 \/ v \div 2^(i - 1) > 1)

\* The addition may have wrapped.
LimitAdd(f, g) == IF Wrap(f + g) < f \/ Wrap(f + g) < g THEN Elimitint ELSE Wrap(f + g)
LimitSubtract(f, g) == IF f < g THEN Erange ELSE f - g
\* What could overflow is refused, be it that it would not have.
LimitMultiply(f, g) ==
  IF HigherPowerOf2(f) + HigherPowerOf2(g) + 1 > Width - 1 THEN Elimitint
  ELSE IF f # 0 /\ g # 0 /\ (Wrap(f * g) < f \/ Wrap(f * g) < g) THEN Elimitint
  ELSE Wrap(f * g)
LimitQuotient(f, g) == IF g = 0 THEN Erange ELSE f \div g
LimitRemainder(f, g) == IF g = 0 THEN Erange ELSE f % g
LimitPower(f, n) == LET ret[i \in 0..n] == IF i = 0 THEN 1 ELSE IF ret[i - 1] < 0 THEN ret[i - 1] ELSE LimitMultiply(ret[i - 1], f)
                    IN ret[n]
LimitAnd(f, g) == f & g
LimitOr(f, g) == f | g
LimitXor(f, g) == f ^^ g
LimitShiftRight(f, n) == IF n >= Width THEN 0 ELSE f \div 2^n
LimitShiftLeft(f, n) == IF n + HigherPowerOf2(f) >= Width THEN Elimitint ELSE Wrap(f * 2^n)
\* To an integer no wider than the field.
LimitUnstack(f, v, max) ==
  IF f < max - v THEN [v |-> v + f, left |-> 0] ELSE [v |-> max, left |-> f - (max - v)]

LimitDump(f) == Dump(From(f))
\* How much could be read is not looked at: the bytes that are missing are zero.
LimitRead(file) ==
  LET size == SizeRead(file)
      end == FirstSet(file) + size
      bytes == SubSeq(file, FirstSet(file) + 1, IF end <= Len(file) THEN end ELSE Len(file))
  IN IF ~Preambled(file) THEN Erange ELSE IF size > FieldBytes THEN Elimitint ELSE Value(bytes \o Zeros(size - Len(bytes)))

-----------------------------------------------------------------------------
(* deci: two digits in a byte, here a sequence of digits; None fills it. *)

None == 15
Significant(digits) == SelectSeq(digits, LAMBDA c : c # None)

\* deci::reduce: bytes without a digit left are removed, but the last one.
ReduceDigits(d) ==
  LET zeros == {i \in DOMAIN d : \A j \in 1..i : d[j] \in {0, None}}
      marked == [i \in DOMAIN d |-> IF i \in zeros THEN None ELSE d[i]]
      bytes == Cardinality(zeros) \div 2
  IN IF bytes * 2 = Len(d) THEN <<None, 0>> ELSE SubSeq(marked, bytes * 2 + 1, Len(d))

\* decicoupe: digits come from the lowest; PAS bytes more when there is no room.
Decicoupe(x) ==
  LET digits[n \in 0..x] == IF n = 0 THEN <<>> ELSE Append(digits[n \div 10], n % 10)
      n == Len(digits[x])
      bytes == n \div 2 + (n % 2)
      room == IF bytes <= PAS THEN PAS ELSE PAS * ((bytes + PAS - 1) \div PAS)
  IN [i \in 1..(room * 2 - n) |-> None] \o digits[x]
DeciOf(x) == ReduceDigits(Decicoupe(x))

DeciOfString(s) ==
  IF s = <<>> THEN Refusal
  ELSE ReduceDigits(IF Len(s) % 2 = 0 THEN s ELSE <<None>> \o s)
Human(d) == Significant(d)
Computer(d) ==
  LET s == Significant(d)
      r[i \in 0..Len(s)] == IF i = 0 THEN 0 ELSE r[i - 1] * 10 + s[i]
  IN r[Len(s)]

-----------------------------------------------------------------------------
(* A number goes through calls of any kind, in both classes: an infinint may  *)
(* then have leading zeros; what is thrown leaves the objects as they were,   *)
(* and a limitint that threw Elimitint ends the command it was used by.       *)

Idle == [op |-> "none"]

\* A call of both classes, of which v stands for what else it gave.
Calls(op, b, result, limit, v) ==
  /\ call = Idle
  /\ number' = IF result = Refusal THEN Reduce(number) ELSE result
  /\ limited' = IF limited = Elimitint \/ Value(b) >= 2^Width THEN Elimitint ELSE IF limit = Erange THEN limited ELSE limit
  /\ call' = [op |-> op, arg |-> Value(b), was |-> Value(number), held |-> limited, v |-> v,
              refused |-> <<result = Refusal, limit = Erange>>]
  /\ Value(number') <= MaxValue
Limit(f, Op(_, _), g) == IF f < 0 THEN f ELSE Op(f, g)

PlusEqual(b) == Calls("+", b, Add(number, b), Limit(limited, LimitAdd, Value(b)), 0)
MinusEqual(b) == Calls("-", b, Subtract(number, b), Limit(limited, LimitSubtract, Value(b)), 0)
MultiplyEqual(b) ==
  Value(number) * Value(b) <= MaxValue /\ Calls("*", b, Multiply(number, b), Limit(limited, LimitMultiply, Value(b)), 0)
DivideEqual(b) == Calls("/", b, Euclide(number, b).q, Limit(limited, LimitQuotient, Value(b)), 0)
ModuloEqual(b) == Calls("%", b, Euclide(number, b).r, Limit(limited, LimitRemainder, Value(b)), 0)
AndEqual(b) == Calls("&", b, BitAnd(number, b), Limit(limited, LimitAnd, Value(b)), 0)
OrEqual(b) == Calls("|", b, BitOr(number, b), Limit(limited, LimitOr, Value(b)), 0)
XorEqual(b) == Calls("^", b, BitXor(number, b), Limit(limited, LimitXor, Value(b)), 0)
RightShift(n) == Calls(">>", From(n), ShiftRight(number, n), Limit(limited, LimitShiftRight, n), 0)
LeftShift(n) ==
  Value(number) * 2^n <= MaxValue /\ Calls("<<", From(n), ShiftLeft(number, n), Limit(limited, LimitShiftLeft, n), 0)
PowerOf(n) ==
  Value(number)^n <= MaxValue /\ Calls("power", From(n), Power(number, n), Limit(limited, LimitPower, n), 0)
Compare(b) == Calls("?", b, Reduce(number), limited, Difference(number, b))

\* Into an integer that holds v and may hold max.
UnstackTo(v, max) ==
  LET left(f, room) == LimitUnstack(f, v, max).left
  IN Calls("unstack", From(v), Unstack(number, v, max).left, Limit(limited, left, max - v), Unstack(number, v, max).v)

\* Written by one class and read by the same or by the other, whatever follows.
ReadByBoth(file) == Calls("read", <<0>>, BuildFromFile(file).number, IF limited < 0 THEN limited ELSE LimitRead(file), 0)
Stored(tail) == ReadByBoth(Dump(number) \o tail)
StoredByLimitint(tail) == limited >= 0 /\ ReadByBoth(LimitDump(limited) \o tail)
\* Into other objects, from a file cut after k bytes; v is the limitint.
StoredAndCut(k) ==
  LET file == SubSeq(Dump(number), 1, k)
      read == BuildFromFile(file).number
  IN k < Len(Dump(number)) /\ Calls("read cut", <<k>>, read, limited, LimitRead(file))

\* Displayed, and typed again with some zeros before.
Retyped(zeros) ==
  LET digits == Human(DeciOf(Value(number)))
      typed == Computer(DeciOfString(Zeros(zeros) \o digits))
  IN Calls("deci", <<0>>, From(typed), IF limited < 0 THEN limited ELSE typed, digits[1])

Return == call # Idle /\ call' = Idle /\ UNCHANGED <<number, limited>>

NumbersInit == number = <<0>> /\ limited = 0 /\ call = Idle
NumbersNext ==
  \/ \E b \in Operands :
       \/ PlusEqual(b) \/ MinusEqual(b) \/ MultiplyEqual(b) \/ DivideEqual(b) \/ ModuloEqual(b)
       \/ AndEqual(b) \/ OrEqual(b) \/ XorEqual(b) \/ Compare(b)
  \/ \E n \in Bits : RightShift(n) \/ LeftShift(n)
  \/ \E n \in 1..3 : PowerOf(n)
  \/ \E v \in {0, 2, 5} : UnstackTo(v, 5)
  \/ \E tail \in {<<>>, <<1, 2>>} : Stored(tail) \/ StoredByLimitint(tail)
  \/ \E k \in 0..Len(Dump(number)) : StoredAndCut(k)
  \/ \E zeros \in 0..2 : Retyped(zeros)
  \/ Return

-----------------------------------------------------------------------------
(* What these are: the operations of the integers. *)

\* What an integer would be after the call; the rest of an unstack is in v.
Expected(c) ==
  CASE c.op = "+" -> c.was + c.arg
    [] c.op = "-" -> c.was - c.arg
    [] c.op = "*" -> c.was * c.arg
    [] c.op = "/" -> c.was \div c.arg
    [] c.op = "%" -> c.was % c.arg
    [] c.op = "&" -> c.was & c.arg
    [] c.op = "|" -> c.was | c.arg
    [] c.op = "^" -> c.was ^^ c.arg
    [] c.op = ">>" -> c.was \div 2^c.arg
    [] c.op = "<<" -> c.was * 2^c.arg
    [] c.op = "power" -> c.was^c.arg
    [] c.op = "unstack" -> c.was + c.arg - c.v
    [] c.op \in {"?", "read", "read cut", "deci"} -> c.was

\* Whatever calls were made before, with or without leading zeros, a result is
\* exact; a subtraction that would go below zero, a division by zero and a
\* number that was cut are refused, and nothing else is.
InfinintIsExact ==
  call # Idle =>
    LET impossible == (call.op = "-" /\ call.was < call.arg) \/ (call.op \in {"/", "%"} /\ call.arg = 0)
    IN /\ call.refused[1] <=> impossible \/ call.op = "read cut"
       /\ Value(number) = IF call.refused[1] THEN call.was ELSE Expected(call)
       /\ call.op = "?" => (call.v < 0 <=> call.was < call.arg) /\ (call.v = 0 <=> call.was = call.arg)
       /\ call.op = "unstack" => call.v <= 5 /\ (call.v = 5 \/ Value(number) = 0)
       /\ call.op = "deci" => (call.v = 0 <=> call.was = 0)
\* A limitint is the same number or refused it: whenever it is too small for
\* it, and for sums, differences, quotients and files only then.
LimitintIsExact ==
  /\ limited \in {Elimitint, Value(number)}
  /\ Value(number) >= 2^Width => limited = Elimitint
  /\ (call # Idle /\ call.held >= 0 /\ limited = Elimitint) =>
       call.op \in {"*", "<<", "power"} \/ call.arg >= 2^Width \/ Value(number) >= 2^Width
  /\ (call # Idle /\ limited >= 0 /\ call.op # "read cut") => call.refused[1] = call.refused[2]
\* A number that was cut is not refused by a limitint once its size was read:
\* the lowest bytes are then zero.
CutIsRead ==
  (call # Idle /\ call.op = "read cut") =>
    \/ call.v \in {Erange, Elimitint}
    \/ \E missing \in 1..FieldBytes : call.v = (call.was \div Radix^missing) * Radix^missing
=============================================================================
