------------------------------- MODULE Money -------------------------------
(***************************************************************************)
(* Amounts of money between the database and Go (internal/pkg/money).      *)
(*                                                                         *)
(* A NUMERIC on the wire is an integer and an exponent of ten; one amount  *)
(* has many of them (1.20 is 12 * 10^-1 and 1200 * 10^-3).  A float64 is   *)
(* NaN, or is taken as the shortest decimal that denotes it, the one %v    *)
(* writes; every decimal of the twelve digits of a price column has one.   *)
(* Infinities are left out: %v writes "+Inf", which is refused like every  *)
(* number with an exponent.                                                *)
(***************************************************************************)
EXTENDS Integers

CONSTANTS
  MaxInt,    \* bound: the largest int64
  NaN        \* not a number, as a float64 and in a NUMERIC column

ASSUME MaxIntAssumption == MaxInt \in Nat
ASSUME NaNAssumption == NaN \notin Int

\* pgtype.Numeric: a number, NaN, or NULL, which is one that is not Valid.
Numeric(int, exp) == [kind |-> "number", int |-> int, exp |-> exp]

NaNNumeric == [kind |-> "nan", int |-> 0, exp |-> 0]

NullNumeric == [kind |-> "null", int |-> 0, exp |-> 0]

Decimal(int, exp) == [int |-> int, exp |-> exp]

Pow10[exponent \in Nat] == IF exponent = 0 THEN 1 ELSE 10 * Pow10[exponent - 1]

Abs(v) == IF v < 0 THEN -v ELSE v

-----------------------------------------------------------------------------
(* Cents, for APIs that count in them. *)

Refused == [ok |-> FALSE, cents |-> 0]

IsInt64(v) == v \in (-MaxInt - 1)..MaxInt

NumericToCents(n) ==
  LET scale == n.exp + 2
      exact == scale >= 0 \/ n.int % Pow10[-scale] = 0
      value == IF scale >= 0 THEN n.int * Pow10[scale] ELSE n.int \div Pow10[-scale]
  IN  IF n.kind = "number" /\ exact /\ IsInt64(value)
      THEN [ok |-> TRUE, cents |-> value]
      ELSE Refused

CentsToNumeric(cents) == IF cents < 0 THEN NullNumeric ELSE Numeric(cents, -2)

-----------------------------------------------------------------------------
(* Floats, which the generated resources use. *)

\* The amount is 10^k or more, whatever its sign.
AtLeast(value, k) ==
  IF value.exp >= k THEN value.int # 0 ELSE Abs(value.int) >= Pow10[k - value.exp]

\* %v writes an exponent below 10^-4 and from 10^6 on: 1000000 is "1e+06".
WithExponent(value) ==
  value.int # 0 /\ (~AtLeast(value, -4) \/ AtLeast(value, 6))

\* Variant: the digits behind the point are cut off.
Float64ToNumericWhole(value) ==
  CASE value = NaN -> [ok |-> TRUE, numeric |-> NaNNumeric]
    [] value # NaN /\ value.exp < 0 ->
         [ok |-> TRUE, numeric |-> Numeric(value.int \div Pow10[-value.exp], 0)]
    [] OTHER -> [ok |-> TRUE, numeric |-> Numeric(value.int, value.exp)]

\* Scan knows "NaN", digits and a point, but no exponent.
Float64ToNumeric(value) ==
  IF value = NaN THEN [ok |-> TRUE, numeric |-> NaNNumeric]
  ELSE IF WithExponent(value) THEN [ok |-> FALSE, numeric |-> NullNumeric]
  ELSE [ok |-> TRUE, numeric |-> Numeric(value.int, value.exp)]

NumericToFloat(n) ==
  CASE n.kind = "number" -> [ok |-> TRUE, float |-> Decimal(n.int, n.exp)]
    [] n.kind = "nan" -> [ok |-> TRUE, float |-> NaN]
    [] n.kind = "null" -> [ok |-> FALSE, float |-> Decimal(0, 0)]

-----------------------------------------------------------------------------
(* The price column, NUMERIC(12, 2). *)

\* The same amount, whatever the exponents.
SameAmount(a, b) ==
  IF a.exp <= b.exp
  THEN a.int = b.int * Pow10[b.exp - a.exp]
  ELSE a.int * Pow10[a.exp - b.exp] = b.int

\* A whole number of units nearest to int, halves away from zero.
Rounded(int, unit) ==
  IF int >= 0 THEN (2 * int + unit) \div (2 * unit)
              ELSE -((unit - 2 * int) \div (2 * unit))

\* What the column keeps of a value that is not NULL, in cents or NaN.
Kept(n) ==
  IF n.kind = "nan" THEN NaN
  ELSE IF n.exp >= -2 THEN n.int * Pow10[n.exp + 2]
  ELSE Rounded(n.int, Pow10[-2 - n.exp])

\* The forms in which the driver may hand a stored price to the program.
Forms(price) ==
  IF price = NaN THEN {NaNNumeric}
  ELSE {n \in {Numeric(price * Pow10[k], -2 - k) : k \in 0..2}
              \cup {Numeric(price \div Pow10[k], k - 2) : k \in 1..2} :
          SameAmount(n, Numeric(price, -2))}

\* The amount in units of 10^e, for an e that is at most its exponent.
Units(value, e) == value.int * Pow10[value.exp - e]

\* Two amounts are at most half a cent apart: 5 * 10^-3.
WithinHalfACent(a, b) ==
  LET e == CHOOSE e \in {a.exp, b.exp, -3} : \A f \in {a.exp, b.exp, -3} : e <= f
  IN  Abs(Units(a, e) - Units(b, e)) <= 5 * Pow10[-3 - e]
=============================================================================
