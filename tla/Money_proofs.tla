---------------------------- MODULE Money_proofs ----------------------------
(***************************************************************************)
(* Lemmas about the powers of ten and the conversions of module Money.     *)
(*                                                                         *)
(* Pow10 is a recursive function, so that there is such a function has to  *)
(* be proved before anything can be said of its values.  The proof is by   *)
(* induction over sets of numbers: the subsets of Nat that are finite are  *)
(* well founded under inclusion, and so the intervals 0..n are.            *)
(***************************************************************************)
EXTENDS Money, FiniteSetTheorems, TLAPS

-----------------------------------------------------------------------------
(* Induction. *)

\* A set that has 0 and every successor of its numbers has all of them.
LEMMA Induction ==
  ASSUME NEW S, 0 \in S, \A n \in Nat : n \in S => n + 1 \in S
  PROVE  Nat \subseteq S
<1>. DEFINE rest == {0..n : n \in Nat \ S}
<1>. SUFFICES ASSUME ~(Nat \subseteq S) PROVE FALSE
  OBVIOUS
<1>1. rest # {}
  OBVIOUS
<1>2. rest \subseteq FiniteSubsetsOf(Nat)
  <2>1. SUFFICES ASSUME NEW n \in Nat PROVE 0..n \in FiniteSubsetsOf(Nat)
    OBVIOUS
  <2>2. IsFiniteSet(0..n)
    BY FS_Interval
  <2>. QED  BY <2>2 DEF FiniteSubsetsOf
<1>3. IsWellFoundedOn(StrictSubsetOrdering(Nat), FiniteSubsetsOf(Nat))
  BY FS_StrictSubsetOrderingWellFounded
<1>. HIDE DEF rest
<1>4. PICK least \in rest : \A y \in rest : <<y, least>> \notin StrictSubsetOrdering(Nat)
  BY <1>1, <1>2, <1>3, WFMin
<1>5. PICK n \in Nat \ S : least = 0..n
  BY <1>4 DEF rest
<1>6. n # 0 /\ n - 1 \in Nat \ S
  <2>1. n # 0 /\ n - 1 \in Nat /\ (n - 1) + 1 = n
    OBVIOUS
  <2>. QED  BY <2>1
<1>7. 0..(n - 1) \in rest
  BY <1>6 DEF rest
<1>8. <<0..(n - 1), 0..n>> \in StrictSubsetOrdering(Nat)
  <2>1. n \in 0..n /\ n \notin 0..(n - 1)
    BY <1>6
  <2>2. 0..(n - 1) \subseteq 0..n /\ 0..(n - 1) # 0..n
    BY <1>6, <2>1
  <2>. QED  BY <2>2 DEF StrictSubsetOrdering
<1>. QED  BY <1>4, <1>5, <1>7, <1>8

-----------------------------------------------------------------------------
(* Powers of ten. *)

\* The tables of the powers up to n.
Tables(n) ==
  {g \in [0..n -> Nat] : g[0] = 1 /\ \A m \in 1..n : g[m] = 10 * g[m - 1]}

\* There is a table of each length.
LEMMA TablesExist == \A n \in Nat : Tables(n) # {}
<1>. DEFINE S == {n \in Nat : Tables(n) # {}}
<1>1. 0 \in S
  <2>1. [m \in 0..0 |-> 1] \in Tables(0)
    BY DEF Tables
  <2>. QED  BY <2>1
<1>2. ASSUME NEW n \in Nat, n \in S PROVE n + 1 \in S
  <2>1. PICK g : g \in Tables(n)
    BY <1>2
  <2>. DEFINE h == [m \in 0..n + 1 |-> IF m = n + 1 THEN 10 * g[n] ELSE g[m]]
  <2>2. h \in [0..n + 1 -> Nat]
    BY <2>1 DEF Tables
  <2>3. h[0] = 1
    BY <2>1 DEF Tables
  <2>4. ASSUME NEW m \in 1..n + 1 PROVE h[m] = 10 * h[m - 1]
    BY <2>1 DEF Tables
  <2>5. h \in Tables(n + 1)
    BY <2>2, <2>3, <2>4 DEF Tables
  <2>. QED  BY <2>5
<1>. HIDE DEF S
<1>3. Nat \subseteq S
  BY <1>1, <1>2, Induction
<1>. QED  BY <1>3 DEF S

\* Two tables agree where both have a value.
LEMMA TablesAgree ==
  ASSUME NEW i \in Nat, NEW j \in Nat, NEW g \in Tables(i), NEW h \in Tables(j)
  PROVE  \A m \in Nat : m <= i /\ m <= j => g[m] = h[m]
<1>. DEFINE S == {m \in Nat : m <= i /\ m <= j => g[m] = h[m]}
<1>1. 0 \in S
  BY DEF Tables
<1>2. ASSUME NEW m \in Nat, m \in S PROVE m + 1 \in S
  <2>. SUFFICES ASSUME m + 1 <= i, m + 1 <= j PROVE g[m + 1] = h[m + 1]
    OBVIOUS
  <2>1. g[m] = h[m] /\ m + 1 \in 1..i /\ m + 1 \in 1..j /\ (m + 1) - 1 = m
    BY <1>2
  <2>2. g[m + 1] = 10 * g[m] /\ h[m + 1] = 10 * h[m]
    BY <2>1 DEF Tables
  <2>. QED  BY <2>1, <2>2
<1>. HIDE DEF S
<1>3. Nat \subseteq S
  BY <1>1, <1>2, Induction
<1>. QED  BY <1>3 DEF S

\* The powers of ten are what their recursion says.
LEMMA Pow10Values ==
  /\ Pow10 \in [Nat -> Nat]
  /\ Pow10[0] = 1
  /\ \A n \in Nat : Pow10[n + 1] = 10 * Pow10[n]
<1>. DEFINE table(n) == CHOOSE g : g \in Tables(n)
            F(f) == [n \in Nat |-> IF n = 0 THEN 1 ELSE 10 * f[n - 1]]
            power == [n \in Nat |-> table(n)[n]]
<1>1. \A n \in Nat : table(n) \in Tables(n)
  BY TablesExist
<1>2. \A n \in Nat : power[n] \in Nat
  BY <1>1 DEF Tables
<1>. HIDE DEF table
<1>3. power[0] = 1
  BY <1>1 DEF Tables
<1>4. ASSUME NEW n \in Nat PROVE power[n + 1] = 10 * power[n]
  <2>1. table(n + 1)[n + 1] = 10 * table(n + 1)[n]
    <3>1. n + 1 \in 1..n + 1 /\ (n + 1) - 1 = n /\ table(n + 1) \in Tables(n + 1)
      BY <1>1
    <3>. QED  BY <3>1 DEF Tables
  <2>2. table(n + 1)[n] = table(n)[n]
    BY <1>1, TablesAgree
  <2>. QED  BY <2>1, <2>2
<1>5. power = F(power)
  <2>1. ASSUME NEW n \in Nat
        PROVE  power[n] = IF n = 0 THEN 1 ELSE 10 * power[n - 1]
    <3>1. CASE n = 0
      BY <1>3, <3>1
    <3>2. CASE n # 0
      <4>1. n - 1 \in Nat /\ (n - 1) + 1 = n
        BY <3>2
      <4>. QED  BY <1>4, <3>2, <4>1
    <3>. QED  BY <3>1, <3>2
  <2>2. power = [n \in Nat |-> power[n]]
    OBVIOUS
  <2>. QED  BY <2>1, <2>2
<1>. HIDE DEF power
<1>6. Pow10 = F(Pow10)
  <2>1. \E f : f = F(f)
    BY <1>5
  <2>2. Pow10 = CHOOSE f : f = F(f)
    BY DEF Pow10
  <2>. QED  BY <2>1, <2>2
<1>. HIDE DEF F
<1>7. \A n \in Nat : Pow10[n] = IF n = 0 THEN 1 ELSE 10 * Pow10[n - 1]
  BY <1>6 DEF F
<1>8. Pow10[0] = 1
  BY <1>7
<1>9. \A n \in Nat : Pow10[n + 1] = 10 * Pow10[n]
  <2>1. \A n \in Nat : n + 1 \in Nat /\ n + 1 # 0 /\ (n + 1) - 1 = n
    OBVIOUS
  <2>. QED  BY <1>7, <2>1
<1>10. \A n \in Nat : Pow10[n] \in Nat
  <2>. DEFINE S == {n \in Nat : Pow10[n] \in Nat}
  <2>1. 0 \in S /\ \A n \in Nat : n \in S => n + 1 \in S
    BY <1>8, <1>9
  <2>. HIDE DEF S
  <2>2. Nat \subseteq S
    BY <2>1, Induction
  <2>. QED  BY <2>2 DEF S
<1>11. Pow10 = [n \in Nat |-> Pow10[n]]
  BY <1>6 DEF F
<1>. QED  BY <1>8, <1>9, <1>10, <1>11

\* No power of ten is zero.
LEMMA Pow10Positive == \A n \in Nat : Pow10[n] \in Nat \ {0}
<1>. DEFINE S == {n \in Nat : Pow10[n] \in Nat \ {0}}
<1>1. 0 \in S /\ \A n \in Nat : n \in S => n + 1 \in S
  BY Pow10Values
<1>. HIDE DEF S
<1>2. Nat \subseteq S
  BY <1>1, Induction
<1>. QED  BY <1>2 DEF S

\* The powers that a price column needs.
LEMMA Pow10Small == Pow10[1] = 10 /\ Pow10[2] = 100
<1>1. Pow10[0 + 1] = 10 * Pow10[0] /\ Pow10[1 + 1] = 10 * Pow10[1]
  BY Pow10Values
<1>. QED  BY <1>1, Pow10Values

-----------------------------------------------------------------------------
(* Conversions. *)

\* A multiple of a unit is divided without a rest.
LEMMA Multiple ==
  ASSUME NEW c \in Int, NEW unit \in Nat \ {0}
  PROVE  (c * unit) % unit = 0 /\ (c * unit) \div unit = c
OBVIOUS

\* What is divided without a rest is a multiple of the unit.
LEMMA Divided ==
  ASSUME NEW v \in Int, NEW unit \in Nat \ {0}, v % unit = 0
  PROVE  v \div unit \in Int /\ v = (v \div unit) * unit
OBVIOUS

\* A rest that is smaller than the unit is dropped.
LEMMA RestIsDropped ==
  ASSUME NEW c \in Int, NEW unit \in Nat \ {0}, NEW rest \in 0..unit - 1
  PROVE  (c * unit + rest) \div unit = c
OBVIOUS

\* What the driver may hand to the program: any integer, any exponent, NaN, NULL.
Numerics == [kind : {"number", "nan", "null"}, int : Int, exp : Int]

\* An amount is c cents exactly if scaling it to cents gives c.
LEMMA ScaledToCents ==
  ASSUME NEW n \in Numerics, NEW c \in Int
  PROVE  SameAmount(n, Numeric(c, -2)) <=>
           IF n.exp + 2 >= 0
           THEN n.int * Pow10[n.exp + 2] = c
           ELSE n.int = c * Pow10[-(n.exp + 2)]
<1>1. n.int \in Int /\ n.exp \in Int
  BY DEF Numerics
<1>2. Numeric(c, -2).int = c /\ Numeric(c, -2).exp = -2
  BY DEF Numeric
<1>3. CASE n.exp + 2 < 0
  <2>1. -2 - n.exp = -(n.exp + 2) /\ n.exp <= -2 /\ ~(n.exp + 2 >= 0)
    BY <1>1, <1>3
  <2>. QED  BY <1>2, <2>1 DEF SameAmount
<1>4. CASE n.exp + 2 = 0
  <2>1. n.exp = -2 /\ -2 - n.exp = 0 /\ n.exp + 2 = 0
    BY <1>1, <1>4
  <2>. QED  BY <1>1, <1>2, <2>1, Pow10Values DEF SameAmount
<1>5. CASE n.exp + 2 > 0
  <2>1. n.exp - (-2) = n.exp + 2 /\ ~(n.exp <= -2) /\ n.exp + 2 >= 0
    BY <1>1, <1>5
  <2>. QED  BY <1>2, <2>1 DEF SameAmount
<1>. QED  BY <1>1, <1>3, <1>4, <1>5

\* NumericToCents gives c exactly if the amount is c cents, to the last digit,
\* and c is an int64 (numeric.go 13-37).
THEOREM CentsAreTheAmount ==
  ASSUME NEW n \in Numerics, NEW c \in Int
  PROVE  NumericToCents(n) = [ok |-> TRUE, cents |-> c] <=>
           n.kind = "number" /\ IsInt64(c) /\ SameAmount(n, Numeric(c, -2))
<1>. DEFINE scale == n.exp + 2
            exact == scale >= 0 \/ n.int % Pow10[-scale] = 0
            value == IF scale >= 0 THEN n.int * Pow10[scale] ELSE n.int \div Pow10[-scale]
<1>1. n.int \in Int /\ n.exp \in Int
  BY DEF Numerics
<1>2. exact /\ value = c <=> SameAmount(n, Numeric(c, -2))
  <2>1. CASE scale >= 0
    BY <2>1, ScaledToCents
  <2>2. CASE ~(scale >= 0)
    <3>1. -scale \in Nat /\ Pow10[-scale] \in Nat \ {0}
      BY <1>1, <2>2, Pow10Positive
    <3>2. n.int = c * Pow10[-scale] =>
            n.int % Pow10[-scale] = 0 /\ n.int \div Pow10[-scale] = c
      BY <3>1, Multiple
    <3>3. n.int % Pow10[-scale] = 0 => n.int = (n.int \div Pow10[-scale]) * Pow10[-scale]
      BY <1>1, <3>1, Divided
    <3>. QED  BY <2>2, <3>2, <3>3, ScaledToCents
  <2>. QED  BY <2>1, <2>2
<1>3. NumericToCents(n) = IF n.kind = "number" /\ exact /\ IsInt64(value)
                          THEN [ok |-> TRUE, cents |-> value] ELSE Refused
  BY DEF NumericToCents
<1>. HIDE DEF exact, value, scale
<1>4. NumericToCents(n) = [ok |-> TRUE, cents |-> c] <=>
        n.kind = "number" /\ exact /\ IsInt64(value) /\ value = c
  <2>1. Refused # [ok |-> TRUE, cents |-> c]
    <3>1. Refused.ok = FALSE
      BY DEF Refused
    <3>. QED  BY <3>1
  <2>2. ASSUME NEW v PROVE [ok |-> TRUE, cents |-> v] = [ok |-> TRUE, cents |-> c] <=> v = c
    <3>1. [ok |-> TRUE, cents |-> v].cents = v
      OBVIOUS
    <3>. QED  BY <3>1
  <2>. QED  BY <1>3, <2>1, <2>2, Zenon
<1>. QED  BY <1>2, <1>4

\* Cents that were made a NUMERIC come back as they were; negative ones are
\* refused on the way in and, as the NULL that is returned then, on the way out
\* (numeric.go 13-45).
THEOREM CentsComeBack ==
  ASSUME NEW c \in Int, IsInt64(c)
  PROVE  NumericToCents(CentsToNumeric(c)) =
           IF c >= 0 THEN [ok |-> TRUE, cents |-> c] ELSE Refused
<1>1. CASE c >= 0
  <2>1. CentsToNumeric(c) = Numeric(c, -2)
    BY <1>1 DEF CentsToNumeric
  <2>2. Numeric(c, -2) \in Numerics /\ Numeric(c, -2).kind = "number"
    BY DEF Numeric, Numerics
  <2>3. SameAmount(Numeric(c, -2), Numeric(c, -2))
    BY Pow10Values DEF SameAmount, Numeric
  <2>. QED  BY <1>1, <2>1, <2>2, <2>3, CentsAreTheAmount
<1>2. CASE c < 0
  BY <1>2 DEF CentsToNumeric, NullNumeric, NumericToCents
<1>. QED  BY <1>1, <1>2

-----------------------------------------------------------------------------
(* The price column. *)

\* Powers of ten multiply as their exponents add.
LEMMA Pow10Sum == \A m, n \in Nat : Pow10[m + n] = Pow10[m] * Pow10[n]
<1>. SUFFICES ASSUME NEW m \in Nat
              PROVE  \A n \in Nat : Pow10[m + n] = Pow10[m] * Pow10[n]
  OBVIOUS
<1>. DEFINE S == {n \in Nat : Pow10[m + n] = Pow10[m] * Pow10[n]}
<1>1. Pow10[m] \in Nat
  BY Pow10Values
<1>2. 0 \in S
  BY <1>1, Pow10Values
<1>3. ASSUME NEW n \in Nat, n \in S PROVE n + 1 \in S
  <2>1. m + (n + 1) = (m + n) + 1 /\ m + n \in Nat
    OBVIOUS
  <2>2. Pow10[m + (n + 1)] = 10 * Pow10[m + n] /\ Pow10[n + 1] = 10 * Pow10[n]
    BY <2>1, Pow10Values
  <2>3. Pow10[m + n] = Pow10[m] * Pow10[n] /\ Pow10[n] \in Nat
    BY <1>3, Pow10Values
  <2>4. 10 * (Pow10[m] * Pow10[n]) = Pow10[m] * (10 * Pow10[n])
    BY <1>1, <2>3
  <2>. QED  BY <2>2, <2>3, <2>4
<1>. HIDE DEF S
<1>4. Nat \subseteq S
  BY <1>2, <1>3, Induction
<1>. QED  BY <1>4 DEF S

\* A quotient is the last multiple of the unit that is not larger.
LEMMA Quotient ==
  ASSUME NEW v \in Int, NEW unit \in Nat \ {0}
  PROVE  /\ v \div unit \in Int
         /\ (v \div unit) * unit <= v
         /\ v < (v \div unit) * unit + unit
OBVIOUS

\* Rounding to whole units moves by half a unit at most.
LEMMA RoundedIsNear ==
  ASSUME NEW int \in Int, NEW unit \in Nat \ {0}
  PROVE  /\ Rounded(int, unit) \in Int
         /\ 2 * int - 2 * (Rounded(int, unit) * unit) <= unit
         /\ 2 * (Rounded(int, unit) * unit) - 2 * int <= unit
<1>1. 2 * unit \in Nat \ {0}
  OBVIOUS
<1>2. CASE int >= 0
  <2>. DEFINE q == (2 * int + unit) \div (2 * unit)
  <2>1. q \in Int /\ q * (2 * unit) <= 2 * int + unit
                  /\ 2 * int + unit < q * (2 * unit) + 2 * unit
    <3>1. 2 * int + unit \in Int
      OBVIOUS
    <3>. QED  BY <1>1, <3>1, Quotient
  <2>2. Rounded(int, unit) = q
    BY <1>2 DEF Rounded
  <2>. HIDE DEF q
  <2>3. q * (2 * unit) = 2 * (q * unit)
    BY <2>1
  <2>. QED  BY <2>1, <2>2, <2>3
<1>3. CASE ~(int >= 0)
  <2>. DEFINE q == (unit - 2 * int) \div (2 * unit)
  <2>1. q \in Int /\ q * (2 * unit) <= unit - 2 * int
                  /\ unit - 2 * int < q * (2 * unit) + 2 * unit
    <3>1. unit - 2 * int \in Int
      OBVIOUS
    <3>. QED  BY <1>1, <3>1, Quotient
  <2>2. Rounded(int, unit) = -q
    BY <1>3 DEF Rounded
  <2>. HIDE DEF q
  <2>3. q * (2 * unit) = 2 * (q * unit) /\ (-q) * unit = -(q * unit)
    BY <2>1
  <2>. QED  BY <2>1, <2>2, <2>3
<1>. QED  BY <1>2, <1>3

\* A number that is c cents, in smaller units.
LEMMA CentsInUnits ==
  ASSUME NEW n \in Numerics, NEW c \in Int, SameAmount(n, Numeric(c, -2)),
         NEW e \in Int, e <= n.exp, e <= -3
  PROVE  Units(n, e) = c * Pow10[-2 - e]
<1>1. n.int \in Int /\ n.exp \in Int
  BY DEF Numerics
<1>2. -2 - e \in Nat /\ n.exp - e \in Nat
  BY <1>1
<1>3. CASE n.exp + 2 >= 0
  <2>1. n.exp + 2 \in Nat /\ (n.exp + 2) + (-2 - e) = n.exp - e
    BY <1>1, <1>3
  <2>2. Pow10[n.exp - e] = Pow10[n.exp + 2] * Pow10[-2 - e]
    BY <1>2, <2>1, Pow10Sum
  <2>3. n.int * Pow10[n.exp + 2] = c
    BY <1>3, ScaledToCents
  <2>4. Pow10[n.exp + 2] \in Nat /\ Pow10[-2 - e] \in Nat
    BY <1>2, <2>1, Pow10Values
  <2>5. \A x, y \in Nat : n.int * (x * y) = (n.int * x) * y
    BY <1>1
  <2>. QED  BY <2>2, <2>3, <2>4, <2>5 DEF Units
<1>4. CASE ~(n.exp + 2 >= 0)
  <2>1. -(n.exp + 2) \in Nat /\ -(n.exp + 2) + (n.exp - e) = -2 - e
    BY <1>1, <1>4
  <2>2. Pow10[-2 - e] = Pow10[-(n.exp + 2)] * Pow10[n.exp - e]
    BY <1>2, <2>1, Pow10Sum
  <2>3. n.int = c * Pow10[-(n.exp + 2)]
    BY <1>4, ScaledToCents
  <2>4. Pow10[-(n.exp + 2)] \in Nat /\ Pow10[n.exp - e] \in Nat
    BY <1>2, <2>1, Pow10Values
  <2>5. \A x, y \in Nat : c * (x * y) = (c * x) * y
    OBVIOUS
  <2>. QED  BY <2>2, <2>3, <2>4, <2>5 DEF Units
<1>. QED  BY <1>3, <1>4

\* What the column keeps of a number, in smaller units.
LEMMA KeptInUnits ==
  ASSUME NEW n \in Numerics, n.kind = "number",
         NEW e \in Int, e <= n.exp, e <= -3
  PROVE  /\ Kept(n) \in Int
         /\ Units(n, e) - Kept(n) * Pow10[-2 - e] <= 5 * Pow10[-3 - e]
         /\ Kept(n) * Pow10[-2 - e] - Units(n, e) <= 5 * Pow10[-3 - e]
<1>1. n.int \in Int /\ n.exp \in Int
  BY DEF Numerics
<1>2. -2 - e \in Nat /\ -3 - e \in Nat /\ n.exp - e \in Nat /\ (-3 - e) + 1 = -2 - e
  BY <1>1
<1>3. Pow10[-3 - e] \in Nat /\ Pow10[-2 - e] = 10 * Pow10[-3 - e]
  BY <1>2, Pow10Values
<1>4. Pow10[n.exp - e] \in Nat
  BY <1>2, Pow10Values
<1>5. CASE n.exp >= -2
  <2>1. Kept(n) = n.int * Pow10[n.exp + 2]
    BY <1>5 DEF Kept
  <2>2. n.exp + 2 \in Nat /\ (n.exp + 2) + (-2 - e) = n.exp - e
    BY <1>1, <1>5
  <2>3. Pow10[n.exp - e] = Pow10[n.exp + 2] * Pow10[-2 - e] /\ Pow10[n.exp + 2] \in Nat
    BY <1>2, <2>2, Pow10Sum, Pow10Values
  <2>4. n.int * (Pow10[n.exp + 2] * Pow10[-2 - e])
          = (n.int * Pow10[n.exp + 2]) * Pow10[-2 - e]
    <3>1. \A x, y \in Nat : n.int * (x * y) = (n.int * x) * y
      BY <1>1
    <3>2. Pow10[n.exp + 2] \in Nat /\ Pow10[-2 - e] \in Nat
      BY <1>3, <2>3
    <3>. QED  BY <3>1, <3>2
  <2>5. Units(n, e) = Kept(n) * Pow10[-2 - e]
    BY <2>1, <2>3, <2>4 DEF Units
  <2>6. Kept(n) \in Int
    BY <1>1, <2>1, <2>3
  <2>7. Kept(n) * Pow10[-2 - e] \in Int
    BY <1>3, <2>6
  <2>. QED  BY <1>3, <2>5, <2>6, <2>7
<1>6. CASE ~(n.exp >= -2)
  <2>. DEFINE unit == Pow10[-2 - n.exp]
              p == Pow10[n.exp - e]
              c == Kept(n)
  <2>1. -2 - n.exp \in Nat /\ (-2 - n.exp) + (n.exp - e) = -2 - e
    BY <1>1, <1>6
  <2>2. unit \in Nat \ {0} /\ Pow10[-2 - e] = unit * p
    BY <1>2, <2>1, Pow10Sum, Pow10Positive
  <2>3. c = Rounded(n.int, unit)
    BY <1>6 DEF Kept
  <2>4. Units(n, e) = n.int * p /\ p \in Nat
    BY <1>4 DEF Units
  <2>. HIDE DEF unit, p, c
  <2>5. c \in Int /\ 2 * n.int - 2 * (c * unit) <= unit
                  /\ 2 * (c * unit) - 2 * n.int <= unit
    BY <1>1, <2>2, <2>3, RoundedIsNear
  <2>6. \A d \in Int : d <= unit => d * p <= unit * p
    BY <2>2, <2>4
  <2>7. c * unit \in Int
    BY <2>2, <2>5
  <2>8. /\ (2 * n.int - 2 * (c * unit)) * p <= unit * p
        /\ (2 * (c * unit) - 2 * n.int) * p <= unit * p
    BY <1>1, <2>5, <2>6, <2>7
  <2>9. \A x \in Int : /\ (2 * n.int - 2 * x) * p = 2 * (n.int * p) - 2 * (x * p)
                       /\ (2 * x - 2 * n.int) * p = 2 * (x * p) - 2 * (n.int * p)
    BY <1>1, <2>4
  <2>10. (c * unit) * p = c * (unit * p)
    BY <2>2, <2>4, <2>5
  <2>11. n.int * p \in Int /\ (c * unit) * p \in Int
    BY <1>1, <2>4, <2>7
  <2>12. c * Pow10[-2 - e] = (c * unit) * p
    BY <2>2, <2>10
  <2>13. unit * p = 10 * Pow10[-3 - e]
    BY <1>3, <2>2
  <2>14. /\ 2 * (n.int * p) - 2 * ((c * unit) * p) <= 10 * Pow10[-3 - e]
         /\ 2 * ((c * unit) * p) - 2 * (n.int * p) <= 10 * Pow10[-3 - e]
    BY <2>7, <2>8, <2>9, <2>13
  <2>15. /\ n.int * p - (c * unit) * p <= 5 * Pow10[-3 - e]
         /\ (c * unit) * p - n.int * p <= 5 * Pow10[-3 - e]
    BY <1>3, <2>11, <2>14
  <2>. QED  BY <2>4, <2>5, <2>12, <2>15 DEF c
<1>. QED  BY <1>5, <1>6

\* Of two exponents and that of a tenth of a cent one is the least.
LEMMA LeastExponent ==
  ASSUME NEW x \in Int, NEW y \in Int
  PROVE  LET e == CHOOSE f \in {x, y, -3} : \A g \in {x, y, -3} : f <= g
         IN  e \in Int /\ e <= x /\ e <= y /\ e <= -3
<1>1. \E f \in {x, y, -3} : \A g \in {x, y, -3} : f <= g
  <2>1. CASE x <= y /\ x <= -3
    BY <2>1
  <2>2. CASE y <= x /\ y <= -3
    BY <2>2
  <2>3. CASE -3 <= x /\ -3 <= y
    BY <2>3
  <2>. QED  BY <2>1, <2>2, <2>3
<1>. QED  BY <1>1

\* It keeps whole cents.
LEMMA KeptIsWhole ==
  ASSUME NEW n \in Numerics, n.kind = "number"
  PROVE  Kept(n) \in Int
<1>1. n.exp \in Int
  BY DEF Numerics
<1>2. \E e \in Int : e <= n.exp /\ e <= -3
  BY <1>1, LeastExponent
<1>. QED  BY <1>2, KeptInUnits

\* Whatever form the driver returns a price in, it is within half a cent of the
\* number that the column was given (numeric.go 47-68, schema.sql.tmpl 15).
THEOREM FormsAreNear ==
  ASSUME NEW p \in Numerics, p.kind = "number", NEW n \in Forms(Kept(p)),
         Kept(p) # NaN
  PROVE  /\ n \in Numerics /\ n.kind = "number"
         /\ WithinHalfACent(Decimal(n.int, n.exp), Decimal(p.int, p.exp))
<1>. DEFINE c == Kept(p)
<1>1. p.int \in Int /\ p.exp \in Int
  BY DEF Numerics
<1>2. c \in Int
  BY KeptIsWhole
<1>3. n \in Numerics /\ n.kind = "number" /\ SameAmount(n, Numeric(c, -2))
  <2>1. SameAmount(n, Numeric(c, -2))
    BY DEF Forms
  <2>2. \/ \E k \in 0..2 : n = Numeric(c * Pow10[k], -2 - k)
        \/ \E k \in 1..2 : n = Numeric(c \div Pow10[k], k - 2)
    BY DEF Forms
  <2>. HIDE DEF c
  <2>3. \A k \in 0..2 : Pow10[k] \in Nat \ {0}
    BY Pow10Positive
  <2>4. \A k \in 0..2 : c * Pow10[k] \in Int /\ c \div Pow10[k] \in Int
    BY <1>2, <2>3, Quotient
  <2>5. \A int, exp \in Int : Numeric(int, exp) \in Numerics
                              /\ Numeric(int, exp).kind = "number"
    BY DEF Numeric, Numerics
  <2>6. \A k \in 0..2 : -2 - k \in Int /\ k - 2 \in Int
    OBVIOUS
  <2>. QED  BY <2>1, <2>2, <2>4, <2>5, <2>6
<1>. HIDE DEF c
<1>4. n.int \in Int /\ n.exp \in Int
  BY <1>3 DEF Numerics
<1>. DEFINE a == Decimal(n.int, n.exp)
            b == Decimal(p.int, p.exp)
            e == CHOOSE f \in {a.exp, b.exp, -3} : \A g \in {a.exp, b.exp, -3} : f <= g
<1>5. a.int = n.int /\ a.exp = n.exp /\ b.int = p.int /\ b.exp = p.exp
  BY DEF Decimal
<1>6. e \in Int /\ e <= n.exp /\ e <= p.exp /\ e <= -3
  BY <1>1, <1>4, <1>5, LeastExponent
<1>7. WithinHalfACent(a, b) <=> Abs(Units(a, e) - Units(b, e)) <= 5 * Pow10[-3 - e]
  BY DEF WithinHalfACent
<1>8. Units(a, e) = Units(n, e) /\ Units(b, e) = Units(p, e)
  BY <1>5 DEF Units
<1>. HIDE DEF a, b, e
<1>9. Units(n, e) = c * Pow10[-2 - e]
  BY <1>2, <1>3, <1>6, CentsInUnits
<1>10. /\ Units(p, e) - c * Pow10[-2 - e] <= 5 * Pow10[-3 - e]
       /\ c * Pow10[-2 - e] - Units(p, e) <= 5 * Pow10[-3 - e]
  BY <1>6, KeptInUnits DEF c
<1>11. Units(n, e) \in Int /\ Units(p, e) \in Int /\ Pow10[-3 - e] \in Nat
  <2>1. n.exp - e \in Nat /\ p.exp - e \in Nat /\ -3 - e \in Nat
    BY <1>1, <1>4, <1>6
  <2>2. Pow10[n.exp - e] \in Nat /\ Pow10[p.exp - e] \in Nat /\ Pow10[-3 - e] \in Nat
    BY <2>1, Pow10Values
  <2>. QED  BY <1>1, <1>4, <2>2 DEF Units
<1>12. Abs(Units(n, e) - Units(p, e)) <= 5 * Pow10[-3 - e]
  BY <1>9, <1>10, <1>11 DEF Abs
<1>. QED  BY <1>3, <1>7, <1>8, <1>12 DEF a, b
=============================================================================
