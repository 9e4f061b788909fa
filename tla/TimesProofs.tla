---------------------------- MODULE TimesProofs ----------------------------
(***************************************************************************)
(* Time spans and expiration times for longs of any width and any radix    *)
(* that fits them.  The arithmetic is not linear: each fact about a        *)
(* product is a lemma of its own, and the proofs about the functions name  *)
(* the products they compare and use those facts as if they were linear.   *)
(***************************************************************************)
EXTENDS Times, TLAPS

(***************************************************************************)
(* Products, quotients and longs.                                          *)
(***************************************************************************)

LEMMA Products ==
  ASSUME NEW a \in Int, NEW b \in Int, NEW u \in Nat
  PROVE  /\ a <= b => a * u <= b * u
         /\ (a + b) * u = a * u + b * u
         /\ (a - b) * u = a * u - b * u
         /\ a * u \in Int
  OBVIOUS

\* A value that fits a long is kept.
LEMMA LongIs ==
  ASSUME NEW n \in Longs
  PROVE  Long(n) = n
<1>. DEFINE width == 2 * (LONG_MAX + 1)
            x == n - LONG_MIN
<1>1. x \in Nat /\ width \in Nat /\ x < width
  BY TimesAssumption DEF Longs, LONG_MIN
<1>. HIDE DEF x, width
<1>2. x % width = x
  BY <1>1
<1>. QED
  BY <1>2, TimesAssumption DEF Long, x, width, LONG_MIN, Longs

\* The quotient of natural numbers, by its two bounds.
LEMMA Division ==
  ASSUME NEW n \in Nat, NEW u \in Nat, u > 0
  PROVE  /\ n \div u \in Nat
         /\ u * (n \div u) <= n
         /\ n < u * (n \div u) + u
  OBVIOUS

\* C division truncates: the remainder has the sign of the dividend.
LEMMA Quotient ==
  ASSUME NEW n \in Int, NEW u \in Nat, u >= 2
  PROVE  /\ Quot(n, u) \in Int /\ Rem(n, u) \in Int
         /\ n = Quot(n, u) * u + Rem(n, u)
         /\ n >= 0 => /\ Rem(n, u) \in 0..(u - 1)
                      /\ Quot(n, u) >= 0 /\ 2 * Quot(n, u) <= n
         /\ n < 0 => /\ -Rem(n, u) \in 0..(u - 1)
                     /\ Quot(n, u) <= 0 /\ 2 * Quot(n, u) >= n
<1>. DEFINE q == Quot(n, u)
            m == IF n < 0 THEN -n ELSE n
            d == m \div u
<1>1. m \in Nat /\ d \in Nat /\ u * d <= m /\ m < u * d + u
  <2>1. m \in Nat
    OBVIOUS
  <2>. HIDE DEF m
  <2>. QED
    BY <2>1, Division
<1>2. q = IF n < 0 THEN -d ELSE d
  BY DEF Quot
<1>. HIDE DEF d, q
<1>3. 2 * d <= u * d
  BY <1>1
<1>4. u * q = IF n < 0 THEN -(u * d) ELSE u * d
  BY <1>1, <1>2
<1>5. q \in Int /\ u * q \in Int /\ u * q = q * u
  BY <1>1, <1>2
<1>6. Rem(n, u) = n - u * q
  BY DEF Rem, q
<1>. DEFINE p == u * q
            e == u * d
<1>7. e \in Int
  BY <1>1
<1>. HIDE DEF p, e
<1>8. n >= 0 => n - p \in 0..(u - 1) /\ q >= 0 /\ 2 * q <= n
  BY <1>1, <1>2, <1>3, <1>4, <1>7 DEF m, p, e
<1>9. n < 0 => -(n - p) \in 0..(u - 1) /\ q <= 0 /\ 2 * q >= n
  BY <1>1, <1>2, <1>3, <1>4, <1>7 DEF m, p, e
<1>. QED
  BY <1>5, <1>6, <1>8, <1>9 DEF p, q


\* borrow keeps the length, and leaves between 1 and a whole big unit of little ones.
LEMMA Borrows ==
  ASSUME NEW big \in 0..LONG_MAX, NEW little \in Longs, NEW unit \in Nat, unit >= 2,
         NEW p, p = borrow([big |-> big, little |-> little], unit)
  PROVE  /\ p = [big |-> p.big, little |-> p.little]
         /\ p.big \in Longs /\ p.little \in Nat
         /\ p.big * unit + p.little = big * unit + little
         /\ little >= 0 => p.big = big /\ p.little = little
         /\ little < 0 => /\ p.big < big /\ p.little \in 1..unit
                          /\ p.little = unit => p.big < big - 1
<1>. DEFINE q == Quot(little, unit)
            r == Rem(little, unit)
<1>1. /\ big \in Int /\ little \in Int /\ big >= 0 /\ big <= LONG_MAX
      /\ little >= -LONG_MAX - 1 /\ LONG_MAX \in Nat /\ LONG_MAX > 1
  <2>1. K * K \in Nat /\ K * K >= 1
    BY TimesAssumption
  <2>. QED
    BY <2>1, TimesAssumption DEF Longs, LONG_MIN
<1>2. CASE little >= 0
  <2>1. p = [big |-> big, little |-> little]
    BY <1>2 DEF borrow
  <2>2. big \in Longs /\ little \in Nat
    BY <1>1, <1>2 DEF Longs, LONG_MIN
  <2>. QED
    BY <1>2, <2>1, <2>2
<1>3. CASE little < 0
  <2>1. /\ q \in Int /\ r \in Int /\ little = q * unit + r
        /\ -r \in 0..(unit - 1) /\ q <= 0 /\ 2 * q >= little
    BY <1>1, <1>3, Quotient
  <2>. HIDE DEF q, r
  <2>2. big + q - 1 \in Longs
    BY <1>1, <2>1 DEF Longs, LONG_MIN
  <2>3. p = [big |-> big + q - 1, little |-> r + unit]
    <3>1. p = [big |-> Long(big + q - 1), little |-> r + unit]
      BY <1>1, <1>3 DEF borrow, q, r
    <3>. QED
      BY <2>2, <3>1, LongIs
  <2>4. p.big = big + q - 1 /\ p.little = r + unit
    BY <2>3
  <2>5. p.big * unit = big * unit + q * unit - unit
    <3>. DEFINE x == big + q
    <3>1. x \in Int /\ p.big = x - 1
      BY <1>1, <2>1, <2>4
    <3>2. x * unit = big * unit + q * unit
      BY <1>1, <2>1, Products
    <3>. HIDE DEF x
    <3>3. (x - 1) * unit = x * unit - 1 * unit
      BY <3>1, Products
    <3>. QED
      BY <1>1, <2>1, <3>1, <3>2, <3>3
  <2>6. p.big * unit + p.little = big * unit + little
    BY <1>1, <2>1, <2>4, <2>5
  <2>7. r + unit = unit => q # 0
    BY <1>3, <2>1
  <2>8. p.big < big /\ p.little \in 1..unit /\ (p.little = unit => p.big < big - 1)
    BY <1>1, <2>1, <2>4, <2>7
  <2>9. p = [big |-> p.big, little |-> p.little]
    BY <2>3
  <2>10. p.big \in Longs /\ p.little \in Nat
    BY <2>2, <2>4, <2>8
  <2>. QED
    BY <1>1, <1>3, <2>6, <2>8, <2>9, <2>10
<1>. QED
  BY <1>1, <1>2, <1>3

\* carry keeps the length if the result fits; if it does not, the length is at least
\* that of the infinite time.
LEMMA Carries ==
  ASSUME NEW big \in Longs, NEW little \in 0..LONG_MAX, NEW unit \in Nat, unit >= 2,
         NEW p, p = [big |-> big, little |-> little],
         NEW c, c = carry(p, unit)
  PROVE  /\ little < unit => c = p
         /\ little >= unit /\ fits(p, unit) =>
              /\ c.big \in big..(LONG_MAX - 1) /\ c.little \in 0..(unit - 1)
              /\ c.big * unit + c.little = big * unit + little
         /\ little >= unit /\ ~fits(p, unit) => big * unit + little >= LONG_MAX * unit
<1>. DEFINE q == Quot(little, unit)
            r == Rem(little, unit)
<1>1. big \in Int /\ little \in Nat /\ LONG_MAX \in Nat
      /\ big >= -LONG_MAX - 1 /\ big <= LONG_MAX
  BY TimesAssumption DEF Longs, LONG_MIN
<1>2. /\ q \in Int /\ r \in Int /\ little = q * unit + r
      /\ r \in 0..(unit - 1) /\ q >= 0
  BY <1>1, Quotient
<1>. HIDE DEF q, r
<1>3. (big + q) * unit = big * unit + q * unit
  BY <1>1, <1>2, Products
<1>4. CASE little >= unit /\ fits(p, unit)
  <2>1. LONG_MAX - big > q
    BY <1>4 DEF fits, q
  <2>2. big + q \in Longs
    BY <1>1, <1>2, <2>1 DEF Longs, LONG_MIN
  <2>3. c = [big |-> big + q, little |-> r]
    <3>1. c = [big |-> Long(big + q), little |-> r]
      BY <1>1, <1>4 DEF carry, q, r
    <3>. QED
      BY <2>2, <3>1, LongIs
  <2>4. c.big = big + q /\ c.little = r
    BY <2>3
  <2>. QED
    BY <1>1, <1>2, <1>3, <1>4, <2>1, <2>4
<1>5. CASE little >= unit /\ ~fits(p, unit)
  <2>1. LONG_MAX <= big + q
    BY <1>1, <1>2, <1>5 DEF fits, q
  <2>2. LONG_MAX * unit <= (big + q) * unit
    BY <1>1, <1>2, <2>1, Products
  <2>. QED
    BY <1>1, <1>2, <1>3, <1>5, <2>2
<1>6. little < unit => c = p
  BY <1>1 DEF carry
<1>. QED
  BY <1>4, <1>5, <1>6

\* What distribute is for: an exact result, or an error for a reason.
Distributed(d, big, little, unit) ==
  /\ d.error \in {NoError, "negative", "too big"}
  /\ d.error = NoError =>
       /\ d.pair.big \in 0..LONG_MAX /\ d.pair.little \in 0..(unit - 1)
       /\ d.pair.big * unit + d.pair.little = big * unit + little
       /\ d.pair.big = LONG_MAX => big = LONG_MAX
  /\ d.error = "negative" => little < 0 /\ big * unit + little <= 0
  /\ d.error = "too big" =>
       /\ little >= unit /\ LONG_MAX - big <= Quot(little, unit)
       /\ big * unit + little >= LONG_MAX * unit

LEMMA Distributes ==
  ASSUME NEW big \in 0..LONG_MAX, NEW little \in Longs, NEW unit \in Nat,
         unit >= 2, unit <= LONG_MAX,
         NEW d, d = distribute(big, little, unit)
  PROVE  Distributed(d, big, little, unit)
<1>. DEFINE p == borrow([big |-> big, little |-> little], unit)
            c == carry(p, unit)
<1>1. /\ big \in Int /\ little \in Int /\ big >= 0 /\ big <= LONG_MAX
      /\ little <= LONG_MAX /\ LONG_MAX \in Nat
  BY TimesAssumption DEF Longs, LONG_MIN
<1>. DEFINE x == p.big
            y == p.little
<1>2. /\ p = [big |-> x, little |-> y] /\ x \in Longs /\ y \in Nat
      /\ x * unit + y = big * unit + little
      /\ little >= 0 => x = big /\ y = little
      /\ little < 0 => /\ x < big /\ y \in 1..unit
                       /\ y = unit => x < big - 1
  <2>. HIDE DEF p
  <2>1. p = borrow([big |-> big, little |-> little], unit)
    BY DEF p
  <2>. QED
    BY <2>1, Borrows
<1>. HIDE DEF p, x, y
<1>3. y \in 0..LONG_MAX /\ x \in Int /\ x <= LONG_MAX
  BY <1>1, <1>2 DEF Longs, LONG_MIN
<1>4. /\ y < unit => c = p
      /\ y >= unit /\ fits(p, unit) =>
           /\ c.big \in x..(LONG_MAX - 1) /\ c.little \in 0..(unit - 1)
           /\ c.big * unit + c.little = x * unit + y
      /\ y >= unit /\ ~fits(p, unit) => x * unit + y >= LONG_MAX * unit
  <2>1. c = carry(p, unit)
    OBVIOUS
  <2>. HIDE DEF c
  <2>. QED
    BY <1>2, <1>3, <2>1, Carries
<1>5. d.pair = c /\ d.error = CASE little < 0 /\ x < 0 -> "negative"
                                [] y >= unit /\ ~fits(p, unit) -> "too big"
                                [] OTHER -> NoError
  BY DEF distribute, p, c, x, y
<1>. HIDE DEF c
<1>6. d.error \in {NoError, "negative", "too big"}
  BY <1>5, Zenon
<1>7. ASSUME d.error = "negative"
      PROVE  little < 0 /\ big * unit + little <= 0
  <2>1. little < 0 /\ x < 0
    BY <1>5, <1>7 DEF NoError
  <2>2. x * unit <= (-1) * unit
    BY <1>3, <2>1, Products
  <2>3. x * unit + y <= 0
    BY <1>1, <1>2, <1>3, <2>1, <2>2
  <2>. QED
    BY <1>2, <2>1, <2>3
<1>8. ASSUME d.error = "too big"
      PROVE  /\ little >= unit /\ LONG_MAX - big <= Quot(little, unit)
             /\ big * unit + little >= LONG_MAX * unit
  <2>1. y >= unit /\ ~fits(p, unit)
    BY <1>5, <1>8 DEF NoError
  <2>2. x * unit + y >= LONG_MAX * unit
    BY <1>4, <2>1
  <2>3. ASSUME little < 0 PROVE FALSE
    <3>1. y = unit /\ x <= LONG_MAX - 2
      BY <1>1, <1>2, <1>3, <2>1, <2>3
    <3>2. x * unit <= (LONG_MAX - 2) * unit
      BY <1>1, <1>3, <3>1, Products
    <3>3. (LONG_MAX - 2) * unit = LONG_MAX * unit - 2 * unit
      BY <1>1, Products
    <3>. QED
      BY <1>1, <1>3, <2>2, <3>1, <3>2, <3>3
  <2>4. y = little /\ p = [big |-> big, little |-> little]
    BY <1>1, <1>2, <2>3
  <2>5. Quot(little, unit) \in Int
    BY <1>1, Quotient
  <2>6. ~(LONG_MAX - big > Quot(little, unit))
    BY <2>1, <2>4 DEF fits
  <2>. QED
    BY <1>1, <1>2, <2>1, <2>2, <2>4, <2>5, <2>6
<1>9. ASSUME d.error = NoError
      PROVE  /\ d.pair.big \in 0..LONG_MAX /\ d.pair.little \in 0..(unit - 1)
             /\ d.pair.big * unit + d.pair.little = big * unit + little
             /\ d.pair.big = LONG_MAX => big = LONG_MAX
  <2>1. ~(little < 0 /\ x < 0) /\ ~(y >= unit /\ ~fits(p, unit))
    BY <1>5, <1>9 DEF NoError
  <2>2. x >= 0 /\ x <= big /\ (x = LONG_MAX => big = LONG_MAX)
    BY <1>1, <1>2, <1>3, <2>1
  <2>3. CASE y < unit
    <3>1. d.pair.big = x /\ d.pair.little = y
      <4>1. d.pair = p
        BY <1>4, <1>5, <2>3
      <4>. QED
        BY <4>1 DEF x, y
    <3>. QED
      BY <1>1, <1>2, <1>3, <2>2, <2>3, <3>1
  <2>4. CASE y >= unit
    <3>1. /\ c.big \in x..(LONG_MAX - 1) /\ c.little \in 0..(unit - 1)
          /\ c.big * unit + c.little = big * unit + little
      BY <1>2, <1>4, <2>1, <2>4
    <3>2. c.big \in 0..LONG_MAX /\ c.big # LONG_MAX
      BY <1>1, <1>3, <2>2, <3>1
    <3>. QED
      BY <1>5, <3>1, <3>2
  <2>. QED
    BY <1>3, <2>3, <2>4
<1>. QED
  BY <1>6, <1>7, <1>8, <1>9 DEF Distributed

\* The radix, the second and the longs, with the second as one number.
LEMMA Units ==
  /\ K \in Nat /\ K >= 2 /\ LONG_MAX \in Nat /\ 4 * K <= LONG_MAX
  /\ Second \in Nat /\ Second = K * K /\ Second >= 4 /\ 2 * Second <= LONG_MAX
<1>1. K * K \in Nat /\ 2 * K <= K * K
  BY TimesAssumption
<1>. QED
  BY <1>1, TimesAssumption DEF Second

\* The same for the function with a count of huge units.
DistributedThroughHuge(d, huge, big, little) ==
  /\ d.error \in {NoError, "negative"}
  /\ d.error = NoError =>
       /\ d.huge \in 0..LONG_MAX /\ d.pair.big \in 0..LONG_MAX
       /\ d.pair.little \in 0..(K - 1)
       /\ (d.huge * K + d.pair.big) * K + d.pair.little
            = (huge * K + big) * K + little
       /\ d.huge = LONG_MAX => huge = LONG_MAX
  /\ d.error = "negative" => little < 0 /\ (huge * K + big) * K + little <= K

\* The middle normalisation of ccevents_timeout_init: of the two distributions in
\* it only the one on the seconds can fail, and only below zero.
LEMMA ThroughHuge ==
  ASSUME NEW huge \in 0..LONG_MAX, NEW big \in 0..(K - 1), NEW little \in Longs,
         NEW d, d = normalise_through_huge(huge, big, little)
  PROVE  DistributedThroughHuge(d, huge, big, little)
<1>. DEFINE p == borrow([big |-> big, little |-> little], K)
            x == p.big
            y == p.little
            h == IF x < 0
                   THEN normalise_little_into_big(huge, x)
                   ELSE [pair |-> [big |-> huge, little |-> x], error |-> NoError]
            H == h.pair.big
            B == h.pair.little
            e == normalise_little_into_big(B, y)
            D == e.pair.big
            L == e.pair.little
<1>1. /\ K \in Nat /\ K >= 2 /\ LONG_MAX \in Nat /\ 4 * K <= LONG_MAX
      /\ huge \in Nat /\ huge <= LONG_MAX /\ big \in Nat /\ big < K /\ little \in Int
      /\ little <= LONG_MAX /\ big \in 0..LONG_MAX
  BY Units DEF Longs, LONG_MIN
<1>2. /\ x \in Longs /\ y \in Nat
      /\ x * K + y = big * K + little
      /\ little >= 0 => x = big /\ y = little
      /\ little < 0 => x < big /\ y \in 1..K
  <2>. HIDE DEF p
  <2>1. p = borrow([big |-> big, little |-> little], K)
    BY DEF p
  <2>. QED
    BY <1>1, <2>1, Borrows
<1>. HIDE DEF p, x, y
<1>3. x \in Int /\ y \in 0..LONG_MAX /\ y \in Longs /\ x <= big
  BY <1>1, <1>2 DEF Longs, LONG_MIN
<1>4. /\ h.error \in {NoError, "negative"}
      /\ h.error = NoError =>
           /\ H \in 0..LONG_MAX /\ B \in 0..(K - 1)
           /\ H * K + B = huge * K + x
           /\ H = LONG_MAX => huge = LONG_MAX
      /\ h.error = "negative" => x < 0 /\ huge * K + x <= 0
  <2>1. CASE x < 0
    <3>1. h = distribute(huge, x, K)
      BY <2>1 DEF normalise_little_into_big
    <3>. HIDE DEF h
    <3>2. K >= 2 /\ K <= LONG_MAX
      BY <1>1
    <3>3. Distributed(h, huge, x, K)
      BY <1>1, <1>2, <3>1, <3>2, Distributes
    <3>4. ~(x >= K)
      BY <1>1, <1>3, <2>1
    <3>. QED
      BY <2>1, <3>3, <3>4 DEF Distributed
  <2>2. CASE ~(x < 0)
    <3>1. h.error = NoError /\ H = huge /\ B = x
      BY <2>2
    <3>. HIDE DEF h, H, B
    <3>2. x \in 0..(K - 1)
      BY <1>1, <1>3, <2>2
    <3>. QED
      BY <1>1, <3>1, <3>2 DEF NoError
  <2>. QED
    BY <2>1, <2>2
<1>5. d.huge = H /\ d.pair = e.pair
      /\ d.error = IF h.error # NoError THEN h.error ELSE e.error
  BY DEF normalise_through_huge, p, x, y
<1>. HIDE DEF h, H, B
<1>6. ASSUME h.error = NoError
      PROVE  /\ e.error = NoError
             /\ D \in 0..LONG_MAX /\ L \in 0..(K - 1) /\ D * K + L = B * K + y
  <2>1. e = distribute(B, y, K)
    BY DEF normalise_little_into_big
  <2>. HIDE DEF e
  <2>2. B \in 0..LONG_MAX /\ K <= LONG_MAX /\ B \in Int /\ B < K
    BY <1>1, <1>4, <1>6
  <2>3. Distributed(e, B, y, K)
    BY <1>1, <1>3, <2>1, <2>2, Distributes
  <2>4. ~(LONG_MAX - B <= Quot(y, K))
    <3>1. Quot(y, K) \in Int /\ 2 * Quot(y, K) <= y
      BY <1>1, <1>3, Quotient
    <3>. QED
      BY <1>1, <1>3, <2>2, <3>1
  <2>5. ~(y < 0)
    BY <1>3
  <2>. QED
    BY <2>3, <2>4, <2>5 DEF Distributed
<1>. HIDE DEF e, D, L
<1>7. ASSUME h.error = NoError
      PROVE  /\ d.error = NoError
             /\ d.huge \in 0..LONG_MAX /\ d.pair.big \in 0..LONG_MAX
             /\ d.pair.little \in 0..(K - 1)
             /\ (d.huge * K + d.pair.big) * K + d.pair.little
                  = (huge * K + big) * K + little
             /\ d.huge = LONG_MAX => huge = LONG_MAX
  <2>1. d.error = NoError /\ d.huge = H /\ d.pair.big = D /\ d.pair.little = L
    BY <1>5, <1>6, <1>7 DEF D, L
  <2>2. /\ H \in 0..LONG_MAX /\ D \in 0..LONG_MAX /\ L \in 0..(K - 1)
        /\ H \in Int /\ D \in Int /\ L \in Int /\ B \in Int
        /\ H = LONG_MAX => huge = LONG_MAX
    BY <1>1, <1>4, <1>6, <1>7
  <2>3. (H * K + D) * K + L = (huge * K + big) * K + little
    <3>1. (H * K + D) * K = H * K * K + D * K /\ (H * K + B) * K = H * K * K + B * K
      BY <1>1, <2>2
    <3>2. (huge * K + x) * K = huge * K * K + x * K
          /\ (huge * K + big) * K = huge * K * K + big * K
      BY <1>1, <1>3
    <3>3. (H * K + B) * K = (huge * K + x) * K
      BY <1>4, <1>7
    <3>. DEFINE a1 == H * K * K
                a2 == huge * K * K
    <3>4. /\ a1 \in Int /\ a2 \in Int /\ D * K \in Int /\ B * K \in Int
          /\ x * K \in Int /\ big * K \in Int
      BY <1>1, <1>3, <2>2
    <3>. HIDE DEF a1, a2
    <3>5. a1 + B * K = a2 + x * K
      BY <3>1, <3>2, <3>3 DEF a1, a2
    <3>6. (H * K + D) * K = a1 + D * K /\ (huge * K + big) * K = a2 + big * K
      BY <3>1, <3>2 DEF a1, a2
    <3>7. D * K + L = B * K + y
      BY <1>6, <1>7
    <3>. QED
      BY <1>1, <1>2, <1>3, <2>2, <3>4, <3>5, <3>6, <3>7
  <2>. QED
    BY <2>1, <2>2, <2>3
<1>8. ASSUME h.error = "negative"
      PROVE  d.error = "negative" /\ little < 0 /\ (huge * K + big) * K + little <= K
  <2>1. d.error = "negative"
    BY <1>5, <1>8 DEF NoError
  <2>2. x < 0 /\ huge * K + x <= 0
    BY <1>4, <1>8
  <2>3. little < 0 /\ y <= K
    BY <1>1, <1>2, <1>3, <2>2
  <2>. DEFINE v == huge * K + x
  <2>4. v \in Int /\ v <= 0
    BY <1>1, <1>3, <2>2
  <2>5. v * K = huge * K * K + x * K
    BY <1>1, <1>3
  <2>. HIDE DEF v
  <2>6. v * K <= 0 /\ v * K \in Int
    <3>1. v * K <= 0 * K
      BY <1>1, <2>4, Products
    <3>. QED
      BY <1>1, <2>4, <3>1
  <2>7. (huge * K + big) * K + little = huge * K * K + x * K + y
    <3>1. (huge * K + big) * K = huge * K * K + big * K
      BY <1>1
    <3>2. huge * K * K \in Int /\ big * K \in Int /\ x * K \in Int
      BY <1>1, <1>3
    <3>. QED
      BY <1>1, <1>2, <1>3, <3>1, <3>2
  <2>8. (huge * K + big) * K + little = v * K + y
    BY <2>5, <2>7
  <2>. QED
    BY <1>1, <1>3, <2>1, <2>3, <2>6, <2>8
<1>. QED
  BY <1>4, <1>7, <1>8 DEF NoError, DistributedThroughHuge

(***************************************************************************)
(* The functions that return an outcome.                                   *)
(***************************************************************************)

\* The outcome of a function that computes a time of a length in microseconds.
Exact(outcome, Values, micros, infinite, atLimit) ==
  /\ outcome.raised \in Conditions \cup {NoError}
  /\ outcome.raised = NoError =>
       /\ outcome.held \in Values /\ Micros(outcome.held) = micros
       /\ is_infinite(outcome.held) => infinite
  /\ outcome.raised # NoError => outcome.held = None /\ atLimit

\* The two kinds of outcome.
LEMMA Returned ==
  ASSUME NEW t PROVE Return(t).raised = NoError /\ Return(t).held = t
  BY DEF Return

LEMMA Raised ==
  ASSUME NEW c \in Conditions, NEW Values, NEW micros, NEW infinite, NEW atLimit,
         atLimit
  PROVE  Exact(Raise(c), Values, micros, infinite, atLimit)
  BY DEF Raise, Conditions, NoError, Exact

\* The kinds of values, told apart by their fields, and their lengths.
LEMMA TimeoutMicros ==
  ASSUME NEW t \in Timeouts
  PROVE  /\ t.sec \in 0..LONG_MAX /\ t.ms \in 0..(K - 1) /\ t.us \in 0..(K - 1)
         /\ IsTimeout(t) /\ t # None
         /\ Micros(t) = (t.sec * K + t.ms) * K + t.us
<1>1. t = [sec |-> t.sec, ms |-> t.ms, us |-> t.us]
      /\ t.sec \in 0..LONG_MAX /\ t.ms \in 0..(K - 1) /\ t.us \in 0..(K - 1)
  BY DEF Timeouts
<1>2. DOMAIN t = {"sec", "ms", "us"}
  BY <1>1
<1>3. IsTimeout(t) /\ t # None
  BY <1>2 DEF IsTimeout, None
<1>4. (t.sec * K + t.ms) * K = t.sec * Second + t.ms * K
  BY <1>1, Units
<1>. QED
  BY <1>1, <1>3, <1>4 DEF Micros

LEMMA TimevalMicros ==
  ASSUME NEW t \in Timevals
  PROVE  /\ t.sec \in 0..LONG_MAX /\ t.usec \in 0..(Second - 1)
         /\ ~IsTimeout(t) /\ t # None
         /\ Micros(t) = t.sec * Second + t.usec
<1>1. t = [sec |-> t.sec, usec |-> t.usec]
      /\ t.sec \in 0..LONG_MAX /\ t.usec \in 0..(Second - 1)
  BY DEF Timevals
<1>2. DOMAIN t = {"sec", "usec"}
  BY <1>1
<1>3. ~IsTimeout(t) /\ t # None
  BY <1>2 DEF IsTimeout, None
<1>. QED
  BY <1>1, <1>3 DEF Micros

LEMMA NeverMicros ==
  /\ ~IsTimeout(TIMEVAL_NEVER) /\ TIMEVAL_NEVER # None
  /\ Micros(TIMEVAL_NEVER) = LONG_MAX * Second + LONG_MAX
<1>1. DOMAIN TIMEVAL_NEVER = {"sec", "usec"}
  BY DEF TIMEVAL_NEVER
<1>2. ~IsTimeout(TIMEVAL_NEVER) /\ TIMEVAL_NEVER # None
  BY <1>1 DEF IsTimeout, None
<1>. QED
  BY <1>2 DEF Micros, TIMEVAL_NEVER

\* ccevents_timeout_init: three normalisations, each of which may refuse.
LEMMA TimeoutInit ==
  ASSUME NEW s \in Longs, NEW m \in Longs, NEW u \in Longs,
         NEW upper, upper = s * Second + m * K
  PROVE  Exact(timeout_init(s, m, u), Timeouts, upper + u, s = LONG_MAX,
               s < 0 \/ AtLimit(upper, m, 0) \/ AtLimit(upper + u, u, K))
<1>. DEFINE o == timeout_init(s, m, u)
            pre == distribute(s, m, K)
            H == pre.pair.big
            B == pre.pair.little
            mid == normalise_through_huge(H, B, u)
            MH == mid.huge
            MB == mid.pair.big
            us == mid.pair.little
            post == distribute(MH, MB, K)
            sec == post.pair.big
            ms == post.pair.little
            error == IF pre.error # NoError THEN pre.error
                     ELSE IF mid.error # NoError THEN mid.error ELSE post.error
            tooFar == s < 0 \/ AtLimit(upper, m, 0) \/ AtLimit(upper + u, u, K)
<1>1. /\ K \in Nat /\ K >= 2 /\ K <= LONG_MAX /\ LONG_MAX \in Nat
      /\ s \in Int /\ s <= LONG_MAX /\ m \in Int /\ u \in Int
      /\ Second = K * K /\ Second \in Nat
  BY Units DEF Longs, LONG_MIN
<1>2. o = IF s < 0 THEN Raise("timeout_invalid")
          ELSE IF error # NoError THEN Raise(condition(error))
          ELSE Return([sec |-> sec, ms |-> ms, us |-> us])
  BY DEF timeout_init, normalise_little_into_big
<1>3. \A e : condition(e) \in Conditions
  BY DEF condition, Conditions
<1>4. "timeout_invalid" \in Conditions
  BY DEF Conditions
<1>5. upper = (s * K + m) * K /\ upper \in Int /\ s * K + m \in Int
  <2>1. (s * K + m) * K = s * Second + m * K
    BY <1>1
  <2>. QED
    BY <1>1, <2>1
<1>6. CASE s < 0
  BY <1>2, <1>4, <1>6, Raised
<1>7. CASE s >= 0
  <2>1. s \in 0..LONG_MAX
    BY <1>1, <1>7
  <2>2. Distributed(pre, s, m, K)
    <3>. HIDE DEF pre
    <3>1. pre = distribute(s, m, K)
      BY DEF pre
    <3>. QED
      BY <1>1, <2>1, <3>1, Distributes
  <2>. HIDE DEF pre
  <2>3. CASE pre.error # NoError
    <3>1. o = Raise(condition(pre.error))
      BY <1>1, <1>2, <1>7, <2>3
    <3>2. CASE pre.error = "negative"
      <4>1. m < 0 /\ s * K + m <= 0
        BY <2>2, <3>2 DEF Distributed
      <4>2. (s * K + m) * K <= 0 * K
        BY <1>1, <1>5, <4>1, Products
      <4>3. AtLimit(upper, m, 0)
        BY <1>1, <1>5, <4>1, <4>2 DEF AtLimit
      <4>. QED
        BY <1>3, <3>1, <4>3, Raised
    <3>3. CASE pre.error = "too big"
      <4>1. s * K + m >= LONG_MAX * K
        BY <2>2, <3>3 DEF Distributed
      <4>2. LONG_MAX * K * K <= (s * K + m) * K
        BY <1>1, <1>5, <4>1, Products
      <4>3. LONG_MAX * K * K = LONG_MAX * Second
        BY <1>1
      <4>4. AtLimit(upper, m, 0)
        BY <1>1, <1>5, <4>2, <4>3 DEF AtLimit
      <4>. QED
        BY <1>3, <3>1, <4>4, Raised
    <3>. QED
      BY <2>2, <2>3, <3>2, <3>3 DEF Distributed
  <2>4. CASE pre.error = NoError
    <3>1. /\ H \in 0..LONG_MAX /\ B \in 0..(K - 1)
          /\ H * K + B = s * K + m
          /\ H = LONG_MAX => s = LONG_MAX
      BY <2>2, <2>4 DEF Distributed
    <3>. HIDE DEF H, B
    <3>2. DistributedThroughHuge(mid, H, B, u)
      <4>. HIDE DEF mid
      <4>1. mid = normalise_through_huge(H, B, u)
        BY DEF mid
      <4>. QED
        BY <3>1, <4>1, ThroughHuge
    <3>. HIDE DEF mid
    <3>3. (H * K + B) * K + u = upper + u
      BY <1>5, <3>1
    <3>4. CASE mid.error # NoError
      <4>1. o = Raise(condition(mid.error))
        BY <1>1, <1>2, <1>7, <2>4, <3>4
      <4>2. u < 0 /\ upper + u <= K
        BY <3>2, <3>3, <3>4 DEF DistributedThroughHuge
      <4>3. AtLimit(upper + u, u, K)
        BY <4>2 DEF AtLimit
      <4>. QED
        BY <1>3, <4>1, <4>3, Raised
    <3>5. CASE mid.error = NoError
      <4>1. /\ MH \in 0..LONG_MAX /\ MB \in 0..LONG_MAX /\ us \in 0..(K - 1)
            /\ (MH * K + MB) * K + us = upper + u
            /\ MH = LONG_MAX => s = LONG_MAX
        BY <3>1, <3>2, <3>3, <3>5 DEF DistributedThroughHuge
      <4>. HIDE DEF MH, MB, us
      <4>2. MB \in Longs /\ ~(MB < 0) /\ MB \in Int /\ MH \in Int /\ us \in Nat
        BY <1>1, <4>1 DEF Longs, LONG_MIN
      <4>3. Distributed(post, MH, MB, K)
        <5>. HIDE DEF post
        <5>1. post = distribute(MH, MB, K)
          BY DEF post
        <5>. QED
          BY <1>1, <4>1, <4>2, <5>1, Distributes
      <4>. HIDE DEF post
      <4>4. CASE post.error # NoError
        <5>1. o = Raise(condition(post.error))
          BY <1>1, <1>2, <1>7, <2>4, <3>5, <4>4
        <5>2. MH * K + MB >= LONG_MAX * K
          BY <4>2, <4>3, <4>4 DEF Distributed
        <5>3. LONG_MAX * K * K <= (MH * K + MB) * K
          <6>1. MH * K + MB \in Int /\ LONG_MAX * K \in Int
            BY <1>1, <4>2
          <6>. QED
            BY <1>1, <5>2, <6>1, Products
        <5>4. LONG_MAX * K * K = LONG_MAX * Second /\ (MH * K + MB) * K \in Int
              /\ LONG_MAX * Second \in Int
          BY <1>1, <4>2
        <5>5. upper + u >= LONG_MAX * Second
          BY <1>1, <1>5, <4>1, <4>2, <5>3, <5>4
        <5>6. AtLimit(upper + u, u, K)
          BY <5>5 DEF AtLimit
        <5>. QED
          BY <1>3, <5>1, <5>6, Raised
      <4>5. CASE post.error = NoError
        <5>1. /\ sec \in 0..LONG_MAX /\ ms \in 0..(K - 1)
              /\ sec * K + ms = MH * K + MB
              /\ sec = LONG_MAX => MH = LONG_MAX
          BY <4>3, <4>5 DEF Distributed
        <5>. DEFINE t == [sec |-> sec, ms |-> ms, us |-> us]
        <5>2. o = Return(t)
          BY <1>1, <1>2, <1>7, <2>4, <3>5, <4>5
        <5>. HIDE DEF sec, ms
        <5>3. t \in Timeouts /\ t.sec = sec /\ t.ms = ms /\ t.us = us
          BY <4>1, <5>1 DEF Timeouts
        <5>. HIDE DEF t
        <5>4. Micros(t) = upper + u
          BY <4>1, <5>1, <5>3, TimeoutMicros
        <5>5. is_infinite(t) => s = LONG_MAX
          BY <4>1, <5>1, <5>3 DEF is_infinite
        <5>6. o.raised = NoError /\ o.held = t
          BY <5>2, Returned
        <5>. QED
          BY <5>3, <5>4, <5>5, <5>6 DEF Exact
      <4>. QED
        BY <4>4, <4>5
    <3>. QED
      BY <3>4, <3>5
  <2>. QED
    BY <2>3, <2>4
<1>. QED
  BY <1>1, <1>6, <1>7

\* ccevents_timeval_init.
LEMMA TimevalInit ==
  ASSUME NEW s \in Longs, NEW u \in Longs, NEW micros, micros = s * Second + u
  PROVE  Exact(timeval_init(s, u), Timevals, micros, s = LONG_MAX,
               s < 0 \/ AtLimit(micros, u, 0))
<1>. DEFINE o == timeval_init(s, u)
            d == distribute(s, u, Second)
            sec == d.pair.big
            usec == d.pair.little
<1>1. /\ Second \in Nat /\ Second >= 2 /\ Second <= LONG_MAX /\ LONG_MAX \in Nat
      /\ s \in Int /\ s <= LONG_MAX /\ u \in Int
  BY Units DEF Longs, LONG_MIN
<1>2. o = IF s < 0 THEN Raise("timeval_invalid")
          ELSE IF d.error # NoError THEN Raise("timeval_overflow")
          ELSE Return([sec |-> sec, usec |-> usec])
  BY DEF timeval_init, normalise
<1>3. "timeval_invalid" \in Conditions /\ "timeval_overflow" \in Conditions
  BY DEF Conditions
<1>4. CASE s < 0
  BY <1>2, <1>3, <1>4, Raised
<1>5. CASE s >= 0
  <2>1. s \in 0..LONG_MAX
    BY <1>1, <1>5
  <2>2. Distributed(d, s, u, Second)
    <3>. HIDE DEF d
    <3>1. d = distribute(s, u, Second)
      BY DEF d
    <3>. QED
      BY <1>1, <2>1, <3>1, Distributes
  <2>. HIDE DEF d
  <2>3. CASE d.error # NoError
    <3>1. o = Raise("timeval_overflow")
      BY <1>1, <1>2, <1>5, <2>3
    <3>2. (u < 0 /\ micros <= 0) \/ micros >= LONG_MAX * Second
      BY <2>2, <2>3 DEF Distributed
    <3>3. AtLimit(micros, u, 0)
      BY <3>2 DEF AtLimit
    <3>. QED
      BY <1>3, <3>1, <3>3, Raised
  <2>4. CASE d.error = NoError
    <3>1. /\ sec \in 0..LONG_MAX /\ usec \in 0..(Second - 1)
          /\ sec * Second + usec = micros
          /\ sec = LONG_MAX => s = LONG_MAX
      BY <2>2, <2>4 DEF Distributed
    <3>. DEFINE t == [sec |-> sec, usec |-> usec]
    <3>2. o = Return(t)
      BY <1>1, <1>2, <1>5, <2>4
    <3>. HIDE DEF sec, usec
    <3>3. t \in Timevals /\ t.sec = sec /\ t.usec = usec
      BY <3>1 DEF Timevals
    <3>. HIDE DEF t
    <3>4. Micros(t) = micros
      BY <3>1, <3>3, TimevalMicros
    <3>5. is_infinite(t) => s = LONG_MAX
      BY <3>1, <3>3 DEF is_infinite
    <3>6. o.raised = NoError /\ o.held = t
      BY <3>2, Returned
    <3>. QED
      BY <3>3, <3>4, <3>5, <3>6 DEF Exact
  <2>. QED
    BY <2>3, <2>4
<1>. QED
  BY <1>1, <1>4, <1>5

\* ccevents_timeval_sub: the differences of normalised times never wrap around.
LEMMA TimevalSub ==
  ASSUME NEW A \in Timevals, NEW B \in Timevals,
         NEW micros, micros = Micros(A) - Micros(B)
  PROVE  Exact(timeval_sub(A, B), Timevals, micros, is_infinite(A),
               AtLimit(micros, 0, 0))
<1>. DEFINE s == A.sec - B.sec
            u == A.usec - B.usec
<1>1. /\ A.sec \in 0..LONG_MAX /\ A.usec \in 0..(Second - 1)
      /\ B.sec \in 0..LONG_MAX /\ B.usec \in 0..(Second - 1)
      /\ Micros(A) = A.sec * Second + A.usec /\ Micros(B) = B.sec * Second + B.usec
  BY TimevalMicros
<1>2. LONG_MAX \in Nat /\ Second \in Nat /\ 2 * Second <= LONG_MAX
  BY Units
<1>3. s \in Longs /\ u \in Longs /\ s \in Int /\ u \in Int /\ u > -Second /\ u < Second
  BY <1>1, <1>2 DEF Longs, LONG_MIN
<1>4. s = LONG_MAX => A.sec = LONG_MAX
  BY <1>1, <1>2
<1>5. s * Second + u = micros
  <2>1. s * Second = A.sec * Second - B.sec * Second
    BY <1>1, <1>2
  <2>2. A.sec * Second \in Int /\ B.sec * Second \in Int
    BY <1>1, <1>2
  <2>. QED
    BY <1>1, <1>2, <2>1, <2>2
<1>6. timeval_sub(A, B) = timeval_init(s, u)
  BY <1>3, LongIs DEF timeval_sub
<1>. HIDE DEF s, u
<1>7. Exact(timeval_init(s, u), Timevals, micros, s = LONG_MAX,
            s < 0 \/ AtLimit(micros, u, 0))
  BY <1>3, <1>5, TimevalInit
<1>8. s < 0 => micros < 0
  <2>. SUFFICES ASSUME s < 0 PROVE micros < 0
    OBVIOUS
  <2>1. s * Second <= (-1) * Second
    BY <1>2, <1>3, Products
  <2>. QED
    BY <1>2, <1>3, <1>5, <2>1
<1>9. u < 0 /\ s >= 0 /\ micros <= 0 => micros < 0
  <2>. SUFFICES ASSUME u < 0, s >= 0, micros = 0 PROVE FALSE
    BY <1>2, <1>3, <1>5
  <2>1. s = 0
    <3>. SUFFICES ASSUME s >= 1 PROVE FALSE
      BY <1>3
    <3>1. 1 * Second <= s * Second
      BY <1>2, <1>3, Products
    <3>. QED
      BY <1>2, <1>3, <1>5, <3>1
  <2>. QED
    BY <1>2, <1>3, <1>5, <2>1
<1>10. (s < 0 \/ AtLimit(micros, u, 0)) => AtLimit(micros, 0, 0)
  BY <1>3, <1>8, <1>9 DEF AtLimit
<1>. QED
  BY <1>4, <1>6, <1>7, <1>10 DEF Exact, is_infinite

\* ccevents_timeval_add: the sum is tested before it is computed.
LEMMA TimevalAdd ==
  ASSUME NEW A \in Timevals, NEW B \in Timevals,
         NEW micros, micros = Micros(A) + Micros(B)
  PROVE  Exact(timeval_add(A, B), Timevals, micros, FALSE, AtLimit(micros, 0, 0))
<1>. DEFINE s == A.sec + B.sec
            u == A.usec + B.usec
            q == Quot(u, Second)
            r == Rem(u, Second)
            o == timeval_add(A, B)
<1>1. /\ A.sec \in 0..LONG_MAX /\ A.usec \in 0..(Second - 1)
      /\ B.sec \in 0..LONG_MAX /\ B.usec \in 0..(Second - 1)
      /\ Micros(A) = A.sec * Second + A.usec /\ Micros(B) = B.sec * Second + B.usec
  BY TimevalMicros
<1>2. LONG_MAX \in Nat /\ Second \in Nat /\ Second >= 2 /\ 2 * Second <= LONG_MAX
  BY Units
<1>3. s \in Int /\ u \in Nat /\ u \in Longs /\ s >= 0
  BY <1>1, <1>2 DEF Longs, LONG_MIN
<1>4. micros = s * Second + u
  <2>1. s * Second = A.sec * Second + B.sec * Second
    BY <1>1, <1>2
  <2>2. A.sec * Second \in Int /\ B.sec * Second \in Int
    BY <1>1, <1>2
  <2>. QED
    BY <1>1, <1>2, <2>1, <2>2
<1>5. u = q * Second + r /\ r \in 0..(Second - 1) /\ q \in Nat
  <2>. HIDE DEF u
  <2>. QED
    BY <1>2, <1>3, Quotient
<1>6. Long(u) = u
  BY <1>3, LongIs
<1>7. o = IF LONG_MAX - A.sec > B.sec /\ LONG_MAX - Long(s) > q
            THEN Return([sec |-> Long(Long(s) + q), usec |-> r])
            ELSE Raise("timeval_overflow")
  BY <1>6 DEF timeval_add
<1>8. LONG_MAX - A.sec > B.sec <=> s < LONG_MAX
  BY <1>1, <1>2
<1>. HIDE DEF s, u, q, r
<1>9. CASE s < LONG_MAX /\ s + q < LONG_MAX
  <2>. DEFINE t == [sec |-> s + q, usec |-> r]
  <2>1. s \in Longs /\ s + q \in Longs /\ LONG_MAX - s > q
    BY <1>2, <1>3, <1>5, <1>9 DEF Longs, LONG_MIN
  <2>2. Long(s) = s /\ Long(s + q) = s + q
    BY <2>1, LongIs
  <2>3. o = Return(t)
    BY <1>7, <1>8, <1>9, <2>1, <2>2
  <2>4. t \in Timevals /\ t.sec = s + q /\ t.usec = r
    BY <1>2, <1>3, <1>5, <1>9 DEF Timevals
  <2>. HIDE DEF t
  <2>5. (s + q) * Second = s * Second + q * Second
    BY <1>2, <1>3, <1>5, Products
  <2>6. Micros(t) = micros
    <3>1. Micros(t) = (s + q) * Second + r
      BY <2>4, TimevalMicros
    <3>2. s * Second \in Int /\ q * Second \in Int /\ r \in Int
      BY <1>2, <1>3, <1>5
    <3>. QED
      BY <1>3, <1>4, <1>5, <2>5, <3>1, <3>2
  <2>7. ~is_infinite(t)
    BY <1>2, <1>3, <1>5, <1>9, <2>4 DEF is_infinite
  <2>8. o.raised = NoError /\ o.held = t
    BY <2>3, Returned
  <2>. QED
    BY <2>4, <2>6, <2>7, <2>8 DEF Exact
<1>10. CASE ~(s < LONG_MAX /\ s + q < LONG_MAX)
  <2>1. o = Raise("timeval_overflow")
    <3>1. CASE ~(s < LONG_MAX)
      BY <1>7, <1>8, <3>1
    <3>2. CASE s < LONG_MAX
      <4>1. s \in Longs /\ ~(LONG_MAX - s > q)
        BY <1>2, <1>3, <1>5, <1>10, <3>2 DEF Longs, LONG_MIN
      <4>. QED
        BY <1>7, <4>1, LongIs
    <3>. QED
      BY <3>1, <3>2
  <2>2. s + q >= LONG_MAX
    BY <1>2, <1>3, <1>5, <1>10
  <2>3. LONG_MAX * Second <= (s + q) * Second
    BY <1>2, <1>3, <1>5, <2>2, Products
  <2>4. (s + q) * Second = s * Second + q * Second
    BY <1>2, <1>3, <1>5, Products
  <2>5. micros >= LONG_MAX * Second
    BY <1>2, <1>3, <1>4, <1>5, <2>3, <2>4
  <2>6. AtLimit(micros, 0, 0)
    BY <2>5 DEF AtLimit
  <2>7. "timeval_overflow" \in Conditions
    BY DEF Conditions
  <2>. QED
    BY <2>1, <2>6, <2>7, Raised
<1>. QED
  BY <1>9, <1>10

\* Lexicographic order is the order of the lengths.
(***************************************************************************)
(* Comparisons.                                                            *)
(***************************************************************************)

\* Comparing the big units first, then the little ones, compares the lengths.
LEMMA Lexicographic ==
  ASSUME NEW a \in Int, NEW b \in Int, NEW u \in Nat,
         NEW x \in 0..(u - 1), NEW y \in 0..(u - 1)
  PROVE  /\ a < b => a * u + x < b * u + y
         /\ a = b => (a * u + x < b * u + y <=> x < y)
<1>1. ASSUME a < b PROVE a * u + x < b * u + y
  <2>1. a + 1 <= b
    BY <1>1
  <2>2. (a + 1) * u <= b * u
    BY <2>1, Products
  <2>3. (a + 1) * u = a * u + 1 * u
    BY Products
  <2>4. a * u \in Int /\ b * u \in Int
    OBVIOUS
  <2>. QED
    BY <2>2, <2>3, <2>4
<1>2. ASSUME a = b PROVE a * u + x < b * u + y <=> x < y
  <2>1. a * u = b * u /\ a * u \in Int
    BY <1>2
  <2>. QED
    BY <2>1
<1>. QED
  BY <1>1, <1>2

\* ccevents_timeout_start, for a finite timeout, is an addition.
LEMMA TimeoutStart ==
  ASSUME NEW to \in Timeouts, NEW now \in Timevals,
         NEW micros, micros = IF is_infinite(to) THEN LONG_MAX * Second
                                                 ELSE Micros(now) + Micros(to)
  PROVE  Exact(timeout_start(to, now), Timevals, micros, is_infinite(to),
               AtLimit(micros, 0, 0))
<1>1. /\ LONG_MAX \in Nat /\ Second \in Nat /\ Second >= 2 /\ Second <= LONG_MAX
      /\ K \in Nat /\ K >= 2 /\ Second = K * K
  BY Units
<1>2. /\ to.sec \in 0..LONG_MAX /\ to.ms \in 0..(K - 1) /\ to.us \in 0..(K - 1)
      /\ Micros(to) = (to.sec * K + to.ms) * K + to.us
  BY TimeoutMicros
<1>3. CASE is_infinite(to)
  <2>. DEFINE t == [sec |-> LONG_MAX, usec |-> 0]
  <2>1. timeout_start(to, now) = Return(t)
    BY <1>3 DEF timeout_start
  <2>2. t \in Timevals /\ t.sec = LONG_MAX /\ t.usec = 0
    BY <1>1 DEF Timevals
  <2>. HIDE DEF t
  <2>3. Micros(t) = LONG_MAX * Second
    <3>1. Micros(t) = LONG_MAX * Second + 0
      BY <2>2, TimevalMicros
    <3>. QED
      BY <1>1, <3>1
  <2>. QED
    BY <1>3, <2>1, <2>2, <2>3, Returned DEF Exact
<1>4. CASE ~is_infinite(to)
  <2>. DEFINE u == K * to.ms + to.us
              t == [sec |-> to.sec, usec |-> u]
  <2>1. u \in 0..(Second - 1) /\ u \in Int
    <3>1. to.ms * K <= (K - 1) * K
      BY <1>1, <1>2, Products
    <3>2. (K - 1) * K = Second - K /\ K * to.ms = to.ms * K /\ to.ms * K \in Nat
      BY <1>1, <1>2
    <3>. QED
      BY <1>1, <1>2, <3>1, <3>2
  <2>2. Micros(to) = to.sec * Second + u
    <3>1. (to.sec * K + to.ms) * K = to.sec * Second + K * to.ms
      BY <1>1, <1>2
    <3>2. to.sec * Second \in Int /\ K * to.ms \in Int
      BY <1>1, <1>2
    <3>. QED
      BY <1>2, <3>1, <3>2
  <2>3. u \in Longs
    BY <1>1, <2>1 DEF Longs, LONG_MIN
  <2>4. timeout_start(to, now) = timeval_add(now, t)
    BY <1>4, <2>3, LongIs DEF timeout_start
  <2>. HIDE DEF u
  <2>5. t \in Timevals /\ t.sec = to.sec /\ t.usec = u
    BY <1>2, <2>1 DEF Timevals
  <2>. HIDE DEF t
  <2>6. micros = Micros(now) + Micros(t)
    BY <1>4, <2>2, <2>5, TimevalMicros
  <2>7. Exact(timeval_add(now, t), Timevals, micros, FALSE, AtLimit(micros, 0, 0))
    BY <2>5, <2>6, TimevalAdd
  <2>. QED
    BY <2>4, <2>7 DEF Exact
<1>. QED
  BY <1>3, <1>4

\* ccevents_timeval_compare and ccevents_timeval_is_expired_timeout.
LEMMA TimevalOrder ==
  ASSUME NEW A, A \in Timevals \/ A = TIMEVAL_NEVER, NEW B \in Timevals
  PROVE  /\ timeval_compare(A, B) = Sign(Micros(A) - Micros(B))
         /\ is_expired_timeout(A, B) <=>
              Micros(B) > Micros(A) /\ Micros(A) < LONG_MAX * Second
<1>1. LONG_MAX \in Nat /\ Second \in Nat /\ Second >= 2 /\ Second <= LONG_MAX
  BY Units
<1>2. /\ B.sec \in 0..LONG_MAX /\ B.usec \in 0..(Second - 1)
      /\ Micros(B) = B.sec * Second + B.usec
  BY TimevalMicros
<1>. DEFINE a == A.sec
            b == B.sec
            x == A.usec
            y == B.usec
            p == a * Second
            q == b * Second
            m == LONG_MAX * Second
<1>3. CASE A \in Timevals
  <2>1. a \in 0..LONG_MAX /\ x \in 0..(Second - 1) /\ Micros(A) = p + x
    BY <1>3, TimevalMicros
  <2>2. /\ a \in Int /\ b \in Int /\ x \in Int /\ y \in Int
        /\ p \in Int /\ q \in Int /\ m \in Int
    BY <1>1, <1>2, <2>1
  <2>3. /\ a < b => p + x < q + y
        /\ b < a => q + y < p + x
        /\ a = b => p = q
        /\ a < LONG_MAX => p + x < m + 0
        /\ a = LONG_MAX => p = m
    <3>1. y \in 0..(Second - 1) /\ 0 \in 0..(Second - 1) /\ LONG_MAX \in Int
      BY <1>1, <1>2
    <3>. HIDE DEF a, b, x, y
    <3>. QED
      BY <1>1, <2>1, <2>2, <3>1, Lexicographic
  <2>4. /\ timeval_compare(A, B) = IF a # b THEN Sign(a - b) ELSE Sign(x - y)
        /\ is_expired_timeout(A, B) <=>
             a # LONG_MAX /\ ~(b < a \/ (b = a /\ y <= x))
        /\ Micros(B) = q + y
    BY <1>2 DEF timeval_compare, is_expired_timeout, is_infinite
  <2>5. a <= LONG_MAX
    BY <1>1, <2>1
  <2>. HIDE DEF a, b, x, y, p, q, m
  <2>6. (IF a # b THEN Sign(a - b) ELSE Sign(x - y)) = Sign((p + x) - (q + y))
    BY <2>2, <2>3 DEF Sign
  <2>7. (a # LONG_MAX /\ ~(b < a \/ (b = a /\ y <= x))) <=> q + y > p + x /\ p + x < m
    BY <1>1, <2>1, <2>2, <2>3, <2>5
  <2>. QED
    BY <2>1, <2>4, <2>6, <2>7 DEF m
<1>4. CASE A = TIMEVAL_NEVER
  <2>1. a = LONG_MAX /\ x = LONG_MAX /\ Micros(A) = m + LONG_MAX
    BY <1>4, NeverMicros DEF TIMEVAL_NEVER
  <2>2. is_expired_timeout(A, B) = FALSE
    BY <2>1 DEF is_expired_timeout, is_infinite
  <2>3. m \in Int /\ q \in Int /\ b \in Int /\ y \in Int /\ y < LONG_MAX
    BY <1>1, <1>2
  <2>4. b < LONG_MAX => q + y < m + 0
    <3>1. y \in 0..(Second - 1) /\ 0 \in 0..(Second - 1) /\ LONG_MAX \in Int
      BY <1>1, <1>2
    <3>. HIDE DEF b, y
    <3>. QED
      BY <1>1, <2>3, <3>1, Lexicographic
  <2>5. b = LONG_MAX => q = m
    OBVIOUS
  <2>6. /\ timeval_compare(A, B) = IF LONG_MAX # b THEN Sign(LONG_MAX - b)
                                                   ELSE Sign(LONG_MAX - y)
        /\ Micros(B) = q + y /\ b <= LONG_MAX
    BY <1>1, <1>2, <2>1 DEF timeval_compare
  <2>. HIDE DEF a, b, x, y, p, q, m
  <2>7. (IF LONG_MAX # b THEN Sign(LONG_MAX - b) ELSE Sign(LONG_MAX - y))
          = Sign((m + LONG_MAX) - (q + y))
    BY <1>1, <2>3, <2>4, <2>5, <2>6 DEF Sign
  <2>8. ~(m + LONG_MAX < m)
    BY <1>1, <2>3
  <2>. QED
    BY <2>1, <2>2, <2>6, <2>7, <2>8 DEF m
<1>. QED
  BY <1>3, <1>4

\* ccevents_timeout_compare.
LEMMA TimeoutOrder ==
  ASSUME NEW A \in Timeouts, NEW B \in Timeouts
  PROVE  timeout_compare(A, B) = Sign(Micros(A) - Micros(B))
<1>. DEFINE a == A.sec
            b == B.sec
            v == A.ms
            w == B.ms
            x == A.us
            y == B.us
            p == a * K + v
            q == b * K + w
            P == p * K
            Q == q * K
<1>1. /\ a \in 0..LONG_MAX /\ v \in 0..(K - 1) /\ x \in 0..(K - 1)
      /\ b \in 0..LONG_MAX /\ w \in 0..(K - 1) /\ y \in 0..(K - 1)
      /\ Micros(A) = P + x /\ Micros(B) = Q + y
  BY TimeoutMicros
<1>2. LONG_MAX \in Nat /\ K \in Nat /\ K >= 2
  BY Units
<1>3. timeout_compare(A, B) = CASE a # b -> Sign(a - b)
                                [] a = b /\ v # w -> Sign(v - w)
                                [] OTHER -> Sign(x - y)
  BY DEF timeout_compare
<1>. HIDE DEF a, b, v, w, x, y
<1>4. /\ a \in Int /\ b \in Int /\ v \in Int /\ w \in Int /\ x \in Int /\ y \in Int
      /\ p \in Int /\ q \in Int
  BY <1>1, <1>2
<1>5. /\ a < b => p < q
      /\ b < a => q < p
      /\ a = b => (p < q <=> v < w) /\ (q < p <=> w < v)
  BY <1>1, <1>2, <1>4, Lexicographic
<1>. HIDE DEF p, q
<1>6. /\ p < q => P + x < Q + y
      /\ q < p => Q + y < P + x
      /\ p = q => (P + x < Q + y <=> x < y) /\ (Q + y < P + x <=> y < x)
      /\ P \in Int /\ Q \in Int
  BY <1>1, <1>2, <1>4, Lexicographic
<1>. HIDE DEF P, Q
<1>7. (CASE a # b -> Sign(a - b) [] a = b /\ v # w -> Sign(v - w) [] OTHER -> Sign(x - y))
        = Sign((P + x) - (Q + y))
  <2>1. CASE a # b
    BY <1>4, <1>5, <1>6, <2>1 DEF Sign
  <2>2. CASE a = b /\ v # w
    BY <1>4, <1>5, <1>6, <2>2 DEF Sign
  <2>3. CASE a = b /\ v = w
    <3>1. p = q
      BY <1>4, <1>5, <2>3
    <3>. QED
      BY <1>4, <1>6, <2>3, <3>1 DEF Sign
  <2>. QED
    BY <2>1, <2>2, <2>3
<1>. QED
  BY <1>1, <1>3, <1>7

(***************************************************************************)
(* The program: after any number of calls.                                 *)
(***************************************************************************)

IInv == TypeOK /\ HeldIsExact /\ InfiniteOnDemand /\ RaisesOnlyAtLimit

\* A call whose outcome is exact leaves the invariant in place.
LEMMA OutcomeKeeps ==
  ASSUME NEW o, NEW Values, NEW micros \in Int, NEW infinite \in BOOLEAN,
         NEW atLimit \in BOOLEAN, Values \subseteq Timevals \cup Timeouts,
         Exact(o, Values, micros, infinite, atLimit),
         Becomes(o, micros, infinite, atLimit)
  PROVE  IInv'
<1>1. /\ held' = o.held /\ raised' = o.raised
      /\ due' = micros /\ forever' = infinite /\ limit' = atLimit
  BY DEF Becomes
<1>2. CASE o.raised = NoError
  <2>1. /\ o.held \in Timevals \cup Timeouts /\ Micros(o.held) = micros
        /\ is_infinite(o.held) => infinite
    BY <1>2 DEF Exact
  <2>2. TypeOK'
    BY <1>1, <1>2, <2>1 DEF TypeOK
  <2>3. HeldIsExact' /\ InfiniteOnDemand' /\ RaisesOnlyAtLimit'
    BY <1>1, <1>2, <2>1
       DEF HeldIsExact, InfiniteOnDemand, RaisesOnlyAtLimit, Micros, IsTimeout, is_infinite
  <2>. QED
    BY <2>2, <2>3 DEF IInv
<1>3. CASE o.raised # NoError
  <2>1. o.held = None /\ atLimit /\ o.raised \in Conditions
    BY <1>3 DEF Exact
  <2>2. TypeOK'
    BY <1>1, <2>1 DEF TypeOK
  <2>3. HeldIsExact' /\ InfiniteOnDemand' /\ RaisesOnlyAtLimit'
    BY <1>1, <2>1 DEF HeldIsExact, InfiniteOnDemand, RaisesOnlyAtLimit
  <2>. QED
    BY <2>2, <2>3 DEF IInv
<1>. QED
  BY <1>2, <1>3

LEMMA InitInvariant == Init => IInv
<1>. SUFFICES ASSUME Init PROVE IInv
  OBVIOUS
<1>1. TypeOK
  <2>1. held = None /\ raised = NoError /\ due \in Int
    BY DEF Init
  <2>2. forever \in BOOLEAN /\ limit \in BOOLEAN
    BY Zenon DEF Init
  <2>. QED
    BY <2>1, <2>2 DEF TypeOK
<1>2. HeldIsExact /\ InfiniteOnDemand /\ RaisesOnlyAtLimit
  BY DEF Init, HeldIsExact, InfiniteOnDemand, RaisesOnlyAtLimit
<1>. QED
  BY <1>1, <1>2 DEF IInv

LEMMA StepInvariant == IInv /\ [Next]_vars => IInv'
<1>. SUFFICES ASSUME IInv, [Next]_vars PROVE IInv'
  OBVIOUS
<1>1. /\ LONG_MAX \in Nat /\ K \in Nat /\ Second \in Nat
      /\ \A n \in Longs : n \in Int
      /\ due \in Int /\ forever \in BOOLEAN
  BY Units DEF Longs, LONG_MIN, IInv, TypeOK
<1>2. \A micros, little, small : AtLimit(micros, little, small) \in BOOLEAN
  BY DEF AtLimit
<1>3. \A T \in Timevals : Micros(T) \in Int /\ T # None
  <2>. SUFFICES ASSUME NEW T \in Timevals PROVE Micros(T) \in Int /\ T # None
    OBVIOUS
  <2>1. T.sec \in Int /\ T.usec \in Int
    BY <1>1, TimevalMicros
  <2>. QED
    BY <1>1, <2>1, TimevalMicros
<1>4. ASSUME NEW s \in Longs, NEW u \in Longs, make_timeval(s, u) PROVE IInv'
  <2>. DEFINE micros == s * Second + u
  <2>1. micros \in Int
    BY <1>1
  <2>2. Becomes(timeval_init(s, u), micros, s = LONG_MAX, s < 0 \/ AtLimit(micros, u, 0))
    BY <1>4 DEF make_timeval
  <2>3. Exact(timeval_init(s, u), Timevals, micros, s = LONG_MAX,
              s < 0 \/ AtLimit(micros, u, 0))
    <3>. HIDE DEF micros
    <3>1. micros = s * Second + u
      BY DEF micros
    <3>. QED
      BY <3>1, TimevalInit
  <2>. HIDE DEF micros
  <2>4. (s < 0 \/ AtLimit(micros, u, 0)) \in BOOLEAN /\ (s = LONG_MAX) \in BOOLEAN
    BY <1>2
  <2>. QED
    BY <2>1, <2>2, <2>3, <2>4, OutcomeKeeps
<1>5. ASSUME NEW s \in Longs, NEW m \in Longs, NEW u \in Longs, make_timeout(s, m, u)
      PROVE  IInv'
  <2>. DEFINE upper == s * Second + m * K
              micros == upper + u
              tooFar == s < 0 \/ AtLimit(upper, m, 0) \/ AtLimit(micros, u, K)
  <2>1. micros \in Int
    BY <1>1
  <2>2. Becomes(timeout_init(s, m, u), micros, s = LONG_MAX, tooFar)
    BY <1>5 DEF make_timeout
  <2>3. Exact(timeout_init(s, m, u), Timeouts, micros, s = LONG_MAX, tooFar)
    <3>. HIDE DEF upper
    <3>1. upper = s * Second + m * K
      BY DEF upper
    <3>. QED
      BY <3>1, TimeoutInit
  <2>4. tooFar \in BOOLEAN /\ (s = LONG_MAX) \in BOOLEAN
    BY <1>2
  <2>. HIDE DEF micros, tooFar
  <2>. QED
    BY <2>1, <2>2, <2>3, <2>4, OutcomeKeeps
<1>6. ASSUME NEW T \in Timevals, add(T) PROVE IInv'
  <2>. DEFINE micros == due + Micros(T)
              infinite == forever \/ is_infinite(T)
  <2>1. held \in Timevals /\ due = Micros(held)
    BY <1>3, <1>6 DEF add, HoldsTimeval, IInv, HeldIsExact
  <2>2. micros \in Int /\ AtLimit(micros, 0, 0) \in BOOLEAN /\ infinite \in BOOLEAN
    BY <1>1, <1>2, <1>3 DEF is_infinite
  <2>3. Becomes(timeval_add(held, T), micros, infinite, AtLimit(micros, 0, 0))
    BY <1>6 DEF add
  <2>4. Exact(timeval_add(held, T), Timevals, micros, FALSE, AtLimit(micros, 0, 0))
    BY <2>1, TimevalAdd
  <2>5. Exact(timeval_add(held, T), Timevals, micros, infinite, AtLimit(micros, 0, 0))
    BY <2>4 DEF Exact
  <2>. HIDE DEF micros, infinite
  <2>. QED
    BY <2>2, <2>3, <2>5, OutcomeKeeps
<1>7. ASSUME NEW T \in Timevals, sub(T) PROVE IInv'
  <2>. DEFINE micros == due - Micros(T)
  <2>1. held \in Timevals /\ due = Micros(held) /\ (is_infinite(held) => forever)
    BY <1>3, <1>7 DEF sub, HoldsTimeval, IInv, HeldIsExact, InfiniteOnDemand
  <2>2. micros \in Int /\ AtLimit(micros, 0, 0) \in BOOLEAN
    BY <1>1, <1>2, <1>3
  <2>3. Becomes(timeval_sub(held, T), micros, forever, AtLimit(micros, 0, 0))
    BY <1>7 DEF sub
  <2>4. Exact(timeval_sub(held, T), Timevals, micros, is_infinite(held),
              AtLimit(micros, 0, 0))
    BY <2>1, TimevalSub
  <2>5. Exact(timeval_sub(held, T), Timevals, micros, forever, AtLimit(micros, 0, 0))
    BY <2>1, <2>4 DEF Exact
  <2>. HIDE DEF micros
  <2>. QED
    BY <1>1, <2>2, <2>3, <2>5, OutcomeKeeps
<1>8. ASSUME NEW T \in Timevals, start(T) PROVE IInv'
  <2>. DEFINE micros == IF is_infinite(held) THEN LONG_MAX * Second
                                             ELSE Micros(T) + due
  <2>1. held \in Timeouts /\ due = Micros(held) /\ (is_infinite(held) => forever)
    BY <1>8, TimeoutMicros DEF start, HoldsTimeout, IInv, HeldIsExact, InfiniteOnDemand
  <2>2. micros \in Int /\ AtLimit(micros, 0, 0) \in BOOLEAN
    BY <1>1, <1>2, <1>3
  <2>3. Becomes(timeout_start(held, T), micros, forever, AtLimit(micros, 0, 0))
    BY <1>8 DEF start
  <2>4. Exact(timeout_start(held, T), Timevals, micros, is_infinite(held),
              AtLimit(micros, 0, 0))
    BY <2>1, TimeoutStart
  <2>5. Exact(timeout_start(held, T), Timevals, micros, forever, AtLimit(micros, 0, 0))
    BY <2>1, <2>4 DEF Exact
  <2>. HIDE DEF micros
  <2>. QED
    BY <1>1, <2>2, <2>3, <2>5, OutcomeKeeps
<1>9. ASSUME make_never PROVE IInv'
  <2>1. /\ held' = TIMEVAL_NEVER /\ raised' = NoError
        /\ due' = Micros(TIMEVAL_NEVER) /\ forever' = TRUE /\ limit' = TRUE
    BY <1>9, Returned DEF make_never, Becomes
  <2>2. Micros(TIMEVAL_NEVER) \in Int
    BY <1>1, NeverMicros
  <2>3. TypeOK'
    BY <2>1, <2>2 DEF TypeOK
  <2>4. HeldIsExact' /\ InfiniteOnDemand' /\ RaisesOnlyAtLimit'
    BY <2>1 DEF HeldIsExact, InfiniteOnDemand, RaisesOnlyAtLimit, Micros, IsTimeout
  <2>. QED
    BY <2>3, <2>4 DEF IInv
<1>10. ASSUME begin_again PROVE IInv'
  <2>1. /\ held' = None /\ raised' = NoError
        /\ due' = 0 /\ forever' = FALSE /\ limit' = FALSE
    BY <1>10, Returned DEF begin_again, Becomes
  <2>2. TypeOK'
    <3>1. forever' \in BOOLEAN /\ limit' \in BOOLEAN
      BY <2>1, Zenon
    <3>. QED
      BY <2>1, <3>1 DEF TypeOK
  <2>3. HeldIsExact' /\ InfiniteOnDemand' /\ RaisesOnlyAtLimit'
    BY <2>1 DEF HeldIsExact, InfiniteOnDemand, RaisesOnlyAtLimit
  <2>. QED
    BY <2>2, <2>3 DEF IInv
<1>11. CASE UNCHANGED vars
  BY <1>11 DEF vars, history, IInv, TypeOK, HeldIsExact, InfiniteOnDemand,
     RaisesOnlyAtLimit, Micros, IsTimeout, is_infinite
<1>. QED
  BY <1>4, <1>5, <1>6, <1>7, <1>8, <1>9, <1>10, <1>11 DEF Next

\* Whatever functions of ccevents-timevals.c and ccevents-timeouts.c are applied
\* one after the other, the time that is held is normalised and the exact result.
THEOREM TimesInvariance == Spec => []IInv
<1>. QED
  BY InitInvariant, StepInvariant, PTL DEF Spec

\* Every value the functions of ccevents-timevals.c and ccevents-timeouts.c return
\* is normalised, for longs of any width and any radix that fits it.
THEOREM TimesTypeCorrect == Spec => []TypeOK
<1>1. IInv => TypeOK
  BY DEF IInv
<1>. QED
  BY <1>1, TimesInvariance, PTL

\* No borrow, carry or redistribution drops or invents a microsecond.
THEOREM HeldIsExactCorrect == Spec => []HeldIsExact
<1>1. IInv => HeldIsExact
  BY DEF IInv
<1>. QED
  BY <1>1, TimesInvariance, PTL

\* No arithmetic on finite times makes an infinite one.
THEOREM InfiniteCorrect == Spec => []InfiniteOnDemand
<1>1. IInv => InfiniteOnDemand
  BY DEF IInv
<1>. QED
  BY <1>1, TimesInvariance, PTL

\* The functions raise only at the limits of the representation.
THEOREM RaisesCorrect == Spec => []RaisesOnlyAtLimit
<1>1. IInv => RaisesOnlyAtLimit
  BY DEF IInv
<1>. QED
  BY <1>1, TimesInvariance, PTL

\* The comparison functions order the times a program can compute by length.
THEOREM CompareCorrect == Spec => []CompareIsOrder
<1>1. IInv => CompareIsOrder
  <2>. SUFFICES ASSUME IInv PROVE CompareIsOrder
    OBVIOUS
  <2>1. held # None => due = Micros(held)
    BY DEF IInv, HeldIsExact
  <2>2. ASSUME HoldsTimeout, NEW B \in Timeouts
        PROVE  timeout_compare(held, B) = Sign(due - Micros(B))
    <3>1. held \in Timeouts /\ held # None
      BY <2>2, TimeoutMicros DEF HoldsTimeout
    <3>. QED
      BY <2>1, <3>1, TimeoutOrder
  <2>3. ASSUME HoldsTimeval \/ held = TIMEVAL_NEVER, NEW B \in Timevals
        PROVE  timeval_compare(held, B) = Sign(due - Micros(B))
    <3>1. held # None /\ (held \in Timevals \/ held = TIMEVAL_NEVER)
      BY <2>3, TimevalMicros, NeverMicros DEF HoldsTimeval
    <3>. QED
      BY <2>1, <3>1, TimevalOrder
  <2>. QED
    BY <2>2, <2>3 DEF CompareIsOrder
<1>. QED
  BY <1>1, TimesInvariance, PTL

\* An expiration time has expired exactly after it was due, an infinite one never.
THEOREM ExpiresCorrect == Spec => []ExpiresWhenDue
<1>1. IInv => ExpiresWhenDue
  <2>. SUFFICES ASSUME IInv, HoldsTimeval \/ held = TIMEVAL_NEVER, NEW now \in Timevals
                PROVE  is_expired_timeout(held, now) <=>
                         Micros(now) > due /\ due < LONG_MAX * Second
    BY DEF ExpiresWhenDue
  <2>1. held # None /\ (held \in Timevals \/ held = TIMEVAL_NEVER)
    BY TimevalMicros, NeverMicros DEF HoldsTimeval
  <2>2. due = Micros(held)
    BY <2>1 DEF IInv, HeldIsExact
  <2>. QED
    BY <2>1, <2>2, TimevalOrder
<1>. QED
  BY <1>1, TimesInvariance, PTL
=============================================================================
