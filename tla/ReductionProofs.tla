-------------------------- MODULE ReductionProofs --------------------------
(***************************************************************************)
(* The arithmetic of ML-KEM and ML-DSA for every integer the code can give *)
(* it, where the runs try the borders of the intervals: the shifts and     *)
(* constants are the divisions and roundings of the standards, and the     *)
(* hint of the signer gives the verifier the high part back.               *)
(*                                                                         *)
(* Every quotient gets a name, with the linear inequalities that define    *)
(* it; from there the provers need no division.                            *)
(***************************************************************************)
EXTENDS Integers, TLAPS

Kem == INSTANCE MlKemReductions
Dsa == INSTANCE MlDsaRoundings

-----------------------------------------------------------------------------
(* Division.                                                               *)

\* A multiple of d is at least d above the one before.
LEMMA Steps ==
    ASSUME NEW d \in Int, d > 0, NEW x \in Int, NEW y \in Int, x < y
    PROVE  d * x + d <= d * y
<1>1. d * (y - x - 1) >= 0
  BY SMT
<1>2. d * (y - x - 1) = d * y - d * x - d
  BY SMT
<1> QED BY <1>1, <1>2, SMT

\* What \div and % stand for.
LEMMA Dividing ==
    ASSUME NEW n \in Int, NEW d \in Int, d > 0
    PROVE  /\ n \div d \in Int /\ (n % d) \in Int
           /\ 0 <= n % d /\ n % d < d
           /\ n = d * (n \div d) + (n % d)
BY SMT

\* There is one quotient and one remainder.
LEMMA Quotient ==
    ASSUME NEW n \in Int, NEW d \in Int, d > 0, NEW k \in Int, NEW r \in Int,
           0 <= r, r < d, n = d * k + r
    PROVE  n \div d = k /\ n % d = r
<1>1. /\ n \div d \in Int /\ (n % d) \in Int
      /\ 0 <= n % d /\ n % d < d
      /\ n = d * (n \div d) + (n % d)
  BY Dividing
<1>2. ~(n \div d < k) /\ ~(k < n \div d)
  BY <1>1, Steps, SMT
<1> QED BY <1>1, <1>2, SMT

-----------------------------------------------------------------------------
(* ML-KEM.                                                                 *)

\* div_q(): the product and the shift divide by q, for all of the 23 bits.
LEMMA ShiftDivides ==
    ASSUME NEW n \in Int, 0 <= n, n <= 8388607
    PROVE  Kem!DivQ(n) = n \div 3329
<1> DEFINE h == n \div 4096
           l == n % 4096
           c == (l * 3516) \div 4096
           mid == h * 3516 + l * 2519 + c
           m == mid \div 4096
           s == (h * 2519 + m) \div 2048
           t == n \div 3329
           r == (l * 3516) % 4096
           k == mid % 4096
           v == (h * 2519 + m) % 2048
           u == n % 3329
<1>1. h \in Int /\ l \in Int /\ 0 <= l /\ l < 4096 /\ n = 4096 * h + l
  BY SMT
<1>2. t \in Int /\ u \in Int /\ 0 <= u /\ u < 3329 /\ n = 3329 * t + u
  BY SMT
<1>3. c \in Int /\ r \in Int /\ 0 <= r /\ r < 4096 /\ l * 3516 = 4096 * c + r
  <2> HIDE DEF l
  <2> QED BY <1>1, SMT
<1>4. mid \in Int /\ mid = h * 3516 + l * 2519 + c
  <2> HIDE DEF h, l, c
  <2> QED BY <1>1, <1>3, SMT
<1>5. m \in Int /\ k \in Int /\ 0 <= k /\ k < 4096 /\ mid = 4096 * m + k
  <2> HIDE DEF mid
  <2> QED BY <1>4, SMT
<1>6. s \in Int /\ v \in Int /\ 0 <= v /\ v < 2048 /\ h * 2519 + m = 2048 * s + v
  <2> HIDE DEF h, m
  <2> QED BY <1>1, <1>5, SMT
<1>7. s = t
  <2> HIDE DEF h, l, c, mid, m, s, t, u, r, k, v
  <2> QED BY <1>1, <1>2, <1>3, <1>4, <1>5, <1>6, SMT
<1> QED BY <1>7, SMT DEF Kem!DivQ

\* A cast to int16_t takes off a multiple of 2^16.
LEMMA Int16Is ==
    ASSUME NEW x \in Int
    PROVE  \E y \in Int : /\ Kem!Int16(x) = x - 65536 * y
                          /\ -32768 <= Kem!Int16(x) /\ Kem!Int16(x) <= 32767
<1> DEFINE y == (x + 32768) \div 65536
           l == (x + 32768) % 65536
<1>1. y \in Int /\ l \in Int /\ 0 <= l /\ l < 65536 /\ x + 32768 = 65536 * y + l
  BY SMT
<1>2. Kem!Int16(x) = l - 32768
  BY SMT DEF Kem!Int16
<1> HIDE DEF y, l
<1>3. l - 32768 = x - 65536 * y /\ -32768 <= l - 32768 /\ l - 32768 <= 32767
  BY <1>1, SMT
<1> USE <1>1
<1> WITNESS y \in Int
<1> QED BY <1>2, <1>3, SMT

\* A cast leaves alone what fits.
LEMMA Int16Same ==
    ASSUME NEW x \in Int, -32768 <= x, x <= 32767
    PROVE  Kem!Int16(x) = x
<1> PICK y \in Int : /\ Kem!Int16(x) = x - 65536 * y
                     /\ -32768 <= Kem!Int16(x) /\ Kem!Int16(x) <= 32767
  BY Int16Is, SMT
<1> QED BY SMT

\* montgomery_reduce() takes a multiple of q off, divides by 2^16 and ends within q.
LEMMA MontgomeryIs ==
    ASSUME NEW a \in Int, -109084672 < a, a < 109084672
    PROVE  \E z \in Int :
              /\ Kem!MontgomeryReduce(a) \in Int
              /\ -3328 <= Kem!MontgomeryReduce(a) /\ Kem!MontgomeryReduce(a) <= 3328
              /\ 65536 * Kem!MontgomeryReduce(a) = a + 3329 * z
<1> DEFINE h == a \div 65536
           l == a % 65536
           t == Kem!Int16(l * (-3327))
<1>1. h \in Int /\ l \in Int /\ 0 <= l /\ l < 65536 /\ a = 65536 * h + l
  BY SMT
<1>2. l * (-3327) \in Int
  BY <1>1, SMT
<1>3. PICK y \in Int : t = l * (-3327) - 65536 * y /\ -32768 <= t /\ t <= 32767
  BY <1>2, Int16Is, SMT
<1> DEFINE w == h + 169 * l + 3329 * y
<1> HIDE DEF h, l, t
<1>4. w \in Int /\ t \in Int /\ a - t * 3329 = 65536 * w + 0
  BY <1>1, <1>3, SMT
<1> HIDE DEF w
<1>5. -3328 <= w /\ w <= 3328
  BY <1>3, <1>4, SMT
<1>6. (a - t * 3329) \div 65536 = w
  <2>1. a - t * 3329 \in Int
    BY <1>4, SMT
  <2> QED BY <1>4, <2>1, SMT
<1>7. Kem!Int16(w) = w
  BY <1>4, <1>5, Int16Same, SMT
<1>8. Kem!MontgomeryReduce(a) = w
  BY <1>6, <1>7, SMT DEF Kem!MontgomeryReduce, Kem!Q, t, l
<1>9. -t \in Int
  BY <1>4, SMT
<1> USE <1>9
<1> WITNESS -t \in Int
<1> QED BY <1>4, <1>5, <1>8, SMT

\* barrett_reduce() takes a multiple of q off and ends within half of q, also where the
\* product with q does not fit 16 bits.
LEMMA BarrettIs ==
    ASSUME NEW a \in Int, -32768 <= a, a <= 32767
    PROVE  \E z \in Int : /\ Kem!BarrettReduce(a) = a - 3329 * z
                          /\ -1664 <= Kem!BarrettReduce(a) /\ Kem!BarrettReduce(a) <= 1664
<1> DEFINE n == 20159 * a + 33554432
           t == n \div 67108864
           r == n % 67108864
<1>1. n \in Int /\ n = 20159 * a + 33554432
  BY SMT
<1>2. t \in Int /\ r \in Int /\ 0 <= r /\ r < 67108864 /\ n = 67108864 * t + r
  <2> HIDE DEF n
  <2> QED BY <1>1, SMT
<1>3. (67108864 + (3329 \div 2)) \div 3329 = 20159
  <2>1. 3329 \div 2 = 1664
    BY SMT
  <2>2. 67110528 \div 3329 = 20159
    BY SMT
  <2> QED BY <2>1, <2>2, SMT
<1>4. Kem!BarrettReduce(a) = Kem!Int16(a - Kem!Int16(t * 3329))
  BY <1>3, SMT DEF Kem!BarrettReduce, Kem!Q
<1> HIDE DEF n, t, r
<1>5. 67108864 * (a - t * 3329) = 3329 * r - 447 * a - 111702704128
  BY <1>1, <1>2, SMT
<1>6. /\ t * 3329 \in Int /\ a - t * 3329 \in Int
      /\ -1664 <= a - t * 3329 /\ a - t * 3329 <= 1664
  BY <1>2, <1>5, SMT
<1>7. PICK y \in Int : Kem!Int16(t * 3329) = t * 3329 - 65536 * y
  BY <1>6, Int16Is, SMT
<1>8. a - Kem!Int16(t * 3329) \in Int
  BY <1>6, <1>7, SMT
<1>9. PICK z \in Int : /\ Kem!BarrettReduce(a) = a - Kem!Int16(t * 3329) - 65536 * z
                      /\ -32768 <= Kem!BarrettReduce(a) /\ Kem!BarrettReduce(a) <= 32767
  <2> DEFINE x == a - Kem!Int16(t * 3329)
  <2>1. x \in Int /\ Kem!BarrettReduce(a) = Kem!Int16(x)
    BY <1>4, <1>8, SMT
  <2> HIDE DEF x
  <2>2. \E z \in Int : /\ Kem!Int16(x) = x - 65536 * z
                       /\ -32768 <= Kem!Int16(x) /\ Kem!Int16(x) <= 32767
    BY <2>1, Int16Is, SMT
  <2>3. \E z \in Int : /\ Kem!BarrettReduce(a) = x - 65536 * z
                       /\ -32768 <= Kem!BarrettReduce(a) /\ Kem!BarrettReduce(a) <= 32767
    BY <2>1, <2>2, SMT
  <2> QED BY <2>3, SMT DEF x
<1>10. y = z
  BY <1>6, <1>7, <1>9, SMT
<1>11. Kem!BarrettReduce(a) = a - 3329 * t
  BY <1>2, <1>7, <1>9, <1>10, SMT
<1>12. -1664 <= a - 3329 * t /\ a - 3329 * t <= 1664
  BY <1>2, <1>6, SMT
<1> USE <1>2
<1> WITNESS t \in Int
<1> QED BY <1>11, <1>12, SMT

\* to_positive() after barrett_reduce() gives the residue.
LEMMA PositiveIs ==
    ASSUME NEW x \in Int, -32768 <= x, x <= 32767
    PROVE  \E j \in Int :
              /\ Kem!ToPositive(Kem!BarrettReduce(x)) = x + 3329 * j
              /\ 0 <= x + 3329 * j /\ x + 3329 * j <= 3328
<1> DEFINE b == Kem!BarrettReduce(x)
           p == Kem!ToPositive(b)
<1>1. PICK z \in Int : b = x - 3329 * z /\ -1664 <= b /\ b <= 1664
  BY BarrettIs, SMT
<1>2. p = IF b < 0 THEN b + 3329 ELSE b
  BY SMT DEF Kem!ToPositive, Kem!Q
<1> HIDE DEF b, p
<1>3. CASE b < 0
  <2>1. p = x + 3329 * (1 - z) /\ 0 <= x + 3329 * (1 - z) /\ x + 3329 * (1 - z) <= 3328 /\ 1 - z \in Int
    BY <1>1, <1>2, <1>3, SMT
  <2> USE <2>1
  <2> WITNESS 1 - z \in Int
  <2> QED BY <2>1, SMT DEF p, b
<1>4. CASE ~(b < 0)
  <2>1. p = x + 3329 * (-z) /\ 0 <= x + 3329 * (-z) /\ x + 3329 * (-z) <= 3328 /\ -z \in Int
    BY <1>1, <1>2, <1>4, SMT
  <2> USE <2>1
  <2> WITNESS -z \in Int
  <2> QED BY <2>1, SMT DEF p, b
<1> QED BY <1>3, <1>4, SMT

\* x is an int16_t, and 2h the values of d bits.
Short(x) == x \in Int /\ -32768 <= x /\ x <= 32767
Values(d, h) ==
    /\ d \in Int /\ h \in Int /\ 1 <= h /\ h <= 1024
    /\ 2 ^ d = 2 * h /\ 2 ^ (d - 1) = h /\ 2 ^ (d + 1) = 4 * h

\* c is the compression of x to 2h values: with p the residue of x, 2 h p + 1664 = 3329 q + u,
\* and q = 2 h e + c.
CompressedBy(x, h, c, j, q, u, e) ==
    /\ 0 <= x + 3329 * j /\ x + 3329 * j <= 3328
    /\ 0 <= u /\ u <= 3328 /\ 2 * h * (x + 3329 * j) + 1664 = 3329 * q + u
    /\ c \in Int /\ 0 <= c /\ c < 2 * h /\ q = 2 * h * e + c

\* compress(): no sum leaves the range of div_q().
LEMMA CompressIs ==
    ASSUME NEW x, NEW d, NEW h, Short(x), Values(d, h)
    PROVE  \E j, q, u, e \in Int : CompressedBy(x, h, Kem!Compress(x, d), j, q, u, e)
<1> USE DEF Short, Values
<1> DEFINE p == Kem!ToPositive(Kem!BarrettReduce(x))
           n == p * (2 * h) + 1664
           q == n \div 3329
           u == n % 3329
           e == q \div (2 * h)
           c == q % (2 * h)
<1>0. PICK j \in Int : p = x + 3329 * j /\ 0 <= x + 3329 * j /\ x + 3329 * j <= 3328
  BY PositiveIs, SMT
<1> HIDE DEF p
<1>1. p \in Int /\ 0 <= p /\ p <= 3328 /\ x = p - 3329 * j
  BY <1>0, SMT
<1>2. n \in Int /\ 0 <= n /\ n <= 8388607
  <2>1. p * (2 * h) >= 0
    BY <1>1, SMT
  <2>2. (3328 - p) * (2 * h) >= 0
    BY <1>1, SMT
  <2>3. (3328 - p) * (2 * h) = 6656 * h - p * (2 * h)
    BY <1>1, SMT
  <2> QED BY <1>1, <2>1, <2>2, <2>3, SMT
<1>3. q \in Int /\ u \in Int /\ 0 <= u /\ u < 3329 /\ n = 3329 * q + u
  <2> HIDE DEF n
  <2> QED BY <1>2, SMT
<1>4. e \in Int /\ c \in Int /\ 0 <= c /\ c < 2 * h /\ q = 2 * h * e + c
  <2> HIDE DEF q
  <2>1. 2 * h \in Int /\ 2 * h > 0
    BY SMT
  <2> QED BY <1>3, <2>1, Dividing, SMT
<1>5. Kem!Compress(x, d) = c
  <2>1. Kem!Compress(x, d) = Kem!DivQ(p * (2 * h) + 3329 \div 2) % (2 * h)
    BY SMT DEF Kem!Compress, Kem!Q, p
  <2>2. 3329 \div 2 = 1664
    BY SMT
  <2>3. Kem!DivQ(n) = q
    <3> HIDE DEF n
    <3> QED BY <1>2, ShiftDivides, SMT
  <2> QED BY <2>1, <2>2, <2>3, SMT
<1>6. 2 * h * (x + 3329 * j) + 1664 = n /\ x + 3329 * j = p
  BY <1>1, SMT
<1> HIDE DEF n, q, u, e, c
<1>7. 2 * h * (x + 3329 * j) + 1664 = 3329 * q + u /\ 0 <= x + 3329 * j /\ x + 3329 * j <= 3328
  BY <1>1, <1>3, <1>6
<1>8. u <= 3328
  BY <1>3, SMT
<1>9. CompressedBy(x, h, Kem!Compress(x, d), j, q, u, e)
  BY <1>3, <1>4, <1>5, <1>7, <1>8, SMT DEF CompressedBy
<1> QED BY <1>3, <1>4, <1>9

\* Compression rounds, is undone by decompression and errs by half a step.
LEMMA CompressionNearest ==
    ASSUME NEW x, NEW d, NEW h, Short(x), Values(d, h)
    PROVE  Kem!Compresses(x, d)
<1> DEFINE c == Kem!Compress(x, d)
           back == (c * 3329 + h) \div (2 * h)
           v == (c * 3329 + h) % (2 * h)
<1>1. PICK j, q, u, e \in Int : CompressedBy(x, h, c, j, q, u, e)
  BY CompressIs
<1> USE DEF Values, Short
<1>2. Kem!Decompress(c, d) = back
  BY SMT DEF Kem!Decompress, Kem!Q
<1> HIDE DEF c
<1>3. c \in Int /\ 0 <= c /\ c < 2 * h /\ 2 * h \in Int /\ 2 * h > 0
  BY <1>1, SMT DEF CompressedBy
<1>4. back \in Int /\ v \in Int /\ 0 <= v /\ v < 2 * h /\ c * 3329 + h = 2 * h * back + v
  <2>1. c * 3329 + h \in Int
    BY <1>3, SMT
  <2> QED BY <1>3, <2>1, Dividing, SMT
<1> HIDE DEF back, v
<1>5. 0 <= back /\ back <= 3328
  <2>1. ~(back < 0)
    <3>1. back < 0 => 2 * h * back + 2 * h <= 2 * h * 0
      BY <1>3, <1>4, Steps, SMT
    <3> QED BY <1>3, <1>4, <3>1, SMT
  <2>2. ~(3328 < back)
    <3>1. 3328 < back => 2 * h * 3328 + 2 * h <= 2 * h * back
      BY <1>3, <1>4, Steps, SMT
    <3> QED BY <1>3, <1>4, <3>1, SMT
  <2> QED BY <1>4, <2>1, <2>2, SMT
<1>6. Kem!Compress(back, d) = c
  <2> DEFINE b == Kem!Compress(back, d)
  <2>1. Short(back)
    BY <1>4, <1>5, SMT
  <2>2. PICK i, p, w, f \in Int : CompressedBy(back, h, b, i, p, w, f)
    BY <2>1, CompressIs
  <2> HIDE DEF b
  <2>3. i = 0
    BY <1>4, <1>5, <2>2, SMT DEF CompressedBy
  <2>4. 3329 * c + (h - v + 1664) = 3329 * p + w
    BY <1>3, <1>4, <2>2, <2>3, SMT DEF CompressedBy
  <2>5. p = c
    BY <1>3, <1>4, <2>2, <2>4, SMT DEF CompressedBy
  <2>6. ~(f < 0) /\ ~(0 < f)
    <3>1. f < 0 => 2 * h * f + 2 * h <= 2 * h * 0
      BY <1>3, Steps, SMT
    <3>2. 0 < f => 2 * h * 0 + 2 * h <= 2 * h * f
      BY <1>3, Steps, SMT
    <3> QED BY <1>3, <2>2, <2>5, <3>1, <3>2, SMT DEF CompressedBy
  <2> QED BY <1>3, <2>2, <2>5, <2>6, SMT DEF CompressedBy, b
<1>7. c = ((2 * x * (2 * h) + 3329) \div 6658) % (2 * h)
  <2> DEFINE k == q - 2 * h * j
  <2>1. 2 * x * (2 * h) + 3329 = 6658 * k + (2 * u + 1)
    BY <1>1, SMT DEF CompressedBy
  <2>2. k \in Int /\ 0 <= 2 * u + 1 /\ 2 * u + 1 < 6658 /\ 2 * x * (2 * h) + 3329 \in Int
    BY <1>1, SMT DEF CompressedBy
  <2>3. k = 2 * h * (e - j) + c
    BY <1>1, SMT DEF CompressedBy
  <2> HIDE DEF k
  <2>4. (2 * x * (2 * h) + 3329) \div 6658 = k
    BY <2>1, <2>2, Quotient, SMT
  <2>5. k % (2 * h) = c
    BY <1>3, <2>2, <2>3, Quotient, SMT
  <2> QED BY <2>4, <2>5
<1> DEFINE f == back - x - 3329 * (j - e)
<1>8. f \in Int /\ 2 * h * f = h - v - u + 1664
  BY <1>1, <1>3, <1>4, SMT DEF CompressedBy
<1> HIDE DEF f
<1> DEFINE bound == (3329 + 2 * h) \div (4 * h)
           r == (3329 + 2 * h) % (4 * h)
<1>9. bound \in Int /\ r \in Int /\ 0 <= r /\ r < 4 * h /\ 3329 + 2 * h = 4 * h * bound + r
  <2>1. 4 * h \in Int /\ 4 * h > 0 /\ 3329 + 2 * h \in Int
    BY SMT
  <2> QED BY <2>1, Dividing, SMT
<1> HIDE DEF bound, r
<1>10. f <= bound /\ -f <= bound
  <2>1. ASSUME NEW g \in Int, 4 * h * g <= 2 * h + 3328 PROVE g <= bound
    <3>1. bound < g => 4 * h * bound + 4 * h <= 4 * h * g
      <4>1. 4 * h \in Int /\ 4 * h > 0
        BY SMT
      <4> QED BY <1>9, <4>1, Steps, SMT
    <3> QED BY <1>9, <2>1, <3>1, SMT
  <2>2. 4 * h * f <= 2 * h + 3328 /\ 4 * h * (-f) <= 2 * h + 3328
    BY <1>1, <1>4, <1>8, SMT DEF CompressedBy
  <2> QED BY <1>8, <2>1, <2>2, SMT
<1>11. -1664 <= f /\ f <= 1664
  <2>1. f > 1664 => 2 * h * 1664 + 2 * h <= 2 * h * f
    BY <1>3, <1>8, Steps, SMT
  <2>2. -1664 > f => 2 * h * f + 2 * h <= 2 * h * (-1664)
    BY <1>3, <1>8, Steps, SMT
  <2> QED BY <1>1, <1>4, <1>8, <2>1, <2>2, SMT DEF CompressedBy
<1> DEFINE m == (back - x) % 3329
<1>12. m = IF f < 0 THEN 3329 + f ELSE f
  <2>1. back - x \in Int /\ back - x = 3329 * (j - e) + f /\ back - x = 3329 * (j - e - 1) + (3329 + f)
    BY <1>4, <1>8, SMT DEF f
  <2>2. CASE f < 0
    BY <1>11, <2>1, <2>2, <1>8, Quotient, SMT
  <2>3. CASE ~(f < 0)
    BY <1>11, <2>1, <2>3, <1>8, Quotient, SMT
  <2> QED BY <2>2, <2>3
<1> HIDE DEF m
<1>13. (IF m > 1664 THEN 3329 - m ELSE m) <= bound + 1
  BY <1>8, <1>9, <1>10, <1>11, <1>12, SMT
<1>14. 3329 \div 2 = 1664
  BY SMT
<1> QED BY <1>2, <1>6, <1>7, <1>13, <1>14, SMT DEF Kem!Compresses, Kem!Centred, Kem!Q, c, m, bound

\* montgomery_reduce(), barrett_reduce(), div_q() and mod_q() give what they promise for
\* every input of the range the code states.
THEOREM ReductionsExact ==
    \A a, n \in Int :
        -(32768 * 3329) < a /\ a < 32768 * 3329 /\ 0 <= n /\ n < 8388608 => Kem!Reduces(a, n)
<1> SUFFICES ASSUME NEW a \in Int, NEW n \in Int, -109084672 < a, a < 109084672, 0 <= n, n <= 8388607
             PROVE  Kem!Reduces(a, n)
  BY SMT
<1> DEFINE m == Kem!MontgomeryReduce(a)
           c == Kem!Int16(a)
           b == Kem!BarrettReduce(c)
<1>1. PICK z \in Int : m \in Int /\ -3328 <= m /\ m <= 3328 /\ 65536 * m = a + 3329 * z
  BY MontgomeryIs, SMT
<1>2. PICK y \in Int : c = a - 65536 * y /\ -32768 <= c /\ c <= 32767
  BY Int16Is, SMT
<1> HIDE DEF m, c
<1>3. PICK x \in Int : b = c - 3329 * x /\ -1664 <= b /\ b <= 1664
  BY <1>2, BarrettIs, SMT
<1> HIDE DEF b
<1>4. m \in -3328 .. 3328 /\ ((m * 2285) - a) % 3329 = 0
  <2>1. m * 2285 - a = 3329 * (z - 19 * m) + 0 /\ m * 2285 - a \in Int /\ z - 19 * m \in Int
    BY <1>1, SMT
  <2>2. (m * 2285 - a) % 3329 = 0
    BY <2>1, Quotient, SMT
  <2> QED BY <1>1, <2>2, SMT
<1>5. (b - c) % 3329 = 0 /\ b \in -1664 .. 1664
  <2>1. b - c = 3329 * (-x) + 0 /\ b - c \in Int /\ -x \in Int
    BY <1>2, <1>3, SMT
  <2>2. (b - c) % 3329 = 0
    BY <2>1, Quotient, SMT
  <2> QED BY <1>2, <1>3, <2>2, SMT
<1>6. Kem!DivQ(n) = n \div 3329 /\ Kem!ModQ(n) = n % 3329
  <2>1. Kem!DivQ(n) = n \div 3329
    BY ShiftDivides, SMT
  <2>2. Kem!ModQ(n) = n - 3329 * (n \div 3329)
    BY <2>1, SMT DEF Kem!ModQ, Kem!Q
  <2> QED BY <2>1, <2>2, SMT
<1>7. Kem!Q = 3329 /\ Kem!Montgomery = 3328 /\ Kem!Centred = 1664
  BY SMT DEF Kem!Q, Kem!Montgomery, Kem!Centred
<1> QED BY <1>4, <1>5, <1>6, <1>7, SMT DEF Kem!Reduces, m, b, c

\* compress() is the rounding of FIPS 203 to 1 to 11 bits for every int16_t, reduced or
\* not; decompress() is its inverse on them and errs by at most half a step.
THEOREM CompressionExact ==
    \A x \in Int, d \in 1 .. 11 : -32768 <= x /\ x <= 32767 => Kem!Compresses(x, d)
<1> SUFFICES ASSUME NEW x \in Int, NEW d \in 1 .. 11, -32768 <= x, x <= 32767
             PROVE  Kem!Compresses(x, d)
  BY SMT
<1>1. Short(x)
  BY SMT DEF Short
<1>2. \E h \in Int : Values(d, h)
  <2>1. CASE d = 1
    <3>1. Values(d, 1)
      BY <2>1, SMT DEF Values
    <3> QED BY <3>1, SMT DEF Values
  <2>2. CASE d = 2
    <3>1. Values(d, 2)
      BY <2>2, SMT DEF Values
    <3> QED BY <3>1, SMT DEF Values
  <2>3. CASE d = 3
    <3>1. Values(d, 4)
      BY <2>3, SMT DEF Values
    <3> QED BY <3>1, SMT DEF Values
  <2>4. CASE d = 4
    <3>1. Values(d, 8)
      BY <2>4, SMT DEF Values
    <3> QED BY <3>1, SMT DEF Values
  <2>5. CASE d = 5
    <3>1. Values(d, 16)
      BY <2>5, SMT DEF Values
    <3> QED BY <3>1, SMT DEF Values
  <2>6. CASE d = 6
    <3>1. Values(d, 32)
      BY <2>6, SMT DEF Values
    <3> QED BY <3>1, SMT DEF Values
  <2>7. CASE d = 7
    <3>1. Values(d, 64)
      BY <2>7, SMT DEF Values
    <3> QED BY <3>1, SMT DEF Values
  <2>8. CASE d = 8
    <3>1. Values(d, 128)
      BY <2>8, SMT DEF Values
    <3> QED BY <3>1, SMT DEF Values
  <2>9. CASE d = 9
    <3>1. Values(d, 256)
      BY <2>9, SMT DEF Values
    <3> QED BY <3>1, SMT DEF Values
  <2>10. CASE d = 10
    <3>1. Values(d, 512)
      BY <2>10, SMT DEF Values
    <3> QED BY <3>1, SMT DEF Values
  <2>11. CASE d = 11
    <3>1. Values(d, 1024)
      BY <2>11, SMT DEF Values
    <3> QED BY <3>1, SMT DEF Values
  <2> QED BY <2>1, <2>2, <2>3, <2>4, <2>5, <2>6, <2>7, <2>8, <2>9, <2>10, <2>11, SMT
<1> QED BY <1>1, <1>2, CompressionNearest

-----------------------------------------------------------------------------
(* ML-DSA.                                                                 *)

Coefficient(a) == a \in Int /\ 0 <= a /\ a < 8380417

\* The parameters of the two roundings: gamma2 and the number of intervals
Intervals(p, g, n) ==
    \/ p.den = 88 /\ g = 95232 /\ n = 44
    \/ p.den = 32 /\ g = 261888 /\ n = 16

\* a rounds to h with the rest l
RoundsTo(g, n, a, h, l) ==
    /\ h \in Int /\ l \in Int /\ 0 <= h /\ h < n /\ l <= g
    /\ \/ a = 2 * g * h + l /\ -g < l
       \/ h = 0 /\ a = l + 8380417 /\ -g <= l /\ l < 0

\* The two roundings have whole intervals: gamma2 divides (q - 1) / 2.
LEMMA Sizes ==
    ASSUME NEW p, NEW g, NEW n, Intervals(p, g, n)
    PROVE  /\ g \in Int /\ n \in Int /\ g > 2 /\ n > 2 /\ 2 * g * n = 8380416
           /\ Dsa!Gamma2(p) = g /\ p.den \div 2 = n /\ Dsa!Q = 8380417
           /\ 8380416 \div (2 * g) = n
<1>1. 8380416 \div 88 = 95232 /\ 8380416 \div 32 = 261888
  BY SMT
<1>2. 8380416 \div 190464 = 44 /\ 8380416 \div 523776 = 16
  BY SMT
<1>3. 88 \div 2 = 44 /\ 32 \div 2 = 16
  BY SMT
<1>4. CASE p.den = 88 /\ g = 95232 /\ n = 44
  BY <1>1, <1>2, <1>3, <1>4, SMT DEF Dsa!Gamma2, Dsa!Q
<1>5. CASE p.den = 32 /\ g = 261888 /\ n = 16
  BY <1>1, <1>2, <1>3, <1>5, SMT DEF Dsa!Gamma2, Dsa!Q
<1> QED BY <1>4, <1>5, SMT DEF Intervals

\* A coefficient rounds to one interval only.
LEMMA RoundsToOne ==
    ASSUME NEW p, NEW g, NEW n, Intervals(p, g, n), NEW a, Coefficient(a),
           NEW h, NEW l, RoundsTo(g, n, a, h, l), NEW i, NEW k, RoundsTo(g, n, a, i, k)
    PROVE  h = i /\ l = k
<1>1. CASE g = 95232 /\ n = 44
  BY <1>1, SMT DEF RoundsTo, Coefficient
<1>2. CASE g = 261888 /\ n = 16
  BY <1>2, SMT DEF RoundsTo, Coefficient
<1> QED BY <1>1, <1>2, SMT DEF Intervals

\* The reference rounds.
LEMMA NearestRounds ==
    ASSUME NEW p, NEW g, NEW n, Intervals(p, g, n), NEW a, Coefficient(a)
    PROVE  \E h, l \in Int : Dsa!Nearest(p, a) = [high |-> h, low |-> l] /\ RoundsTo(g, n, a, h, l)
<1> DEFINE k == (a + g - 1) \div (2 * g)
           r == (a + g - 1) % (2 * g)
<1>1. /\ g \in Int /\ n \in Int /\ g > 2 /\ n > 2 /\ 2 * g * n = 8380416
      /\ Dsa!Gamma2(p) = g /\ Dsa!Q = 8380417 /\ 8380416 \div (2 * g) = n
  BY Sizes
<1>2. k \in Int /\ r \in Int /\ 0 <= r /\ r < 2 * g /\ a + g - 1 = 2 * g * k + r
  <2>1. 2 * g \in Int /\ 2 * g > 0 /\ a + g - 1 \in Int
    BY <1>1, SMT DEF Coefficient
  <2> QED BY <2>1, Dividing, SMT
<1>3. Dsa!Nearest(p, a) = IF k = n THEN [high |-> 0, low |-> a - 8380417]
                        ELSE [high |-> k, low |-> a - k * 2 * g]
  BY <1>1, SMT DEF Dsa!Nearest
<1> HIDE DEF k, r
<1>4. CASE k = n
  <2>1. RoundsTo(g, n, a, 0, a - 8380417) /\ a - 8380417 \in Int
    BY <1>1, <1>2, <1>4, SMT DEF RoundsTo, Coefficient
  <2>2. Dsa!Nearest(p, a) = [high |-> 0, low |-> a - 8380417]
    BY <1>3, <1>4, SMT
  <2> QED BY <2>1, <2>2, SMT
<1>5. CASE k # n
  <2>1. RoundsTo(g, n, a, k, a - k * 2 * g) /\ a - k * 2 * g \in Int
    <3>1. CASE g = 95232 /\ n = 44
      BY <1>2, <1>5, <3>1, SMT DEF RoundsTo, Coefficient
    <3>2. CASE g = 261888 /\ n = 16
      BY <1>2, <1>5, <3>2, SMT DEF RoundsTo, Coefficient
    <3> QED BY <3>1, <3>2, SMT DEF Intervals
  <2>2. Dsa!Nearest(p, a) = [high |-> k, low |-> a - k * 2 * g]
    BY <1>3, <1>5, SMT
  <2> QED BY <1>2, <2>1, <2>2, SMT
<1> QED BY <1>4, <1>5

\* The first shift of decompose() divides by 128 and rounds up.
LEMMA RoundUp ==
    ASSUME NEW a, Coefficient(a)
    PROVE  \E b \in Int : (a + 127) \div (2 ^ 7) = b /\ a <= 128 * b /\ 128 * b <= a + 127
<1> DEFINE b == (a + 127) \div 128
<1>1. b \in Int /\ a <= 128 * b /\ 128 * b <= a + 127
  BY SMT DEF Coefficient
<1>2. (a + 127) \div (2 ^ 7) = b
  <2>1. 2 ^ 7 = 128
    BY SMT
  <2> QED BY <2>1, SMT
<1> QED BY <1>1, <1>2

\* decompose() for ML-DSA-44: the product with 11275 and the shift by 24.
LEMMA High44 ==
    ASSUME NEW a, Coefficient(a), NEW b \in Int, a <= 128 * b, 128 * b <= a + 127
    PROVE  (b * 11275 + 2 ^ 23) \div (2 ^ 24) = (a + 95232 - 1) \div 190464
<1> DEFINE c == (b * 11275 + 8388608) \div 16777216
           r == (b * 11275 + 8388608) % 16777216
           k == (a + 95232 - 1) \div 190464
           v == (a + 95232 - 1) % 190464
<1>1. c \in Int /\ r \in Int /\ 0 <= r /\ r < 16777216 /\ b * 11275 + 8388608 = 16777216 * c + r
  BY SMT
<1>2. k \in Int /\ v \in Int /\ 0 <= v /\ v < 190464 /\ a + 95231 = 190464 * k + v
  BY SMT DEF Coefficient
<1> HIDE DEF c, r, k, v
<1>3. 1488 * k - 743 <= b /\ b <= 1488 * k + 744
  BY <1>2, SMT DEF Coefficient
<1>4. 0 <= k /\ k <= 44
  BY <1>2, SMT DEF Coefficient
<1>5. c = k
  BY <1>1, <1>2, <1>3, <1>4, SMT
<1>6. 2 ^ 23 = 8388608 /\ 2 ^ 24 = 16777216
  BY SMT
<1> QED BY <1>5, <1>6, SMT DEF c, k

\* decompose() for ML-DSA-65 and 87: the product with 1025 and the shift by 22.
LEMMA High16 ==
    ASSUME NEW a, Coefficient(a), NEW b \in Int, a <= 128 * b, 128 * b <= a + 127
    PROVE  (b * 1025 + 2 ^ 21) \div (2 ^ 22) = (a + 261888 - 1) \div 523776
<1> DEFINE c == (b * 1025 + 2097152) \div 4194304
           r == (b * 1025 + 2097152) % 4194304
           k == (a + 261888 - 1) \div 523776
           v == (a + 261888 - 1) % 523776
<1>1. c \in Int /\ r \in Int /\ 0 <= r /\ r < 4194304 /\ b * 1025 + 2097152 = 4194304 * c + r
  BY SMT
<1>2. k \in Int /\ v \in Int /\ 0 <= v /\ v < 523776 /\ a + 261887 = 523776 * k + v
  BY SMT DEF Coefficient
<1> HIDE DEF c, r, k, v
<1>3. 4092 * k - 2045 <= b /\ b <= 4092 * k + 2046
  BY <1>2, SMT DEF Coefficient
<1>4. 0 <= k /\ k <= 16
  BY <1>2, SMT DEF Coefficient
<1>5. c = k
  BY <1>1, <1>2, <1>3, <1>4, SMT
<1>6. 2 ^ 21 = 2097152 /\ 2 ^ 22 = 4194304
  BY SMT
<1> QED BY <1>5, <1>6, SMT DEF c, k

\* decompose() gives the nearest multiple for every coefficient, the last half interval too.
LEMMA DecomposeNearest ==
    ASSUME NEW p, NEW g, NEW n, Intervals(p, g, n), NEW a, Coefficient(a)
    PROVE  Dsa!Decompose(p, a) = Dsa!Nearest(p, a)
<1> DEFINE k == (a + g - 1) \div (2 * g)
           h == IF k = n THEN 0 ELSE k
           o == a - h * 2 * g
<1>1. /\ g \in Int /\ n \in Int /\ g > 2 /\ n > 2 /\ 2 * g * n = 8380416
      /\ Dsa!Gamma2(p) = g /\ Dsa!Q = 8380417 /\ 8380416 \div (2 * g) = n
  BY Sizes
<1>2. PICK b \in Int : (a + 127) \div (2 ^ 7) = b /\ a <= 128 * b /\ 128 * b <= a + 127
  BY RoundUp
<1> DEFINE r == (a + g - 1) % (2 * g)
<1>3. k \in Int /\ r \in Int /\ 0 <= r /\ r < 2 * g /\ a + g - 1 = 2 * g * k + r
  <2>1. 2 * g \in Int /\ 2 * g > 0 /\ a + g - 1 \in Int
    BY <1>1, SMT DEF Coefficient
  <2> QED BY <2>1, Dividing, SMT
<1>4. Dsa!Decompose(p, a) = [high |-> h, low |-> IF o > 4190208 THEN o - 8380417 ELSE o]
  <2>1. 8380416 \div 2 = 4190208
    BY SMT
  <2>2. CASE p.den = 88 /\ g = 95232 /\ n = 44
    <3>1. (b * 11275 + 2 ^ 23) \div (2 ^ 24) = k
      BY <1>2, <2>2, High44, SMT
    <3> HIDE DEF k, r
    <3>2. k <= 44
      BY <1>3, <2>2, SMT DEF Coefficient
    <3> QED BY <1>1, <1>2, <1>3, <2>1, <2>2, <3>1, <3>2, SMT DEF Dsa!Decompose
  <2>3. CASE p.den = 32 /\ g = 261888 /\ n = 16
    <3>1. (b * 1025 + 2 ^ 21) \div (2 ^ 22) = k
      BY <1>2, <2>3, High16, SMT
    <3> HIDE DEF k, r
    <3>2. 0 <= k /\ k <= 16
      BY <1>3, <2>3, SMT DEF Coefficient
    <3>3. k % 16 = h
      BY <1>3, <2>3, <3>2, SMT
    <3> QED BY <1>1, <1>2, <1>3, <2>1, <2>3, <3>1, <3>3, SMT DEF Dsa!Decompose
  <2> QED BY <2>2, <2>3, SMT DEF Intervals
<1>5. Dsa!Nearest(p, a) = IF k = n THEN [high |-> 0, low |-> a - 8380417]
                        ELSE [high |-> k, low |-> a - k * 2 * g]
  BY <1>1, SMT DEF Dsa!Nearest
<1> HIDE DEF k, r
<1>6. CASE k = n
  <2>1. h = 0 /\ o = a /\ a > 4190208
    BY <1>1, <1>3, <1>6, SMT DEF Coefficient
  <2> QED BY <1>4, <1>5, <1>6, <2>1, SMT
<1>7. CASE k # n
  <2>1. h = k /\ o = a - k * 2 * g /\ ~(o > 4190208)
    <3>1. CASE g = 95232 /\ n = 44
      BY <1>3, <1>7, <3>1, SMT DEF Coefficient
    <3>2. CASE g = 261888 /\ n = 16
      BY <1>3, <1>7, <3>2, SMT DEF Coefficient
    <3> QED BY <3>1, <3>2, SMT DEF Intervals
  <2> QED BY <1>4, <1>5, <1>7, <2>1, SMT
<1> QED BY <1>6, <1>7

\* So whatever a coefficient rounds to is what decompose() gives.
LEMMA DecomposeRounds ==
    ASSUME NEW p, NEW g, NEW n, Intervals(p, g, n), NEW a, Coefficient(a),
           NEW h, NEW l, RoundsTo(g, n, a, h, l)
    PROVE  Dsa!Decompose(p, a).high = h /\ Dsa!Decompose(p, a).low = l
<1>1. PICK i, k \in Int : Dsa!Nearest(p, a) = [high |-> i, low |-> k] /\ RoundsTo(g, n, a, i, k)
  BY NearestRounds
<1>2. i = h /\ k = l
  BY <1>1, RoundsToOne
<1> QED BY <1>1, <1>2, DecomposeNearest, SMT

\* u is the coefficient w plus x.
Moved(w, x, u) ==
    /\ w \in Int /\ x \in Int /\ Coefficient(u)
    /\ u = w + x \/ u = w + x + 8380417 \/ u = w + x - 8380417

\* A sum modulo q is the sum, or one q off.
LEMMA Moves ==
    ASSUME NEW w, Coefficient(w), NEW x \in Int, -8380417 < x, x < 8380417
    PROVE  Moved(w, x, (w + x) % 8380417)
<1> DEFINE k == (w + x) \div 8380417
           u == (w + x) % 8380417
<1>1. k \in Int /\ u \in Int /\ 0 <= u /\ u < 8380417 /\ w + x = 8380417 * k + u
  BY SMT DEF Coefficient
<1> HIDE DEF k, u
<1>2. k = -1 \/ k = 0 \/ k = 1
  BY <1>1, SMT DEF Coefficient
<1>3. Moved(w, x, u)
  BY <1>1, <1>2, SMT DEF Coefficient, Moved
<1> QED BY <1>3 DEF u

\* A coefficient that is moved within its interval keeps its high part.
LEMMA KeepsHigh ==
    ASSUME NEW p, NEW g, NEW n, Intervals(p, g, n), NEW w, Coefficient(w),
           NEW h, NEW l, RoundsTo(g, n, w, h, l), NEW x \in Int, NEW u, Moved(w, x, u),
           -g <= l + x, l + x <= g, l + x = -g => h = 0
    PROVE  RoundsTo(g, n, u, h, l + x)
<1>1. CASE g = 95232 /\ n = 44
  BY <1>1, SMT DEF RoundsTo, Coefficient, Moved
<1>2. CASE g = 261888 /\ n = 16
  BY <1>2, SMT DEF RoundsTo, Coefficient, Moved
<1> QED BY <1>1, <1>2, SMT DEF Intervals

\* Moved past the upper end it comes to the next interval, with a rest that is not above 0.
LEMMA StepsUp ==
    ASSUME NEW p, NEW g, NEW n, Intervals(p, g, n), NEW w, Coefficient(w),
           NEW h, NEW l, RoundsTo(g, n, w, h, l), NEW x \in Int, NEW u, Moved(w, x, u),
           g < l + x, l + x < 2 * g
    PROVE  IF h + 1 < n THEN RoundsTo(g, n, u, h + 1, l + x - 2 * g)
           ELSE RoundsTo(g, n, u, 0, l + x - 2 * g - 1)
<1>1. CASE g = 95232 /\ n = 44
  BY <1>1, SMT DEF RoundsTo, Coefficient, Moved
<1>2. CASE g = 261888 /\ n = 16
  BY <1>2, SMT DEF RoundsTo, Coefficient, Moved
<1> QED BY <1>1, <1>2, SMT DEF Intervals

\* Moved past the lower end it comes to the one before, with a rest above 0.
LEMMA StepsDown ==
    ASSUME NEW p, NEW g, NEW n, Intervals(p, g, n), NEW w, Coefficient(w),
           NEW h, NEW l, RoundsTo(g, n, w, h, l), NEW x \in Int, NEW u, Moved(w, x, u),
           l + x <= -g, -2 * g < l + x, l + x = -g => h # 0
    PROVE  IF h = 0 THEN RoundsTo(g, n, u, n - 1, l + x + 2 * g + 1)
           ELSE RoundsTo(g, n, u, h - 1, l + x + 2 * g)
<1>1. CASE g = 95232 /\ n = 44
  BY <1>1, SMT DEF RoundsTo, Coefficient, Moved
<1>2. CASE g = 261888 /\ n = 16
  BY <1>2, SMT DEF RoundsTo, Coefficient, Moved
<1> QED BY <1>1, <1>2, SMT DEF Intervals

\* make_hint() asks for a hint just when the high part changes, and use_hint() changes it back.
LEMMA HintHolds ==
    ASSUME NEW p, NEW g, NEW n, Intervals(p, g, n), NEW w, Coefficient(w),
           NEW h, NEW l, RoundsTo(g, n, w, h, l), NEW x \in Int, NEW u, Moved(w, x, u),
           -2 * g < l + x, l + x < 2 * g
    PROVE  /\ Dsa!UseHint(p, u, Dsa!MakeHint(p, l + x, h)) = h
           /\ (Dsa!MakeHint(p, l + x, h) = 1) <=> (Dsa!Decompose(p, u).high # h)
<1> DEFINE d == Dsa!Decompose(p, u)
           hint == Dsa!MakeHint(p, l + x, h)
<1>1. /\ g \in Int /\ n \in Int /\ g > 2 /\ n > 2 /\ Dsa!Gamma2(p) = g /\ p.den \div 2 = n
  BY Sizes
<1>2. Coefficient(u) /\ h \in Int /\ l \in Int /\ 0 <= h /\ h < n
  BY SMT DEF Moved, RoundsTo
<1>3. /\ hint = 0 \/ hint = 1
      /\ (hint = 1) <=> (l + x > g \/ l + x < -g \/ (l + x = -g /\ h # 0))
  BY <1>1, SMT DEF Dsa!MakeHint
<1>4. Dsa!UseHint(p, u, hint) = IF hint = 0 THEN d.high
                             ELSE IF d.low > 0 THEN (d.high + 1) % n ELSE (d.high - 1) % n
  BY <1>1, SMT DEF Dsa!UseHint
<1> HIDE DEF d, hint
<1>5. ASSUME NEW i, NEW k, RoundsTo(g, n, u, i, k) PROVE d.high = i /\ d.low = k
  BY <1>2, <1>5, DecomposeRounds DEF d
<1>6. h % n = h /\ n % n = 0 /\ (-1) % n = n - 1
  BY <1>1, <1>2, SMT
<1>7. CASE -g <= l + x /\ l + x <= g /\ (l + x = -g => h = 0)
  <2>1. d.high = h
    BY <1>5, <1>7, KeepsHigh
  <2>2. hint = 0
    BY <1>1, <1>2, <1>3, <1>7, SMT
  <2> QED BY <1>4, <2>1, <2>2, SMT DEF d, hint
<1>8. CASE g < l + x
  <2>1. hint = 1
    BY <1>3, <1>8, SMT
  <2>2. CASE h + 1 < n
    <3>1. d.high = h + 1 /\ d.low = l + x - 2 * g
      BY <1>5, <1>8, <2>2, StepsUp
    <3>2. ~(d.low > 0) /\ d.high - 1 = h /\ d.high # h
      BY <1>1, <1>2, <3>1, SMT
    <3> QED BY <1>4, <1>6, <2>1, <3>2, SMT DEF d, hint
  <2>3. CASE ~(h + 1 < n)
    <3>1. d.high = 0 /\ d.low = l + x - 2 * g - 1
      BY <1>5, <1>8, <2>3, StepsUp
    <3>2. ~(d.low > 0) /\ d.high - 1 = -1 /\ h = n - 1 /\ d.high # h
      BY <1>1, <1>2, <2>3, <3>1, SMT
    <3> QED BY <1>4, <1>6, <2>1, <3>2, SMT DEF d, hint
  <2> QED BY <2>2, <2>3
<1>9. CASE l + x <= -g /\ (l + x = -g => h # 0)
  <2>1. hint = 1
    BY <1>1, <1>2, <1>3, <1>9, SMT
  <2>2. CASE h = 0
    <3>1. d.high = n - 1 /\ d.low = l + x + 2 * g + 1
      BY <1>5, <1>9, <2>2, StepsDown
    <3>2. d.low > 0 /\ d.high + 1 = n /\ d.high # h
      BY <1>1, <1>2, <2>2, <3>1, SMT
    <3> QED BY <1>4, <1>6, <2>1, <2>2, <3>2, SMT DEF d, hint
  <2>3. CASE h # 0
    <3>1. d.high = h - 1 /\ d.low = l + x + 2 * g
      BY <1>5, <1>9, <2>3, StepsDown
    <3>2. d.low > 0 /\ d.high + 1 = h /\ d.high # h
      BY <1>1, <1>2, <3>1, SMT
    <3> QED BY <1>4, <1>6, <2>1, <3>2, SMT DEF d, hint
  <2> QED BY <2>2, <2>3
<1> QED BY <1>1, <1>2, <1>7, <1>8, <1>9, SMT

\* power2round(): the parts of a coefficient of a public key fit their fields.
LEMMA PartsFit ==
    ASSUME NEW w, Coefficient(w)
    PROVE  LET r == Dsa!Power2Round(w)
           IN  /\ w = r.high * 2 ^ 13 + r.low
               /\ 0 <= r.high /\ r.high < 2 ^ 10 /\ -(2 ^ 12) < r.low /\ r.low <= 2 ^ 12
<1> DEFINE h == (w + 4095) \div 8192
<1>1. 2 ^ 13 = 8192 /\ 2 ^ 12 = 4096 /\ 2 ^ 10 = 1024
  BY SMT
<1>2. Dsa!Power2Round(w) = [high |-> h, low |-> w - h * 8192]
  <2>1. w + 4096 - 1 = w + 4095
    BY SMT DEF Coefficient
  <2> QED BY <1>1, <2>1, SMT DEF Dsa!Power2Round
<1>3. h \in Int /\ 8192 * h <= w + 4095 /\ w + 4095 < 8192 * h + 8192
  BY SMT DEF Coefficient
<1> HIDE DEF h
<1>4. w = h * 8192 + (w - h * 8192) /\ 0 <= h /\ h < 1024 /\ -4096 < w - h * 8192 /\ w - h * 8192 <= 4096
  BY <1>3, SMT DEF Coefficient
<1> QED BY <1>1, <1>2, <1>4, SMT

\* The rounding, the hint and the parts of RoundingExact together.
LEMMA RoundingHolds ==
    ASSUME NEW p, NEW g, NEW n, Intervals(p, g, n), p.beta \in Int, p.beta >= 0,
           NEW w, Coefficient(w), NEW s \in Int, NEW t \in Int
    PROVE  Dsa!RoundingExact(p, w, s, t)
<1> DEFINE Abs(y) == IF y < 0 THEN -y ELSE y
           d == Dsa!Decompose(p, w)
           u == (w - s + t) % 8380417
           hint == Dsa!MakeHint(p, d.low - s + t, d.high)
<1>1. g \in Int /\ g > 2 /\ Dsa!Gamma2(p) = g /\ Dsa!Q = 8380417
  BY Sizes
<1>2. d = Dsa!Nearest(p, w)
  BY DecomposeNearest
<1>3. PICK h, l \in Int : Dsa!Nearest(p, w) = [high |-> h, low |-> l] /\ RoundsTo(g, n, w, h, l)
  BY NearestRounds
<1>4. d.high = h /\ d.low = l
  BY <1>3, DecomposeRounds
<1>5. ASSUME Abs(d.low - s) < g - p.beta, Abs(t) < g
      PROVE  /\ Dsa!UseHint(p, u, hint) = d.high
             /\ (hint = 1) <=> (Dsa!Decompose(p, u).high # d.high)
  <2> DEFINE x == t - s
  <2>1. /\ x \in Int /\ -2 * g < l + x /\ l + x < 2 * g /\ -8380417 < x /\ x < 8380417
        /\ w - s + t = w + x /\ d.low - s + t = l + x
    <3> HIDE DEF d
    <3>1. CASE g = 95232 /\ n = 44
      BY <1>3, <1>4, <1>5, <3>1, SMT DEF RoundsTo, Coefficient
    <3>2. CASE g = 261888 /\ n = 16
      BY <1>3, <1>4, <1>5, <3>2, SMT DEF RoundsTo, Coefficient
    <3> QED BY <3>1, <3>2, SMT DEF Intervals
  <2> HIDE DEF x
  <2>2. Moved(w, x, u)
    BY <2>1, Moves, SMT
  <2>3. /\ Dsa!UseHint(p, u, Dsa!MakeHint(p, l + x, h)) = h
        /\ (Dsa!MakeHint(p, l + x, h) = 1) <=> (Dsa!Decompose(p, u).high # h)
    <3> HIDE DEF u
    <3> QED BY <1>3, <2>1, <2>2, HintHolds
  <2> QED BY <1>4, <2>1, <2>3, SMT
<1> QED BY <1>1, <1>2, <1>5, PartsFit DEF Dsa!RoundingExact

\* decompose(), power2round(), make_hint() and use_hint() round as FIPS 204 asks, for every
\* coefficient and parameter set, and for every error the signer lets pass.
THEOREM RoundingsExact ==
    \A mode \in {44, 65, 87}, w, s, t \in Int :
        0 <= w /\ w < 8380417 => Dsa!RoundingExact(Dsa!Params[mode], w, s, t)
<1> SUFFICES ASSUME NEW mode \in {44, 65, 87}, NEW w \in Int, NEW s \in Int, NEW t \in Int,
                    0 <= w, w < 8380417
             PROVE  Dsa!RoundingExact(Dsa!Params[mode], w, s, t)
  BY SMT
<1> DEFINE p == Dsa!Params[mode]
<1>1. Coefficient(w)
  BY SMT DEF Coefficient
<1>2. p.beta \in Int /\ p.beta >= 0 /\ \E g, n \in Int : Intervals(p, g, n)
  <2>1. \/ p.beta = 78 /\ p.den = 88
        \/ p.beta = 196 /\ p.den = 32
        \/ p.beta = 120 /\ p.den = 32
    BY SMT DEF Dsa!Params
  <2> HIDE DEF p
  <2>2. Intervals(p, 95232, 44) \/ Intervals(p, 261888, 16)
    BY <2>1, SMT DEF Intervals
  <2> QED BY <2>1, <2>2, SMT
<1> HIDE DEF p
<1> QED BY <1>1, <1>2, RoundingHolds DEF p

\* reduce32() gives a residue within 3/4 of q for every int32_t up to 2^31 - 2^22, where
\* its sum would overflow, and caddq() then the residue.
THEOREM Reduce32Exact ==
    \A a \in Int : -2147483648 <= a /\ a < 2147483648 - 4194304 => Dsa!ReducesExact(a)
<1> SUFFICES ASSUME NEW a \in Int, -2147483648 <= a, a < 2143289344
             PROVE  Dsa!ReducesExact(a)
  BY SMT
<1> DEFINE k == (a + 4194304) \div 8388608
           r == a - k * 8380417
<1>1. 2 ^ 22 = 4194304 /\ 2 ^ 23 = 8388608 /\ Dsa!Q = 8380417
  BY SMT DEF Dsa!Q
<1>2. Dsa!Reduce32(a) = r
  BY <1>1, SMT DEF Dsa!Reduce32
<1>3. k \in Int /\ 8388608 * k <= a + 4194304 /\ a + 4194304 < 8388608 * k + 8388608
  BY SMT
<1> HIDE DEF k
<1>4. r \in Int /\ a = r + 8380417 * k /\ -6283009 <= r /\ r <= 6283008
  BY <1>3, SMT
<1> HIDE DEF r
<1>5. (r - a) % 8380417 = 0
  <2>1. r - a = 8380417 * (-k) + 0 /\ r - a \in Int /\ -k \in Int
    BY <1>3, <1>4, SMT
  <2> QED BY <2>1, Quotient, SMT
<1>6. Dsa!Caddq(r) = a % 8380417
  <2>1. CASE r < 0
    <3>1. a = 8380417 * (k - 1) + (r + 8380417) /\ k - 1 \in Int /\ r + 8380417 \in Int
      BY <1>3, <1>4, SMT
    <3>2. a % 8380417 = r + 8380417
      BY <1>4, <2>1, <3>1, Quotient, SMT
    <3> QED BY <1>1, <2>1, <3>2, SMT DEF Dsa!Caddq
  <2>2. CASE ~(r < 0)
    <3>1. a % 8380417 = r
      BY <1>3, <1>4, <2>2, Quotient, SMT
    <3> QED BY <1>1, <2>2, <3>1, SMT DEF Dsa!Caddq
  <2> QED BY <2>1, <2>2
<1> QED BY <1>1, <1>2, <1>4, <1>5, <1>6, SMT DEF Dsa!ReducesExact

\* A cast to int32_t takes off a multiple of 2^32.
LEMMA Int32Is ==
    ASSUME NEW x \in Int
    PROVE  \E y \in Int : /\ Dsa!Int32(x) = x - 4294967296 * y
                          /\ -2147483648 <= Dsa!Int32(x) /\ Dsa!Int32(x) <= 2147483647
<1> DEFINE y == (x + 2147483648) \div 4294967296
           l == (x + 2147483648) % 4294967296
<1>1. y \in Int /\ l \in Int /\ 0 <= l /\ l < 4294967296 /\ x + 2147483648 = 4294967296 * y + l
  BY SMT
<1>2. 2 ^ 31 = 2147483648 /\ 2 ^ 32 = 4294967296
  BY SMT
<1>3. Dsa!Int32(x) = l - 2147483648
  BY <1>2, SMT DEF Dsa!Int32
<1> HIDE DEF y, l
<1>4. /\ l - 2147483648 = x - 4294967296 * y
      /\ -2147483648 <= l - 2147483648 /\ l - 2147483648 <= 2147483647
  BY <1>1, SMT
<1> USE <1>1
<1> WITNESS y \in Int
<1> QED BY <1>3, <1>4, SMT

\* A cast leaves alone what fits.
LEMMA Int32Same ==
    ASSUME NEW x \in Int, -2147483648 <= x, x <= 2147483647
    PROVE  Dsa!Int32(x) = x
<1> PICK y \in Int : /\ Dsa!Int32(x) = x - 4294967296 * y
                     /\ -2147483648 <= Dsa!Int32(x) /\ Dsa!Int32(x) <= 2147483647
  BY Int32Is, SMT
<1> QED BY SMT

\* montgomery_reduce() ends within q for every product of size below 2^31 q, as the bounds on
\* the growth of a transform assume (Product in MlDsaWidths).
THEOREM Montgomery64Exact ==
    \A a \in Int : -(2147483648 * 8380417) <= a /\ a < 2147483648 * 8380417 => Dsa!MontgomeryExact(a)
<1> SUFFICES ASSUME NEW a \in Int, -17996808470921216 <= a, a < 17996808470921216
             PROVE  Dsa!MontgomeryExact(a)
  BY SMT
<1> DEFINE l == Dsa!Int32(a)
           t == Dsa!Int32(l * 58728449)
<1>1. PICK x \in Int : l = a - 4294967296 * x /\ -2147483648 <= l /\ l <= 2147483647
  BY Int32Is, SMT
<1> HIDE DEF l
<1>2. l \in Int /\ l * 58728449 \in Int
  BY <1>1, SMT
<1>3. PICK y \in Int : t = l * 58728449 - 4294967296 * y /\ -2147483648 <= t /\ t <= 2147483647
  BY <1>2, Int32Is, SMT
<1> HIDE DEF t
<1> DEFINE w == x - 114592 * l + 8380417 * y
<1>4. w \in Int /\ t \in Int /\ a - t * 8380417 = 4294967296 * w + 0
  BY <1>1, <1>2, <1>3, SMT
<1> HIDE DEF w
<1>5. -8380417 < w /\ w < 8380417
  BY <1>3, <1>4, SMT
<1>6. (a - t * 8380417) \div 4294967296 = w
  <2>1. a - t * 8380417 \in Int
    BY <1>4, SMT
  <2> QED BY <1>4, <2>1, Quotient, SMT
<1>7. Dsa!Int32(w) = w
  BY <1>4, <1>5, Int32Same, SMT
<1>8. 2 ^ 32 = 4294967296 /\ Dsa!Q = 8380417
  BY SMT DEF Dsa!Q
<1>9. Dsa!MontgomeryReduce(a) = w
  BY <1>6, <1>7, <1>8, SMT DEF Dsa!MontgomeryReduce, t, l
<1>10. (4294967296 * w - a) % 8380417 = 0
  <2>1. 4294967296 * w - a = 8380417 * (-t) + 0 /\ 4294967296 * w - a \in Int /\ -t \in Int
    BY <1>4, SMT
  <2> QED BY <2>1, Quotient, SMT
<1> QED BY <1>5, <1>8, <1>9, <1>10, SMT DEF Dsa!MontgomeryExact
=============================================================================
