-------------------------------- MODULE Drbg --------------------------------
(***************************************************************************)
(* AES-256 and the CTR_DRBG of SP 800-90A (src/rmbl_drbg_core.h), byte for *)
(* byte.                                                                   *)
(***************************************************************************)
EXTENDS Tables

Zeros(n)  == Each(n, LAMBDA i : 0)
X(a, b)   == XorBytes[a + 1][b + 1]
XorOver(seq) == Fold(X, 0, seq)
Xored(a, b) == Each(Len(a), LAMBDA i : X(a[i], b[i]))
Padded(s) == s \o Zeros(48 - Len(s))

-----------------------------------------------------------------------------
(* The field and the S-box.                                                *)

Doubled(a) == X((2 * a) % 256, IF a > 127 THEN 27 ELSE 0)

\* gmul(): a is doubled at each bit of b
Gmul(a, b) ==
    For(LAMBDA acc, i : [p |-> IF (b \div 2 ^ i) % 2 = 1 THEN X(acc.p, acc.a) ELSE acc.p, a |-> Doubled(acc.a)],
        [p |-> 0, a |-> a], 0, 7).p

Rotl8(x, k) == ((x * 2 ^ k) % 256) + x \div 2 ^ (8 - k)

\* The chain of sbox() to x^254
Inverse254(x) ==
    LET x2   == Gmul(x, x)
        x3   == Gmul(x2, x)
        x6   == Gmul(x3, x3)
        x12  == Gmul(x6, x6)
        x15  == Gmul(x12, x3)
        x30  == Gmul(x15, x15)
        x60  == Gmul(x30, x30)
        x120 == Gmul(x60, x60)
        x126 == Gmul(x120, x6)
        x252 == Gmul(x126, x126)
    IN  Gmul(x252, x2)

Sboxes == Each(256, LAMBDA x :
    LET inv == Inverse254(x - 1) IN XorOver(<<99, inv>> \o Each(4, LAMBDA k : Rotl8(inv, k))))
Sbox(x) == Sboxes[x + 1]

-----------------------------------------------------------------------------
(* AES-256.                                                                *)

\* Aes256::init(): 60 words of four bytes
RoundKeys(key) ==
    LET Word(k)    == SubSeq(key, 4 * k - 3, 4 * k)
        Subbed(t)  == Each(4, LAMBDA j : Sbox(t[j]))
        Rotated(t) == Subbed(<<t[2], t[3], t[4], t[1]>>)
        Next(acc, i) ==
            LET t    == acc.w[i]
                used == IF i % 8 = 0 THEN LET r == Rotated(t) IN [r EXCEPT ![1] = X(@, acc.rcon)]
                        ELSE IF i % 8 = 4 THEN Subbed(t) ELSE t
            IN  [w |-> Append(acc.w, Xored(acc.w[i - 7], used)),
                 rcon |-> IF i % 8 = 0 THEN Gmul(acc.rcon, 2) ELSE acc.rcon]
        words == For(Next, [w |-> Each(8, Word), rcon |-> 1], 8, 59).w
    IN  Each(15, LAMBDA r : words[4 * r - 3] \o words[4 * r - 2] \o words[4 * r - 1] \o words[4 * r])

\* encrypt_portable(): byte 4 * c + j is row j of column c
Encrypt(keys, in) ==
    LET Shifted(s) == Each(16, LAMBDA i :
            LET c == (i - 1) \div 4
                j == (i - 1) % 4
            IN  Sbox(s[4 * ((c + j) % 4) + j + 1]))
        Mixed(t) == Each(16, LAMBDA i :
            LET c    == 4 * ((i - 1) \div 4)
                j    == (i - 1) % 4
                all  == XorOver(SubSeq(t, c + 1, c + 4))
                pair == X(t[c + j + 1], t[c + ((j + 1) % 4) + 1])
            IN  X(X(t[i], all), Doubled(pair)))
        Round(s, r) ==
            LET t == Shifted(s) IN Xored(IF r < 14 THEN Mixed(t) ELSE t, keys[r + 1])
    IN  For(Round, Xored(in, keys[1]), 1, 14)

-----------------------------------------------------------------------------
(* The generator: its state is a key and a counter block.                  *)

\* increment(): the carry runs through all 16 bytes
Increment(v) ==
    For(LAMBDA acc, k :
            LET s == acc.v[17 - k] + acc.carry
            IN  [v |-> [acc.v EXCEPT ![17 - k] = s % 256], carry |-> s \div 256],
        [v |-> v, carry |-> 1], 1, 16).v

\* Blocks of output from v on, and the counter after them
Stream(key, v, blocks) ==
    LET keys == RoundKeys(key)
        Next(acc, i) == LET w == Increment(acc.v) IN [v |-> w, out |-> acc.out \o Encrypt(keys, w)]
    IN  For(Next, [v |-> v, out |-> <<>>], 1, blocks)

\* update()
Update(d, provided) ==
    LET temp == Xored(Stream(d.key, d.v, 3).out, provided)
    IN  [key |-> SubSeq(temp, 1, 32), v |-> SubSeq(temp, 33, 48)]

\* instantiate(), reseed()
Instantiate(entropy, pers) == Update([key |-> Zeros(32), v |-> Zeros(16)], Xored(entropy, Padded(pers)))
Reseed(d, entropy, add)    == Update(d, Xored(entropy, Padded(add)))

\* generate(): additional input, if there is any, goes in before the output as well
Generate(d, n, add) ==
    LET a      == Padded(add)
        before == IF add # <<>> THEN Update(d, a) ELSE d
        s      == Stream(before.key, before.v, (n + 15) \div 16)
    IN  [out |-> SubSeq(s.out, 1, n), d |-> Update([key |-> before.key, v |-> s.v], a)]

-----------------------------------------------------------------------------
(* Properties.                                                             *)

\* The S-box permutes the bytes, its chain inverts, and the cipher gives the example of
\* FIPS 197 (src/tests/testthat/test-drbg.R).
CipherExact ==
    /\ {Sbox(x) : x \in 0 .. 255} = 0 .. 255
    /\ \A x \in 1 .. 255 : Gmul(x, Inverse254(x)) = 1
    /\ Encrypt(RoundKeys(Each(32, LAMBDA i : i - 1)), Each(16, LAMBDA i : 17 * (i - 1)))
           = <<142, 162, 183, 202, 81, 103, 69, 191, 234, 252, 73, 144, 75, 73, 96, 137>>

\* Seeded with 0 .. 47, two requests give the bytes of NIST's generator (the same tests).
GeneratorExact ==
    LET first  == Generate(Instantiate(Each(48, LAMBDA i : i - 1), <<>>), 64, <<>>)
        second == Generate(first.d, 32, <<>>)
    IN  /\ first.out = <<6, 21, 80, 35, 77, 21, 140, 94, 201, 85, 149, 254, 4, 239, 122, 37,
                        118, 127, 46, 36, 204, 43, 196, 121, 208, 157, 134, 220, 154, 188, 253, 231,
                        5, 106, 140, 38, 111, 158, 249, 126, 208, 133, 65, 219, 210, 225, 255, 161,
                        152, 16, 245, 57, 45, 7, 98, 118, 239, 65, 39, 124, 58, 182, 233, 74>>
        /\ second.out = <<4, 86, 42, 211, 94, 142, 202, 250, 175, 218, 22, 152, 28, 218, 161, 71,
                         96, 107, 238, 166, 40, 1, 52, 42, 241, 60, 139, 85, 53, 247, 47, 148>>

\* The counter is a number of 16 bytes; a shorter output is the head of a longer one;
\* trailing zeros of additional input or personalization change nothing, but a request
\* with additional input gives other bytes than one without.
RequestsExact(v, n, add) ==
    LET d == [key |-> Each(32, LAMBDA i : i), v |-> v]
        top == CHOOSE i \in 0 .. 16 : (i = 0 \/ v[i] # 255) /\ \A j \in i + 1 .. 16 : v[j] = 255
    IN  /\ Increment(v) = Each(16, LAMBDA i : IF i < top THEN v[i] ELSE IF i = top THEN v[i] + 1 ELSE 0)
        /\ Generate(d, n, add).out = SubSeq(Generate(d, 33, add).out, 1, n)
        /\ add # <<>> => /\ Generate(d, n, Append(add, 0)) = Generate(d, n, add)
                         /\ Generate(d, 16, add).out # Generate(d, 16, <<>>).out
        /\ Reseed(d, Each(48, LAMBDA i : i), Append(add, 0)) = Reseed(d, Each(48, LAMBDA i : i), add)
=============================================================================
