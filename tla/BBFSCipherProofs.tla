-------------------------- MODULE BBFSCipherProofs --------------------------
(***************************************************************************)
(* What bb_write stores bb_read gives back, for any keys in ee516.conf and *)
(* any edits of it.  The provers know 2 ^ n for literal n only, so a byte  *)
(* has its eight bits here (CHAR_BIT = 8) and a rotation is one of eight.  *)
(***************************************************************************)
EXTENDS BBFSCipher, TLAPS

\* 2^m and 2^(8-m).
Powers(m, a, b) ==
    \/ m = 0 /\ a = 1 /\ b = 256
    \/ m = 1 /\ a = 2 /\ b = 128
    \/ m = 2 /\ a = 4 /\ b = 64
    \/ m = 3 /\ a = 8 /\ b = 32
    \/ m = 4 /\ a = 16 /\ b = 16
    \/ m = 5 /\ a = 32 /\ b = 8
    \/ m = 6 /\ a = 64 /\ b = 4
    \/ m = 7 /\ a = 128 /\ b = 2

(* A byte has 256 values.                                                  *)
LEMMA ByteWide ==
    ASSUME CHAR_BIT = 8
    PROVE  UCHAR = 256
<1>1. 2 ^ 8 = 256
  OBVIOUS
<1> QED
  BY <1>1, Zenon DEF UCHAR

(* The powers of two of a byte.                                            *)
LEMMA BytePowers ==
    ASSUME NEW m \in 0 .. 7
    PROVE  Powers(m, 2 ^ m, 2 ^ (8 - m))
<1>1. CASE m = 0
  <2>1. 2 ^ 0 = 1 /\ 2 ^ 8 = 256 /\ 8 - 0 = 8
    OBVIOUS
  <2>2. 2 ^ m = 1 /\ 2 ^ (8 - m) = 256
    BY <1>1, <2>1, Zenon
  <2> QED
    BY <1>1, <2>2 DEF Powers
<1>2. CASE m = 1
  <2>1. 2 ^ 1 = 2 /\ 2 ^ 7 = 128 /\ 8 - 1 = 7
    OBVIOUS
  <2>2. 2 ^ m = 2 /\ 2 ^ (8 - m) = 128
    BY <1>2, <2>1, Zenon
  <2> QED
    BY <1>2, <2>2 DEF Powers
<1>3. CASE m = 2
  <2>1. 2 ^ 2 = 4 /\ 2 ^ 6 = 64 /\ 8 - 2 = 6
    OBVIOUS
  <2>2. 2 ^ m = 4 /\ 2 ^ (8 - m) = 64
    BY <1>3, <2>1, Zenon
  <2> QED
    BY <1>3, <2>2 DEF Powers
<1>4. CASE m = 3
  <2>1. 2 ^ 3 = 8 /\ 2 ^ 5 = 32 /\ 8 - 3 = 5
    OBVIOUS
  <2>2. 2 ^ m = 8 /\ 2 ^ (8 - m) = 32
    BY <1>4, <2>1, Zenon
  <2> QED
    BY <1>4, <2>2 DEF Powers
<1>5. CASE m = 4
  <2>1. 2 ^ 4 = 16 /\ 2 ^ 4 = 16 /\ 8 - 4 = 4
    OBVIOUS
  <2>2. 2 ^ m = 16 /\ 2 ^ (8 - m) = 16
    BY <1>5, <2>1, Zenon
  <2> QED
    BY <1>5, <2>2 DEF Powers
<1>6. CASE m = 5
  <2>1. 2 ^ 5 = 32 /\ 2 ^ 3 = 8 /\ 8 - 5 = 3
    OBVIOUS
  <2>2. 2 ^ m = 32 /\ 2 ^ (8 - m) = 8
    BY <1>6, <2>1, Zenon
  <2> QED
    BY <1>6, <2>2 DEF Powers
<1>7. CASE m = 6
  <2>1. 2 ^ 6 = 64 /\ 2 ^ 2 = 4 /\ 8 - 6 = 2
    OBVIOUS
  <2>2. 2 ^ m = 64 /\ 2 ^ (8 - m) = 4
    BY <1>7, <2>1, Zenon
  <2> QED
    BY <1>7, <2>2 DEF Powers
<1>8. CASE m = 7
  <2>1. 2 ^ 7 = 128 /\ 2 ^ 1 = 2 /\ 8 - 7 = 1
    OBVIOUS
  <2>2. 2 ^ m = 128 /\ 2 ^ (8 - m) = 2
    BY <1>8, <2>1, Zenon
  <2> QED
    BY <1>8, <2>2 DEF Powers
<1> QED
  BY <1>1, <1>2, <1>3, <1>4, <1>5, <1>6, <1>7, <1>8

\* A byte turned right by the bits of a, or left by those of b.
Turned(x, a, b) == (x \div a) + ((x * b) % 256)

\* The byte x is the q that stays with the r that falls off the end.
Parts(x, a, b, q, r) == q \in 0 .. b - 1 /\ r \in 0 .. a - 1 /\ x = (a * q) + r

(* A byte has two parts.                                                   *)
LEMMA TwoParts ==
    ASSUME NEW m, NEW a, NEW b, Powers(m, a, b), NEW x \in 0 .. 255
    PROVE  \E q, r : Parts(x, a, b, q, r)
<1>1. CASE a = 1 /\ b = 256
  <2>1. x \div 1 \in 0 .. 255 /\ x % 1 \in 0 .. 0 /\ x = (1 * (x \div 1)) + (x % 1)
    OBVIOUS
  <2>2. Parts(x, a, b, x \div 1, x % 1)
    BY <1>1, <2>1 DEF Parts
  <2> QED
    BY <2>2, Zenon
<1>2. CASE a = 2 /\ b = 128
  <2>1. x \div 2 \in 0 .. 127 /\ x % 2 \in 0 .. 1 /\ x = (2 * (x \div 2)) + (x % 2)
    OBVIOUS
  <2>2. Parts(x, a, b, x \div 2, x % 2)
    BY <1>2, <2>1 DEF Parts
  <2> QED
    BY <2>2, Zenon
<1>3. CASE a = 4 /\ b = 64
  <2>1. x \div 4 \in 0 .. 63 /\ x % 4 \in 0 .. 3 /\ x = (4 * (x \div 4)) + (x % 4)
    OBVIOUS
  <2>2. Parts(x, a, b, x \div 4, x % 4)
    BY <1>3, <2>1 DEF Parts
  <2> QED
    BY <2>2, Zenon
<1>4. CASE a = 8 /\ b = 32
  <2>1. x \div 8 \in 0 .. 31 /\ x % 8 \in 0 .. 7 /\ x = (8 * (x \div 8)) + (x % 8)
    OBVIOUS
  <2>2. Parts(x, a, b, x \div 8, x % 8)
    BY <1>4, <2>1 DEF Parts
  <2> QED
    BY <2>2, Zenon
<1>5. CASE a = 16 /\ b = 16
  <2>1. x \div 16 \in 0 .. 15 /\ x % 16 \in 0 .. 15 /\ x = (16 * (x \div 16)) + (x % 16)
    OBVIOUS
  <2>2. Parts(x, a, b, x \div 16, x % 16)
    BY <1>5, <2>1 DEF Parts
  <2> QED
    BY <2>2, Zenon
<1>6. CASE a = 32 /\ b = 8
  <2>1. x \div 32 \in 0 .. 7 /\ x % 32 \in 0 .. 31 /\ x = (32 * (x \div 32)) + (x % 32)
    OBVIOUS
  <2>2. Parts(x, a, b, x \div 32, x % 32)
    BY <1>6, <2>1 DEF Parts
  <2> QED
    BY <2>2, Zenon
<1>7. CASE a = 64 /\ b = 4
  <2>1. x \div 64 \in 0 .. 3 /\ x % 64 \in 0 .. 63 /\ x = (64 * (x \div 64)) + (x % 64)
    OBVIOUS
  <2>2. Parts(x, a, b, x \div 64, x % 64)
    BY <1>7, <2>1 DEF Parts
  <2> QED
    BY <2>2, Zenon
<1>8. CASE a = 128 /\ b = 2
  <2>1. x \div 128 \in 0 .. 1 /\ x % 128 \in 0 .. 127 /\ x = (128 * (x \div 128)) + (x % 128)
    OBVIOUS
  <2>2. Parts(x, a, b, x \div 128, x % 128)
    BY <1>8, <2>1 DEF Parts
  <2> QED
    BY <2>2, Zenon
<1> QED
  BY <1>1, <1>2, <1>3, <1>4, <1>5, <1>6, <1>7, <1>8 DEF Powers

(* They change places.                                                     *)
LEMMA PartsTurn ==
    ASSUME NEW m, NEW a, NEW b, Powers(m, a, b), NEW q \in 0 .. b - 1, NEW r \in 0 .. a - 1
    PROVE  /\ Turned((a * q) + r, a, b) = q + (b * r)
           /\ Turned(q + (b * r), b, a) = (a * q) + r
           /\ q + (b * r) \in 0 .. 255
<1>1. CASE a = 1 /\ b = 256
  BY <1>1 DEF Turned
<1>2. CASE a = 2 /\ b = 128
  BY <1>2 DEF Turned
<1>3. CASE a = 4 /\ b = 64
  BY <1>3 DEF Turned
<1>4. CASE a = 8 /\ b = 32
  BY <1>4 DEF Turned
<1>5. CASE a = 16 /\ b = 16
  BY <1>5 DEF Turned
<1>6. CASE a = 32 /\ b = 8
  BY <1>6 DEF Turned
<1>7. CASE a = 64 /\ b = 4
  BY <1>7 DEF Turned
<1>8. CASE a = 128 /\ b = 2
  BY <1>8 DEF Turned
<1> QED
  BY <1>1, <1>2, <1>3, <1>4, <1>5, <1>6, <1>7, <1>8 DEF Powers

Bits == [0 .. 7 -> {0, 1}]

\* The byte with these bits.
Byte(t) == t[0] + (2 * t[1]) + (4 * t[2]) + (8 * t[3])
           + (16 * t[4]) + (32 * t[5]) + (64 * t[6]) + (128 * t[7])

(* Every byte has its bits.                                                *)
LEMMA ByteHasBits ==
    ASSUME NEW x \in 0 .. 255
    PROVE  \E t \in Bits : x = Byte(t)
<1>1. ASSUME NEW n \in Nat, NEW y \in 0 .. 2 * n + 1
      PROVE  \E z \in 0 .. n, c \in {0, 1} : y = (2 * z) + c
  <2>1. y \div 2 \in 0 .. n /\ y % 2 \in {0, 1} /\ y = (2 * (y \div 2)) + (y % 2)
    BY <1>1
  <2> QED
    BY <2>1
<1>2. PICK x1 \in 0 .. 127, c0 \in {0, 1} : x = (2 * x1) + c0
  BY <1>1
<1>3. PICK x2 \in 0 .. 63, c1 \in {0, 1} : x1 = (2 * x2) + c1
  BY <1>1
<1>4. PICK x3 \in 0 .. 31, c2 \in {0, 1} : x2 = (2 * x3) + c2
  BY <1>1
<1>5. PICK x4 \in 0 .. 15, c3 \in {0, 1} : x3 = (2 * x4) + c3
  BY <1>1
<1>6. PICK x5 \in 0 .. 7, c4 \in {0, 1} : x4 = (2 * x5) + c4
  BY <1>1
<1>7. PICK x6 \in 0 .. 3, c5 \in {0, 1} : x5 = (2 * x6) + c5
  BY <1>1
<1>8. PICK x7 \in 0 .. 1, c6 \in {0, 1} : x6 = (2 * x7) + c6
  BY <1>1
<1> DEFINE t == [n \in 0 .. 7 |-> IF n = 0 THEN c0 ELSE IF n = 1 THEN c1 ELSE IF n = 2 THEN c2
                   ELSE IF n = 3 THEN c3 ELSE IF n = 4 THEN c4 ELSE IF n = 5 THEN c5
                   ELSE IF n = 6 THEN c6 ELSE x7]
<1>9. t \in Bits /\ t[0] = c0 /\ t[1] = c1 /\ t[2] = c2 /\ t[3] = c3 /\ t[4] = c4 /\ t[5] = c5
      /\ t[6] = c6 /\ t[7] = x7
  BY DEF Bits
<1> HIDE DEF t
<1>10. x = Byte(t)
  BY <1>2, <1>3, <1>4, <1>5, <1>6, <1>7, <1>8, <1>9 DEF Byte
<1> QED
  BY <1>9, <1>10

(* The bits of a byte are its bits.                                        *)
LEMMA BitsOfByte ==
    ASSUME NEW t \in Bits, NEW n \in 0 .. 7
    PROVE  Bit(Byte(t), n) = t[n]
<1>1. t[0] \in {0, 1} /\ t[1] \in {0, 1} /\ t[2] \in {0, 1} /\ t[3] \in {0, 1} /\ t[4] \in {0, 1}
      /\ t[5] \in {0, 1} /\ t[6] \in {0, 1} /\ t[7] \in {0, 1}
  BY DEF Bits
<1>2. PICK c0 \in {0, 1}, c1 \in {0, 1}, c2 \in {0, 1}, c3 \in {0, 1}, c4 \in {0, 1}, c5 \in {0, 1},
           c6 \in {0, 1}, c7 \in {0, 1} :
        /\ c0 = t[0] /\ c1 = t[1] /\ c2 = t[2] /\ c3 = t[3]
        /\ c4 = t[4] /\ c5 = t[5] /\ c6 = t[6] /\ c7 = t[7]
  BY <1>1
<1>3. PICK x \in Int : x = c0 + (2 * c1) + (4 * c2) + (8 * c3) + (16 * c4)
                              + (32 * c5) + (64 * c6) + (128 * c7)
  OBVIOUS
<1>4. Powers(n, 2 ^ n, 2 ^ (8 - n))
  BY BytePowers
<1>5. Bit(Byte(t), n) = (x \div 2 ^ n) % 2
  <2>1. x = Byte(t)
    BY <1>2, <1>3, Zenon DEF Byte
  <2> QED
    BY <2>1 DEF Bit
<1>6. CASE n = 0
  <2>1. PICK h \in Nat : h = c1 + (2 * c2) + (4 * c3) + (8 * c4) + (16 * c5) + (32 * c6) + (64 * c7)
    OBVIOUS
  <2>2. PICK l \in 0 .. 0 : l = 0
    OBVIOUS
  <2>3. x = (1 * ((2 * h) + c0)) + l
    BY <1>3, <2>1, <2>2
  <2>4. x \div 1 = (2 * h) + c0
    BY <2>3
  <2>5. (x \div 1) % 2 = c0
    BY <2>4
  <2> QED
    BY <1>2, <1>4, <1>5, <1>6, <2>5 DEF Powers
<1>7. CASE n = 1
  <2>1. PICK h \in Nat : h = c2 + (2 * c3) + (4 * c4) + (8 * c5) + (16 * c6) + (32 * c7)
    OBVIOUS
  <2>2. PICK l \in 0 .. 1 : l = c0
    OBVIOUS
  <2>3. x = (2 * ((2 * h) + c1)) + l
    BY <1>3, <2>1, <2>2
  <2>4. x \div 2 = (2 * h) + c1
    BY <2>3
  <2>5. (x \div 2) % 2 = c1
    BY <2>4
  <2> QED
    BY <1>2, <1>4, <1>5, <1>7, <2>5 DEF Powers
<1>8. CASE n = 2
  <2>1. PICK h \in Nat : h = c3 + (2 * c4) + (4 * c5) + (8 * c6) + (16 * c7)
    OBVIOUS
  <2>2. PICK l \in 0 .. 3 : l = c0 + (2 * c1)
    OBVIOUS
  <2>3. x = (4 * ((2 * h) + c2)) + l
    BY <1>3, <2>1, <2>2
  <2>4. x \div 4 = (2 * h) + c2
    BY <2>3
  <2>5. (x \div 4) % 2 = c2
    BY <2>4
  <2> QED
    BY <1>2, <1>4, <1>5, <1>8, <2>5 DEF Powers
<1>9. CASE n = 3
  <2>1. PICK h \in Nat : h = c4 + (2 * c5) + (4 * c6) + (8 * c7)
    OBVIOUS
  <2>2. PICK l \in 0 .. 7 : l = c0 + (2 * c1) + (4 * c2)
    OBVIOUS
  <2>3. x = (8 * ((2 * h) + c3)) + l
    BY <1>3, <2>1, <2>2
  <2>4. x \div 8 = (2 * h) + c3
    BY <2>3
  <2>5. (x \div 8) % 2 = c3
    BY <2>4
  <2> QED
    BY <1>2, <1>4, <1>5, <1>9, <2>5 DEF Powers
<1>10. CASE n = 4
  <2>1. PICK h \in Nat : h = c5 + (2 * c6) + (4 * c7)
    OBVIOUS
  <2>2. PICK l \in 0 .. 15 : l = c0 + (2 * c1) + (4 * c2) + (8 * c3)
    OBVIOUS
  <2>3. x = (16 * ((2 * h) + c4)) + l
    BY <1>3, <2>1, <2>2
  <2>4. x \div 16 = (2 * h) + c4
    BY <2>3
  <2>5. (x \div 16) % 2 = c4
    BY <2>4
  <2> QED
    BY <1>2, <1>4, <1>5, <1>10, <2>5 DEF Powers
<1>11. CASE n = 5
  <2>1. PICK h \in Nat : h = c6 + (2 * c7)
    OBVIOUS
  <2>2. PICK l \in 0 .. 31 : l = c0 + (2 * c1) + (4 * c2) + (8 * c3) + (16 * c4)
    OBVIOUS
  <2>3. x = (32 * ((2 * h) + c5)) + l
    BY <1>3, <2>1, <2>2
  <2>4. x \div 32 = (2 * h) + c5
    BY <2>3
  <2>5. (x \div 32) % 2 = c5
    BY <2>4
  <2> QED
    BY <1>2, <1>4, <1>5, <1>11, <2>5 DEF Powers
<1>12. CASE n = 6
  <2>1. PICK h \in Nat : h = c7
    OBVIOUS
  <2>2. PICK l \in 0 .. 63 : l = c0 + (2 * c1) + (4 * c2) + (8 * c3) + (16 * c4) + (32 * c5)
    OBVIOUS
  <2>3. x = (64 * ((2 * h) + c6)) + l
    BY <1>3, <2>1, <2>2
  <2>4. x \div 64 = (2 * h) + c6
    BY <2>3
  <2>5. (x \div 64) % 2 = c6
    BY <2>4
  <2> QED
    BY <1>2, <1>4, <1>5, <1>12, <2>5 DEF Powers
<1>13. CASE n = 7
  <2>1. PICK h \in Nat : h = 0
    OBVIOUS
  <2>2. PICK l \in 0 .. 127 : l = c0 + (2 * c1) + (4 * c2) + (8 * c3) + (16 * c4) + (32 * c5) + (64 * c6)
    OBVIOUS
  <2>3. x = (128 * ((2 * h) + c7)) + l
    BY <1>3, <2>1, <2>2
  <2>4. x \div 128 = (2 * h) + c7
    BY <2>3
  <2>5. (x \div 128) % 2 = c7
    BY <2>4
  <2> QED
    BY <1>2, <1>4, <1>5, <1>13, <2>5 DEF Powers
<1> QED
  BY <1>6, <1>7, <1>8, <1>9, <1>10, <1>11, <1>12, <1>13

(* Turning a byte turns its bits.                                          *)
LEMMA BitsTurn ==
    ASSUME NEW m, NEW a, NEW b, Powers(m, a, b), NEW t \in Bits
    PROVE  /\ [n \in 0 .. 7 |-> t[(n + m) % 8]] \in Bits
           /\ Turned(Byte(t), a, b) = Byte([n \in 0 .. 7 |-> t[(n + m) % 8]])
<1> DEFINE u == [n \in 0 .. 7 |-> t[(n + m) % 8]]
<1>1. PICK c0 \in {0, 1}, c1 \in {0, 1}, c2 \in {0, 1}, c3 \in {0, 1}, c4 \in {0, 1}, c5 \in {0, 1},
           c6 \in {0, 1}, c7 \in {0, 1} :
        /\ c0 = t[0] /\ c1 = t[1] /\ c2 = t[2] /\ c3 = t[3]
        /\ c4 = t[4] /\ c5 = t[5] /\ c6 = t[6] /\ c7 = t[7]
  BY DEF Bits
<1>2. m \in 0 .. 7
  BY DEF Powers
<1>3. u \in Bits
  <2>1. ASSUME NEW n \in 0 .. 7 PROVE (n + m) % 8 \in 0 .. 7
    BY <1>2
  <2> QED
    BY <2>1 DEF Bits
<1>4. \A n \in 0 .. 7 : u[n] = t[(n + m) % 8]
  BY Zenon
<1> HIDE DEF u
<1>5. Byte(t) = c0 + (2 * c1) + (4 * c2) + (8 * c3) + (16 * c4)
                              + (32 * c5) + (64 * c6) + (128 * c7)
  BY <1>1, Zenon DEF Byte
<1>6. CASE m = 0
  <2>1. a = 1 /\ b = 256
    BY <1>6 DEF Powers
  <2>2. /\ u[0] = c0 /\ u[1] = c1 /\ u[2] = c2 /\ u[3] = c3
        /\ u[4] = c4 /\ u[5] = c5 /\ u[6] = c6 /\ u[7] = c7
    BY <1>1, <1>4, <1>6
  <2>3. PICK q \in 0 .. 255 : q = c0 + (2 * c1) + (4 * c2) + (8 * c3) + (16 * c4)
                              + (32 * c5) + (64 * c6) + (128 * c7)
    OBVIOUS
  <2>4. PICK r \in 0 .. 0 : r = 0
    OBVIOUS
  <2>5. Byte(t) = (a * q) + r
    BY <1>5, <2>1, <2>3, <2>4
  <2>6. Byte(u) = q + (b * r)
    BY <2>1, <2>2, <2>3, <2>4 DEF Byte
  <2>7. q \in 0 .. b - 1 /\ r \in 0 .. a - 1
    BY <2>1
  <2>8. Turned((a * q) + r, a, b) = q + (b * r)
    BY <2>7, PartsTurn
  <2> QED
    BY <1>3, <2>5, <2>6, <2>8, Zenon DEF u
<1>7. CASE m = 1
  <2>1. a = 2 /\ b = 128
    BY <1>7 DEF Powers
  <2>2. /\ u[0] = c1 /\ u[1] = c2 /\ u[2] = c3 /\ u[3] = c4
        /\ u[4] = c5 /\ u[5] = c6 /\ u[6] = c7 /\ u[7] = c0
    BY <1>1, <1>4, <1>7
  <2>3. PICK q \in 0 .. 127 : q = c1 + (2 * c2) + (4 * c3) + (8 * c4) + (16 * c5) + (32 * c6) + (64 * c7)
    OBVIOUS
  <2>4. PICK r \in 0 .. 1 : r = c0
    OBVIOUS
  <2>5. Byte(t) = (a * q) + r
    BY <1>5, <2>1, <2>3, <2>4
  <2>6. Byte(u) = q + (b * r)
    BY <2>1, <2>2, <2>3, <2>4 DEF Byte
  <2>7. q \in 0 .. b - 1 /\ r \in 0 .. a - 1
    BY <2>1
  <2>8. Turned((a * q) + r, a, b) = q + (b * r)
    BY <2>7, PartsTurn
  <2> QED
    BY <1>3, <2>5, <2>6, <2>8, Zenon DEF u
<1>8. CASE m = 2
  <2>1. a = 4 /\ b = 64
    BY <1>8 DEF Powers
  <2>2. /\ u[0] = c2 /\ u[1] = c3 /\ u[2] = c4 /\ u[3] = c5
        /\ u[4] = c6 /\ u[5] = c7 /\ u[6] = c0 /\ u[7] = c1
    BY <1>1, <1>4, <1>8
  <2>3. PICK q \in 0 .. 63 : q = c2 + (2 * c3) + (4 * c4) + (8 * c5) + (16 * c6) + (32 * c7)
    OBVIOUS
  <2>4. PICK r \in 0 .. 3 : r = c0 + (2 * c1)
    OBVIOUS
  <2>5. Byte(t) = (a * q) + r
    BY <1>5, <2>1, <2>3, <2>4
  <2>6. Byte(u) = q + (b * r)
    BY <2>1, <2>2, <2>3, <2>4 DEF Byte
  <2>7. q \in 0 .. b - 1 /\ r \in 0 .. a - 1
    BY <2>1
  <2>8. Turned((a * q) + r, a, b) = q + (b * r)
    BY <2>7, PartsTurn
  <2> QED
    BY <1>3, <2>5, <2>6, <2>8, Zenon DEF u
<1>9. CASE m = 3
  <2>1. a = 8 /\ b = 32
    BY <1>9 DEF Powers
  <2>2. /\ u[0] = c3 /\ u[1] = c4 /\ u[2] = c5 /\ u[3] = c6
        /\ u[4] = c7 /\ u[5] = c0 /\ u[6] = c1 /\ u[7] = c2
    BY <1>1, <1>4, <1>9
  <2>3. PICK q \in 0 .. 31 : q = c3 + (2 * c4) + (4 * c5) + (8 * c6) + (16 * c7)
    OBVIOUS
  <2>4. PICK r \in 0 .. 7 : r = c0 + (2 * c1) + (4 * c2)
    OBVIOUS
  <2>5. Byte(t) = (a * q) + r
    BY <1>5, <2>1, <2>3, <2>4
  <2>6. Byte(u) = q + (b * r)
    BY <2>1, <2>2, <2>3, <2>4 DEF Byte
  <2>7. q \in 0 .. b - 1 /\ r \in 0 .. a - 1
    BY <2>1
  <2>8. Turned((a * q) + r, a, b) = q + (b * r)
    BY <2>7, PartsTurn
  <2> QED
    BY <1>3, <2>5, <2>6, <2>8, Zenon DEF u
<1>10. CASE m = 4
  <2>1. a = 16 /\ b = 16
    BY <1>10 DEF Powers
  <2>2. /\ u[0] = c4 /\ u[1] = c5 /\ u[2] = c6 /\ u[3] = c7
        /\ u[4] = c0 /\ u[5] = c1 /\ u[6] = c2 /\ u[7] = c3
    BY <1>1, <1>4, <1>10
  <2>3. PICK q \in 0 .. 15 : q = c4 + (2 * c5) + (4 * c6) + (8 * c7)
    OBVIOUS
  <2>4. PICK r \in 0 .. 15 : r = c0 + (2 * c1) + (4 * c2) + (8 * c3)
    OBVIOUS
  <2>5. Byte(t) = (a * q) + r
    BY <1>5, <2>1, <2>3, <2>4
  <2>6. Byte(u) = q + (b * r)
    BY <2>1, <2>2, <2>3, <2>4 DEF Byte
  <2>7. q \in 0 .. b - 1 /\ r \in 0 .. a - 1
    BY <2>1
  <2>8. Turned((a * q) + r, a, b) = q + (b * r)
    BY <2>7, PartsTurn
  <2> QED
    BY <1>3, <2>5, <2>6, <2>8, Zenon DEF u
<1>11. CASE m = 5
  <2>1. a = 32 /\ b = 8
    BY <1>11 DEF Powers
  <2>2. /\ u[0] = c5 /\ u[1] = c6 /\ u[2] = c7 /\ u[3] = c0
        /\ u[4] = c1 /\ u[5] = c2 /\ u[6] = c3 /\ u[7] = c4
    BY <1>1, <1>4, <1>11
  <2>3. PICK q \in 0 .. 7 : q = c5 + (2 * c6) + (4 * c7)
    OBVIOUS
  <2>4. PICK r \in 0 .. 31 : r = c0 + (2 * c1) + (4 * c2) + (8 * c3) + (16 * c4)
    OBVIOUS
  <2>5. Byte(t) = (a * q) + r
    BY <1>5, <2>1, <2>3, <2>4
  <2>6. Byte(u) = q + (b * r)
    BY <2>1, <2>2, <2>3, <2>4 DEF Byte
  <2>7. q \in 0 .. b - 1 /\ r \in 0 .. a - 1
    BY <2>1
  <2>8. Turned((a * q) + r, a, b) = q + (b * r)
    BY <2>7, PartsTurn
  <2> QED
    BY <1>3, <2>5, <2>6, <2>8, Zenon DEF u
<1>12. CASE m = 6
  <2>1. a = 64 /\ b = 4
    BY <1>12 DEF Powers
  <2>2. /\ u[0] = c6 /\ u[1] = c7 /\ u[2] = c0 /\ u[3] = c1
        /\ u[4] = c2 /\ u[5] = c3 /\ u[6] = c4 /\ u[7] = c5
    BY <1>1, <1>4, <1>12
  <2>3. PICK q \in 0 .. 3 : q = c6 + (2 * c7)
    OBVIOUS
  <2>4. PICK r \in 0 .. 63 : r = c0 + (2 * c1) + (4 * c2) + (8 * c3) + (16 * c4) + (32 * c5)
    OBVIOUS
  <2>5. Byte(t) = (a * q) + r
    BY <1>5, <2>1, <2>3, <2>4
  <2>6. Byte(u) = q + (b * r)
    BY <2>1, <2>2, <2>3, <2>4 DEF Byte
  <2>7. q \in 0 .. b - 1 /\ r \in 0 .. a - 1
    BY <2>1
  <2>8. Turned((a * q) + r, a, b) = q + (b * r)
    BY <2>7, PartsTurn
  <2> QED
    BY <1>3, <2>5, <2>6, <2>8, Zenon DEF u
<1>13. CASE m = 7
  <2>1. a = 128 /\ b = 2
    BY <1>13 DEF Powers
  <2>2. /\ u[0] = c7 /\ u[1] = c0 /\ u[2] = c1 /\ u[3] = c2
        /\ u[4] = c3 /\ u[5] = c4 /\ u[6] = c5 /\ u[7] = c6
    BY <1>1, <1>4, <1>13
  <2>3. PICK q \in 0 .. 1 : q = c7
    OBVIOUS
  <2>4. PICK r \in 0 .. 127 : r = c0 + (2 * c1) + (4 * c2) + (8 * c3) + (16 * c4) + (32 * c5) + (64 * c6)
    OBVIOUS
  <2>5. Byte(t) = (a * q) + r
    BY <1>5, <2>1, <2>3, <2>4
  <2>6. Byte(u) = q + (b * r)
    BY <2>1, <2>2, <2>3, <2>4 DEF Byte
  <2>7. q \in 0 .. b - 1 /\ r \in 0 .. a - 1
    BY <2>1
  <2>8. Turned((a * q) + r, a, b) = q + (b * r)
    BY <2>7, PartsTurn
  <2> QED
    BY <1>3, <2>5, <2>6, <2>8, Zenon DEF u
<1> QED
  BY <1>2, <1>6, <1>7, <1>8, <1>9, <1>10, <1>11, <1>12, <1>13

\* applyBitshift with shift s turns x by m bits, one way and the other.
TurnsBy(x, s, m, a, b) ==
    /\ Powers(m, a, b)
    /\ applyBitshift(x, 1, s, CHAR_BIT) = Turned(x, a, b)
    /\ applyBitshift(x, -1, s, CHAR_BIT) = Turned(x, b, a)

(* applyBitshift turns a byte by the shift modulo its width.               *)
LEMMA ShiftsTurn ==
    ASSUME CHAR_BIT = 8, NEW x \in 0 .. 255, NEW s \in Nat
    PROVE  \E m, a, b : m = s % 8 /\ TurnsBy(x, s, m, a, b)
<1>1. PICK m \in 0 .. 7 : m = s % 8
  OBVIOUS
<1>2. PICK a, b : a = 2 ^ m /\ b = 2 ^ (8 - m)
  OBVIOUS
<1>3. Powers(m, a, b)
  BY <1>2, BytePowers, Zenon
<1>4. UCHAR = 256
  BY ByteWide
<1>5. applyBitshift(x, 1, s, CHAR_BIT) = Turned(x, a, b)
  <2>1. 1 > 0
    OBVIOUS
  <2> QED
    BY <1>1, <1>2, <1>4, <2>1, Zenon DEF applyBitshift, ShiftRight, ShiftLeft, Turned
<1>6. applyBitshift(x, -1, s, CHAR_BIT) = Turned(x, b, a)
  <2>1. ~ (-1 > 0)
    OBVIOUS
  <2>2. applyBitshift(x, -1, s, CHAR_BIT) = ((x * a) % 256) + (x \div b)
    BY <1>1, <1>2, <1>4, <2>1, Zenon DEF applyBitshift, ShiftRight, ShiftLeft
  <2>3. ((x * a) % 256) + (x \div b) = (x \div b) + ((x * a) % 256)
    BY <1>3 DEF Powers
  <2> QED
    BY <2>2, <2>3, Zenon DEF Turned
<1> QED
  BY <1>1, <1>3, <1>5, <1>6, Zenon DEF TurnsBy

(* Rotating back undoes a rotation, which loses no bit.                    *)
LEMMA RotationIsUndone ==
    ASSUME CHAR_BIT = 8, NEW x \in 0 .. 255, NEW s \in Nat
    PROVE  /\ applyBitshift(x, 1, s, CHAR_BIT) \in 0 .. 255
           /\ applyBitshift(applyBitshift(x, 1, s, CHAR_BIT), -1, s, CHAR_BIT) = x
<1>1. PICK m, a, b : m = s % 8 /\ TurnsBy(x, s, m, a, b)
  BY ShiftsTurn, Zenon
<1>2. PICK y : y = applyBitshift(x, 1, s, CHAR_BIT) /\ Powers(m, a, b) /\ y = Turned(x, a, b)
  BY <1>1, Zenon DEF TurnsBy
<1>3. PICK q, r : Parts(x, a, b, q, r)
  BY <1>2, TwoParts, Zenon
<1>4. y = q + (b * r) /\ Turned(q + (b * r), b, a) = (a * q) + r /\ q + (b * r) \in 0 .. 255
  BY <1>2, <1>3, PartsTurn DEF Parts
<1>5. y \in 0 .. 255
  BY <1>4
<1>6. PICK k, c, d : k = s % 8 /\ TurnsBy(y, s, k, c, d)
  BY <1>5, ShiftsTurn, Zenon
<1>7. k = m /\ Powers(k, c, d) /\ applyBitshift(y, -1, s, CHAR_BIT) = Turned(y, d, c)
  BY <1>1, <1>6, Zenon DEF TurnsBy
<1>8. c = a /\ d = b
  BY <1>2, <1>7 DEF Powers
<1> QED
  BY <1>2, <1>3, <1>4, <1>5, <1>7, <1>8, Zenon DEF Parts

(* The bits of a rotated byte are those of the byte, counted around it.    *)
LEMMA RotationTurnsBits ==
    ASSUME CHAR_BIT = 8, NEW x \in 0 .. 255, NEW s \in Nat, NEW n \in 0 .. 7
    PROVE  Bit(applyBitshift(x, 1, s, CHAR_BIT), n) = Bit(x, (n + s) % 8)
<1>1. PICK m, a, b : m = s % 8 /\ TurnsBy(x, s, m, a, b)
  BY ShiftsTurn, Zenon
<1>2. Powers(m, a, b) /\ applyBitshift(x, 1, s, CHAR_BIT) = Turned(x, a, b)
  BY <1>1, Zenon DEF TurnsBy
<1>3. PICK t \in Bits : x = Byte(t)
  BY ByteHasBits
<1> DEFINE u == [k \in 0 .. 7 |-> t[(k + m) % 8]]
<1>4. u \in Bits /\ Turned(Byte(t), a, b) = Byte(u)
  BY <1>2, BitsTurn
<1>5. u[n] = t[(n + m) % 8]
  BY Zenon
<1> HIDE DEF u
<1>6. Bit(Byte(u), n) = u[n]
  BY <1>4, BitsOfByte
<1>7. (n + m) % 8 = (n + s) % 8 /\ (n + s) % 8 \in 0 .. 7
  BY <1>1
<1>8. Bit(Byte(t), (n + s) % 8) = t[(n + s) % 8]
  BY <1>7, BitsOfByte
<1> QED
  BY <1>2, <1>3, <1>4, <1>5, <1>6, <1>7, <1>8, Zenon

----------------------------------------------------------------------------
NatKeys == [forAddition : Nat, forShift : Nat]

(* A rotation takes the key up to the width of a byte.                     *)
LEMMA ShiftWithinByte ==
    ASSUME NEW y, NEW s, NEW r, s % CHAR_BIT = r % CHAR_BIT
    PROVE  applyBitshift(y, -1, s, CHAR_BIT) = applyBitshift(y, -1, r, CHAR_BIT)
  BY Zenon DEF applyBitshift

(* Encrypt maps bytes to bytes, and with no keys both ways do nothing.     *)
LEMMA CipherBytes ==
    ASSUME CHAR_BIT = 8, NEW x \in 0 .. 255
    PROVE  /\ \A k \in NatKeys : Encrypt(x, k) \in 0 .. 255
           /\ Encrypt(x, Off) = x
           /\ Decrypt(x, Off) = x
<1>1. UCHAR = 256
  BY ByteWide
<1>2. ASSUME NEW k \in NatKeys PROVE Encrypt(x, k) \in 0 .. 255
  <2>1. k.forShift \in Nat /\ (x + k.forAddition) % 256 \in 0 .. 255
    BY DEF NatKeys
  <2> QED
    BY <1>1, <2>1, RotationIsUndone DEF Encrypt
<1>3. Off.forAddition = 0 /\ Off.forShift = 0
  BY DEF Off
<1>4. PICK m, a, b : m = 0 % 8 /\ TurnsBy(x, 0, m, a, b)
  BY ShiftsTurn, Zenon
<1>5. a = 1 /\ b = 256
  BY <1>4 DEF TurnsBy, Powers
<1>6. applyBitshift(x, 1, 0, CHAR_BIT) = x /\ applyBitshift(x, -1, 0, CHAR_BIT) = x
  <2>1. Turned(x, 1, 256) = x /\ Turned(x, 256, 1) = x
    BY DEF Turned
  <2> QED
    BY <1>4, <1>5, <2>1, Zenon DEF TurnsBy
<1>7. (x + 0) % 256 = x /\ (x - 0) % 256 = x
  OBVIOUS
<1>8. Encrypt(x, Off) = x
  BY <1>1, <1>3, <1>6, <1>7, Zenon DEF Encrypt
<1>9. Decrypt(x, Off) = x
  BY <1>1, <1>3, <1>6, <1>7, Zenon DEF Decrypt
<1> QED
  BY <1>2, <1>8, <1>9

\* What a byte in the file is, and what was read of it last.
Written ==
    /\ text \in 0 .. 255
    /\ stored = Encrypt(text, used)
    /\ got = -1 \/ got = Decrypt(stored, InForce)

\* The inductive invariant of the cipher.
CipherInv ==
    /\ conf \in Keys \cup {NoFile}
    /\ encryptEnabled \in {0, 1}
    /\ key \in NatKeys /\ used \in NatKeys
    /\ (text = -1 /\ stored = -1 /\ got = -1) \/ Written

(* What loadPolicyFromFile leaves.                                         *)
LEMMA LoadedKeys ==
    ASSUME CipherInv, loadPolicyFromFile
    PROVE  /\ conf' \in Keys \cup {NoFile}
           /\ encryptEnabled' \in {0, 1}
           /\ key' \in NatKeys
           /\ InForce' = IF encryptEnabled' = 1 THEN key' ELSE Off
<1>1. conf \in NatKeys \cup {NoFile}
  BY CipherConstants DEF CipherInv, Keys, NatKeys
<1> QED
  BY <1>1 DEF CipherInv, loadPolicyFromFile, InForce

(* Requests and edits of ee516.conf keep the invariant of the cipher, for  *)
(* any keys the file may hold: a byte in the file is always the encryption *)
(* of the text under the keys that were in force.                          *)
THEOREM CipherInvariant ==
    ASSUME CHAR_BIT = 8
    PROVE  Spec => []CipherInv
<1>1. Off \in NatKeys
  BY DEF Off, NatKeys
<1>2. ASSUME Init PROVE CipherInv
  BY <1>1, <1>2 DEF Init, CipherInv
<1>3. Bytes = 0 .. 255
  BY ByteWide DEF Bytes
<1>4. ASSUME CipherInv, [Next]_vars PROVE CipherInv'
  <2>1. CASE bb_write
    <3>1. loadPolicyFromFile /\ text' \in intermediateBuf
      BY <2>1 DEF bb_write
    <3>2. intermediateBuf \subseteq 0 .. 255
      BY <1>3 DEF intermediateBuf, strncpy
    <3>3. text' \in 0 .. 255
      BY <3>1, <3>2
    <3>4. used' \in NatKeys /\ got' = -1
      BY <1>1, <1>4, <2>1, <3>1, LoadedKeys DEF bb_write
    <3>5. stored' = Encrypt(text', used')
      <4>1. PICK y \in 0 .. 255 : y = text'
        BY <3>3
      <4>2. Encrypt(y, Off) = y
        BY CipherBytes
      <4> QED
        BY <2>1, <4>1, <4>2, Zenon DEF bb_write
    <3> QED
      BY <1>4, <3>1, <3>3, <3>4, <3>5, LoadedKeys DEF CipherInv, Written
  <2>2. CASE bb_read
    <3>1. loadPolicyFromFile /\ stored # -1 /\ text' = text /\ stored' = stored /\ used' = used
      BY <2>2 DEF bb_read
    <3>2. text \in 0 .. 255 /\ stored = Encrypt(text, used) /\ used \in NatKeys
      BY <1>4, <3>1 DEF CipherInv, Written
    <3>3. stored \in 0 .. 255
      BY <3>2, CipherBytes
    <3>4. Decrypt(stored, Off) = stored
      BY <3>3, CipherBytes
    <3>5. got' = Decrypt(stored', InForce')
      <4>1. got' = Decrypt(stored, IF encryptEnabled' = 1 THEN key' ELSE Off)
        BY <2>2, <3>4, Zenon DEF bb_read
      <4> QED
        BY <1>4, <3>1, <4>1, LoadedKeys, Zenon
    <3> QED
      BY <1>4, <3>1, <3>2, <3>5, LoadedKeys, Zenon DEF CipherInv, Written
  <2>3. CASE EditConf
    <3>1. InForce' = InForce
      BY <2>3 DEF EditConf, InForce
    <3> QED
      BY <1>4, <2>3, <3>1 DEF EditConf, CipherInv, Written
  <2>4. CASE UNCHANGED vars
    <3>1. InForce' = InForce
      BY <2>4 DEF vars, InForce
    <3> QED
      BY <1>4, <2>4, <3>1 DEF vars, CipherInv, Written
  <2> QED
    BY <1>4, <2>1, <2>2, <2>3, <2>4 DEF Next
<1> QED
  BY <1>2, <1>4, PTL DEF Spec

(* bb_read gives back what bb_write took over through every history of     *)
(* ee516.conf, for any keys, exactly when the additions agree up to the    *)
(* width of a byte (the rotations agreeing).                               *)
THEOREM ReadsAreReadBack ==
    ASSUME CHAR_BIT = 8
    PROVE  Spec => []ReadBack
<1>1. ASSUME CipherInv PROVE ReadBack
  <2>1. SUFFICES ASSUME got # -1, InForce.forShift % CHAR_BIT = used.forShift % CHAR_BIT
                 PROVE  got = text <=> InForce.forAddition % UCHAR = used.forAddition % UCHAR
    BY <2>1 DEF ReadBack, SameKeys
  <2>2. /\ text \in 0 .. 255 /\ stored = Encrypt(text, used) /\ got = Decrypt(stored, InForce)
        /\ used \in NatKeys /\ InForce \in NatKeys
    BY <1>1, <2>1 DEF CipherInv, Written, InForce, Off, NatKeys
  <2>3. UCHAR = 256
    BY ByteWide
  <2>4. PICK x \in 0 .. 255 : x = (text + used.forAddition) % 256
    BY <2>2 DEF NatKeys
  <2>5. stored = applyBitshift(x, 1, used.forShift, CHAR_BIT)
    BY <2>2, <2>3, <2>4, Zenon DEF Encrypt
  <2>6. applyBitshift(stored, -1, used.forShift, CHAR_BIT) = x
    <3>1. used.forShift \in Nat
      BY <2>2 DEF NatKeys
    <3> QED
      BY <2>5, <3>1, RotationIsUndone, Zenon
  <2>7. applyBitshift(stored, -1, InForce.forShift, CHAR_BIT) = x
    BY <2>1, <2>6, ShiftWithinByte, Zenon
  <2>8. got = (x - InForce.forAddition) % 256
    BY <2>2, <2>3, <2>7, Zenon DEF Decrypt
  <2>9. PICK k \in Nat, l \in Nat : k = InForce.forAddition /\ l = used.forAddition
    BY <2>2 DEF NatKeys
  <2>10. ((((text + l) % 256) - k) % 256 = text) <=> (k % 256 = l % 256)
    BY <2>2
  <2> QED
    BY <2>3, <2>4, <2>8, <2>9, <2>10, Zenon
<1> QED
  BY <1>1, CipherInvariant, PTL

(* The byte in the file has the bits of text and key, turned around: no    *)
(* bit is lost whatever the keys.                                          *)
THEOREM NoBitIsLost ==
    ASSUME CHAR_BIT = 8
    PROVE  Spec => []RotatesBits
<1>1. ASSUME CipherInv PROVE RotatesBits
  <2>1. SUFFICES ASSUME stored # -1, NEW n \in 0 .. 7
                 PROVE  Bit(stored, n) = Bit((text + used.forAddition) % UCHAR,
                                             (n + used.forShift) % CHAR_BIT)
    BY DEF RotatesBits
  <2>2. text \in 0 .. 255 /\ stored = Encrypt(text, used) /\ used \in NatKeys
    BY <1>1, <2>1 DEF CipherInv, Written
  <2>3. UCHAR = 256
    BY ByteWide
  <2>4. PICK x \in 0 .. 255 : x = (text + used.forAddition) % 256
    BY <2>2 DEF NatKeys
  <2>5. stored = applyBitshift(x, 1, used.forShift, CHAR_BIT)
    BY <2>2, <2>3, <2>4, Zenon DEF Encrypt
  <2>6. Bit(applyBitshift(x, 1, used.forShift, CHAR_BIT), n) = Bit(x, (n + used.forShift) % 8)
    BY <2>2, RotationTurnsBits DEF NatKeys
  <2> QED
    BY <2>3, <2>4, <2>5, <2>6, Zenon
<1> QED
  BY <1>1, CipherInvariant, PTL

=============================================================================
