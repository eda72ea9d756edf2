----------------------------- MODULE CodecProofs -----------------------------
(***************************************************************************)
(* The codecs of src/codec/scalar.go for every value, buffer and string.   *)
(***************************************************************************)
EXTENDS Codec, PDUSizeProofs, SequenceTheorems

-----------------------------------------------------------------------------
\* Integers

\* The quotients are computed one from the other.
LEMMA ShiftedStep ==
    ASSUME NEW w \in Nat, NEW v \in Int
    PROVE  /\ Shifted(w, v)[0] = v
           /\ \A k \in 0..w : Shifted(w, v)[k] \in Int
           /\ \A k \in 1..w : Shifted(w, v)[k] = Shifted(w, v)[k - 1] \div 256
  <1> DEFINE F == [p \in (1..w) \X Int |-> p[2] \div 256]
  <1>1. F \in [(1..w) \X Int -> Int]
    OBVIOUS
  <1>2. PICK t \in [0..w -> Int] : Unfolds(t, w, v, F)
    <2> HIDE DEF F
    <2> QED BY <1>1, Recursion
  <1>3. ASSUME NEW k \in 1..w PROVE F[<<k, t[k - 1]>>] = t[k - 1] \div 256
    <2>1. t[k - 1] \in Int
      OBVIOUS
    <2>2. <<k, t[k - 1]>> \in (1..w) \X Int
      BY <2>1
    <2> QED BY <2>2
  <1> HIDE DEF F
  <1>4. \A k \in 0..w : t[k] = IF k = 0 THEN v ELSE t[k - 1] \div 256
    <2> SUFFICES ASSUME NEW k \in 0..w
                 PROVE  t[k] = IF k = 0 THEN v ELSE t[k - 1] \div 256
      OBVIOUS
    <2>1. t[k] = IF k = 0 THEN v ELSE F[<<k, t[k - 1]>>]
      BY <1>2 DEF Unfolds
    <2>2. CASE k = 0
      BY <2>1, <2>2
    <2>3. CASE k # 0
      <3>1. k \in 1..w
        BY <2>3
      <3> QED BY <2>1, <2>3, <3>1, <1>3
    <2> QED BY <2>2, <2>3
  <1>5. t = [k \in 0..w |-> IF k = 0 THEN v ELSE t[k - 1] \div 256]
    BY <1>4
  <1>6. \E q : q = [k \in 0..w |-> IF k = 0 THEN v ELSE q[k - 1] \div 256]
    BY <1>5
  <1> DEFINE s == Shifted(w, v)
  <1>7. s = [k \in 0..w |-> IF k = 0 THEN v ELSE s[k - 1] \div 256]
    BY <1>6 DEF Shifted
  <1> HIDE DEF s
  <1>8. s[0] = v /\ \A k \in 1..w : s[k] = s[k - 1] \div 256
    BY <1>7
  <1> DEFINE S == {k \in 0..w : s[k] \in Int}
  <1>9. 0 \in S /\ \A k \in 1..w : k - 1 \in S => k \in S
    BY <1>8
  <1> HIDE DEF S
  <1>10. \A k \in 0..w : k \in S
    BY <1>9, UpTo
  <1> QED BY <1>8, <1>10 DEF s, S

LEMMA PutBytesAreBytes ==
    ASSUME NEW w \in Nat, NEW v \in Int
    PROVE  PutBytes(w, v) \in Seq(Byte) /\ Len(PutBytes(w, v)) = w
  <1> DEFINE s == Shifted(w, v)
  <1>1. \A k \in 0..w : s[k] \in Int
    BY ShiftedStep
  <1> HIDE DEF s
  <1>2. \A k \in 1..w : s[w - k] % 256 \in Byte
    BY <1>1 DEF Byte
  <1>3. PutBytes(w, v) = [k \in 1..w |-> s[w - k] % 256]
    BY DEF PutBytes, s
  <1>4. PutBytes(w, v) \in Seq(Byte)
    BY <1>2, <1>3
  <1> QED BY <1>3, <1>4

\* The value of the bytes is built up byte by byte.
LEMMA JoinedStep ==
    ASSUME NEW data \in Seq(Byte), Len(data) > 0, NEW first \in Int
    PROVE  /\ Joined(data, first)[1] = first
           /\ \A k \in 2..Len(data) :
                Joined(data, first)[k] = Joined(data, first)[k - 1] * 256 + data[k]
  <1> DEFINE n == Len(data)
             F == [p \in (1..n) \X Int |->
                     IF p[1] = 1 THEN first ELSE p[2] * 256 + data[p[1]]]
  <1>1. n \in Nat \ {0} /\ \A k \in 1..n : data[k] \in Int
    <2>1. n \in Nat \ {0} /\ \A k \in 1..n : data[k] \in Byte
      OBVIOUS
    <2> QED BY <2>1, BytesAreNumbers
  <1>3. F \in [(1..n) \X Int -> Int]
    <2> HIDE DEF n
    <2>1. ASSUME NEW p \in (1..n) \X Int
          PROVE  (IF p[1] = 1 THEN first ELSE p[2] * 256 + data[p[1]]) \in Int
      <3>1. p[2] \in Int /\ data[p[1]] \in Int
        BY <1>1
      <3> QED BY <3>1
    <2> QED BY <2>1
  <1>4. PICK t \in [0..n -> Int] : Unfolds(t, n, 0, F)
    <2> HIDE DEF F, n
    <2>1. n \in Nat /\ 0 \in Int
      BY <1>1
    <2> QED BY <2>1, <1>3, Recursion
  <1>5. ASSUME NEW k \in 1..n
        PROVE  F[<<k, t[k - 1]>>] = IF k = 1 THEN first ELSE t[k - 1] * 256 + data[k]
    <2>1. t[k - 1] \in Int
      OBVIOUS
    <2> DEFINE q == <<k, t[k - 1]>>
    <2>2. q \in (1..n) \X Int /\ q[1] = k /\ q[2] = t[k - 1]
      BY <2>1
    <2> HIDE DEF q, n
    <2>3. F[q] = IF q[1] = 1 THEN first ELSE q[2] * 256 + data[q[1]]
      BY <2>2
    <2> QED BY <2>2, <2>3 DEF q
  <1> HIDE DEF F, n
  <1> DEFINE Right(q, k) ==
               IF k = 0 THEN 0
               ELSE IF k = 1 THEN first ELSE q[k - 1] * 256 + data[k]
  <1>6. ASSUME NEW k \in 0..n PROVE t[k] = Right(t, k)
    <2>1. t[k] = IF k = 0 THEN 0 ELSE F[<<k, t[k - 1]>>]
      BY <1>4 DEF Unfolds
    <2>2. CASE k = 0
      BY <2>1, <2>2
    <2>3. CASE k # 0
      <3>1. k \in 1..n
        BY <2>3
      <3> QED BY <2>1, <2>3, <3>1, <1>5
    <2> QED BY <2>2, <2>3
  <1>7. t = [k \in 0..n |-> Right(t, k)]
    BY <1>6
  <1>8. \E q : q = [k \in 0..n |-> Right(q, k)]
    BY <1>7, ZenonT(60)
  <1> DEFINE j == Joined(data, first)
  <1>9. j = [k \in 0..n |-> Right(j, k)]
    BY <1>8 DEF Joined, n
  <1> HIDE DEF j
  <1>10. j[1] = first
    BY <1>9, <1>1
  <1>11. \A k \in 2..n : j[k] = j[k - 1] * 256 + data[k]
    BY <1>9, <1>1
  <1> QED BY <1>10, <1>11 DEF j, n

\* The bytes of a value, read again with its highest quotient in front, give the value.
LEMMA BytesSurvive ==
    ASSUME NEW w \in Nat \ {0}, NEW v \in Int
    PROVE  Joined(PutBytes(w, v), Shifted(w, v)[w - 1])[Len(PutBytes(w, v))] = v
  <1> DEFINE s == Shifted(w, v)
             data == PutBytes(w, v)
             j == Joined(data, s[w - 1])
  <1>1. /\ s[0] = v
        /\ \A k \in 0..w : s[k] \in Int
        /\ \A k \in 1..w : s[k] = s[k - 1] \div 256
    BY ShiftedStep
  <1>2. data \in Seq(Byte) /\ Len(data) = w
    BY PutBytesAreBytes
  <1>3. \A k \in 1..w : data[k] = s[w - k] % 256
    BY DEF PutBytes
  <1> HIDE DEF s, data
  <1>4. Len(data) > 0 /\ s[w - 1] \in Int
    BY <1>1, <1>2
  <1>5. j[1] = s[w - 1] /\ \A k \in 2..w : j[k] = j[k - 1] * 256 + data[k]
    BY <1>2, <1>4, JoinedStep
  <1> HIDE DEF j
  <1> DEFINE S == {k \in 0..(w - 1) : j[k + 1] = s[w - 1 - k]}
             m == w - 1
  <1>6. 0 \in S
    BY <1>5
  <1>7. ASSUME NEW k \in 1..m, k - 1 \in S PROVE k \in S
    <2>1. j[k] = s[w - k]
      BY <1>7
    <2>2. j[k + 1] = j[k] * 256 + data[k + 1]
      <3>1. k + 1 \in 2..w /\ (k + 1) - 1 = k
        OBVIOUS
      <3> QED BY <1>5, <3>1
    <2>3. data[k + 1] = s[w - 1 - k] % 256
      <3>1. k + 1 \in 1..w /\ w - (k + 1) = w - 1 - k
        OBVIOUS
      <3> QED BY <1>3, <3>1
    <2>4. s[w - k] = s[w - 1 - k] \div 256
      <3>1. w - k \in 1..w /\ (w - k) - 1 = w - 1 - k
        OBVIOUS
      <3> QED BY <1>1, <3>1
    <2>5. s[w - 1 - k] \in Int
      BY <1>1
    <2>6. j[k + 1] = s[w - 1 - k]
      <3> DEFINE a == s[w - 1 - k]
      <3>1. a \in Int /\ a = (a \div 256) * 256 + (a % 256)
        BY <2>5
      <3>2. j[k + 1] = (a \div 256) * 256 + (a % 256)
        BY <2>1, <2>2, <2>3, <2>4
      <3> QED BY <3>1, <3>2
    <2> QED BY <2>6
  <1> HIDE DEF S
  <1>8. m \in S
    <2>1. m \in Nat /\ m \in 0..m
      OBVIOUS
    <2> HIDE DEF m
    <2> QED BY <2>1, <1>6, <1>7, UpTo
  <1>9. j[w] = s[0]
    BY <1>8 DEF S
  <1> QED BY <1>1, <1>2, <1>9 DEF j, data, s

\* The first byte of a signed type, with its sign, is that quotient, and so is the
\* first byte of an unsigned type as it is.
LEMMA FirstByte ==
    ASSUME NEW w \in Nat \ {0}, NEW v \in Int
    PROVE  LET top == Shifted(w, v)[w - 1]
               byte == PutBytes(w, v)[1]
           IN /\ top \in -128..127 => Signed(byte) = top
              /\ top \in Byte => byte = top
  <1> DEFINE top == Shifted(w, v)[w - 1]
             byte == PutBytes(w, v)[1]
  <1>1. byte = top % 256
    BY DEF PutBytes
  <1> HIDE DEF top, byte
  <1>2. top \in -128..127 => Signed(byte) = top
    BY <1>1 DEF Signed
  <1>3. top \in Byte => byte = top
    BY <1>1 DEF Byte
  <1> QED BY <1>2, <1>3 DEF top, byte

LEMMA IntSurvives ==
    ASSUME NEW w \in Nat \ {0}, NEW v \in Int, Shifted(w, v)[w - 1] \in -128..127
    PROVE  IntOf(PutBytes(w, v)) = v
  <1>1. Signed(PutBytes(w, v)[1]) = Shifted(w, v)[w - 1]
    BY FirstByte
  <1> QED BY <1>1, BytesSurvive, Zenon DEF IntOf

LEMMA UintSurvives ==
    ASSUME NEW w \in Nat \ {0}, NEW v \in Int, Shifted(w, v)[w - 1] \in Byte
    PROVE  UintOf(PutBytes(w, v)) = v
  <1>1. PutBytes(w, v)[1] = Shifted(w, v)[w - 1]
    BY FirstByte
  <1> QED BY <1>1, BytesSurvive, Zenon DEF UintOf

-----------------------------------------------------------------------------
\* Timers and counters

LEMMA Places == <<1, 16, 256>>[0 + 1] = 1 /\ <<1, 16, 256>>[1 + 1] = 16 /\ <<1, 16, 256>>[2 + 1] = 256
  OBVIOUS

LEMMA DigitsOf ==
    ASSUME NEW raw \in Int
    PROVE  /\ Digit(raw, 0) = raw % 16 /\ Digit(raw, 1) = (raw \div 16) % 16
           /\ Digit(raw, 2) = (raw \div 256) % 16
  BY Places DEF Digit

LEMMA BadDigits ==
    \A raw : BCDError(raw) <=> Digit(raw, 0) > 9 \/ Digit(raw, 1) > 9 \/ Digit(raw, 2) > 9
  <1>1. 0..2 = {0, 1, 2}
    OBVIOUS
  <1> QED BY <1>1 DEF BCDError

Nibble == 0..15

\* The word of a control digit and three more, and of a control digit and a number.
WordOf(c, h, t, o) == c * 4096 + h * 256 + t * 16 + o
CodeOf(c, n) == c * 4096 + ToBCD(n)

LEMMA DigitsOfWord ==
    ASSUME NEW c \in Nibble, NEW h \in Nibble, NEW t \in Nibble, NEW o \in Nibble
    PROVE  LET raw == WordOf(c, h, t, o)
           IN /\ raw \in Nat /\ raw \div 4096 = c
              /\ Digit(raw, 2) = h /\ Digit(raw, 1) = t /\ Digit(raw, 0) = o
  <1> DEFINE raw == WordOf(c, h, t, o)
  <1>1. raw \in Nat /\ raw \div 4096 = c
    BY DEF WordOf, Nibble
  <1>2. raw \div 256 = c * 16 + h
    BY DEF WordOf, Nibble
  <1>3. raw \div 16 = c * 256 + h * 16 + t
    BY DEF WordOf, Nibble
  <1>4. raw % 16 = o
    BY DEF WordOf, Nibble
  <1>5. (c * 16 + h) % 16 = h /\ (c * 256 + h * 16 + t) % 16 = t
    BY DEF Nibble
  <1>6. raw \in Int
    BY DEF WordOf, Nibble
  <1> HIDE DEF raw
  <1>7. Digit(raw, 0) = raw % 16
    BY <1>6, DigitsOf
  <1>8. Digit(raw, 1) = (raw \div 16) % 16
    BY <1>6, DigitsOf
  <1>9. Digit(raw, 2) = (raw \div 256) % 16
    BY <1>6, DigitsOf
  <1>10. Digit(raw, 0) = o /\ Digit(raw, 1) = t /\ Digit(raw, 2) = h
    BY <1>2, <1>3, <1>4, <1>5, <1>7, <1>8, <1>9
  <1> QED BY <1>1, <1>10 DEF raw

\* Three decimal digits below any control digit are read back.
LEMMA BCDOfNumber ==
    ASSUME NEW n \in Nat, n <= 999, NEW c \in Nibble
    PROVE  LET raw == CodeOf(c, n)
           IN /\ raw \in Nat /\ raw <= MaxWord /\ raw < (c + 1) * 4096
              /\ raw \div 4096 = c /\ ~BCDError(raw) /\ FromBCD(raw) = n
  <1> DEFINE raw == CodeOf(c, n)
             h == n \div 100
             t == (n \div 10) % 10
             o == n % 10
  <1>1. h \in 0..9 /\ t \in 0..9 /\ o \in 0..9 /\ n = 100 * h + 10 * t + o
    OBVIOUS
  <1>2. raw = WordOf(c, h, t, o)
    BY DEF CodeOf, ToBCD, WordOf, Nibble
  <1> HIDE DEF raw, h, t, o
  <1>3. raw \in Nat /\ raw <= MaxWord /\ raw < (c + 1) * 4096
    BY <1>1, <1>2 DEF MaxWord, WordOf, Nibble
  <1>4. h \in Nibble /\ t \in Nibble /\ o \in Nibble
    BY <1>1 DEF Nibble
  <1>5. raw \div 4096 = c /\ Digit(raw, 0) = o /\ Digit(raw, 1) = t /\ Digit(raw, 2) = h
    BY <1>2, <1>4, DigitsOfWord
  <1>6. ~BCDError(raw)
    BY <1>1, <1>5, BadDigits
  <1>7. FromBCD(raw) = n
    BY <1>1, <1>5 DEF FromBCD
  <1> QED BY <1>3, <1>5, <1>6, <1>7 DEF raw

\* A word of three decimal digits is its control digit and the code of its number.
LEMMA NumberOfBCD ==
    ASSUME NEW raw \in Nat, raw <= MaxWord, ~BCDError(raw)
    PROVE  /\ FromBCD(raw) \in Nat /\ FromBCD(raw) <= 999
           /\ raw = (raw \div 4096) * 4096 + ToBCD(FromBCD(raw))
  <1> DEFINE h == Digit(raw, 2)
             t == Digit(raw, 1)
             o == Digit(raw, 0)
             n == FromBCD(raw)
             c == raw \div 4096
  <1>1. o = raw % 16 /\ t = (raw \div 16) % 16 /\ h = (raw \div 256) % 16
        /\ ~(o > 9 \/ t > 9 \/ h > 9)
    BY DigitsOf, BadDigits
  <1>2. n = h * 100 + t * 10 + o
    BY DEF FromBCD
  <1> HIDE DEF h, t, o, n
  <1>3. h \in 0..9 /\ t \in 0..9 /\ o \in 0..9
    BY <1>1
  <1>4. raw = c * 4096 + h * 256 + t * 16 + o
    BY <1>1
  <1>5. n \in Nat /\ n <= 999
    BY <1>2, <1>3
  <1>6. n \div 100 = h /\ (n \div 10) % 10 = t /\ n % 10 = o
    BY <1>2, <1>3
  <1>7. ToBCD(n) = h * 256 + t * 16 + o
    BY <1>6 DEF ToBCD
  <1>8. c \in Int
    OBVIOUS
  <1> HIDE DEF c
  <1>9. raw = c * 4096 + ToBCD(n)
    BY <1>3, <1>4, <1>7, <1>8
  <1> QED BY <1>5, <1>9 DEF n, c

\* EncodeCounter and DecodeCounter are inverse to each other.
LEMMA CounterSurvives ==
    ASSUME NEW n \in Int, CounterEncodes(n)
    PROVE  /\ ToBCD(n) \in Nat /\ ToBCD(n) <= MaxWord
           /\ CounterDecodes(ToBCD(n)) /\ FromBCD(ToBCD(n)) = n
  <1>1. n \in Nat /\ n <= 999 /\ 0 \in Nibble
    BY DEF CounterEncodes, Nibble
  <1>2. ToBCD(n) \in Int
    BY DEF ToBCD
  <1>3. CodeOf(0, n) = ToBCD(n)
    BY <1>2 DEF CodeOf
  <1> DEFINE raw == CodeOf(0, n)
  <1>4. /\ raw \in Nat /\ raw <= MaxWord
        /\ raw \div 4096 = 0 /\ ~BCDError(raw) /\ FromBCD(raw) = n
    BY <1>1, BCDOfNumber
  <1> QED BY <1>3, <1>4 DEF CounterDecodes

LEMMA CounterWordSurvives ==
    ASSUME NEW raw \in Nat, raw <= MaxWord, CounterDecodes(raw)
    PROVE  CounterEncodes(FromBCD(raw)) /\ ToBCD(FromBCD(raw)) = raw
  <1>1. ~BCDError(raw) /\ raw \div 4096 = 0
    BY DEF CounterDecodes
  <1>2. /\ FromBCD(raw) \in Nat /\ FromBCD(raw) <= 999
        /\ raw = (raw \div 4096) * 4096 + ToBCD(FromBCD(raw))
    BY <1>1, NumberOfBCD
  <1>3. ToBCD(FromBCD(raw)) \in Int
    BY <1>2 DEF ToBCD
  <1> QED BY <1>1, <1>2, <1>3 DEF CounterEncodes

LEMMA BaseValues == \A i \in 1..4 : Bases[i] \in Nat /\ Bases[i] > 0
  <1>1. Millisecond \in Nat /\ Millisecond > 0
    BY CodecAssumption
  <1>2. /\ Bases[1] = 10 * Millisecond /\ Bases[2] = 100 * Millisecond
        /\ Bases[3] = 1000 * Millisecond /\ Bases[4] = 10000 * Millisecond
    BY DEF Bases
  <1>3. \A i \in 1..4 : i = 1 \/ i = 2 \/ i = 3 \/ i = 4
    OBVIOUS
  <1> QED BY <1>1, <1>2, <1>3

\* A number without remainder is its quotient times the divisor.
LEMMA ExactQuotient ==
    ASSUME NEW d \in Int, d >= 0, NEW b \in Nat, b > 0
    PROVE  /\ d % b = 0 => d \div b \in Nat /\ d = (d \div b) * b
           /\ \A n \in Nat : d = n * b => d % b = 0 /\ d \div b = n
  <1>1. d % b = 0 => d \div b \in Nat /\ d = (d \div b) * b
    OBVIOUS
  <1>2. ASSUME NEW n \in Nat, d = n * b PROVE d % b = 0 /\ d \div b = n
    BY <1>2
  <1> QED BY <1>1, <1>2

\* A duration that is n times base i, and only such a duration, has i among its bases.
LEMMA ExactBasesOf ==
    ASSUME NEW d \in Int, d >= 0, NEW i \in 1..4
    PROVE  /\ i \in ExactBases(d) =>
                /\ d \div Bases[i] \in Nat /\ d \div Bases[i] <= 999
                /\ d = (d \div Bases[i]) * Bases[i]
           /\ \A n \in Nat : n <= 999 /\ d = n * Bases[i] =>
                i \in ExactBases(d) /\ d \div Bases[i] = n
  <1> DEFINE b == Bases[i]
  <1>1. i \in ExactBases(d) <=> d % b = 0 /\ d \div b <= 999
    BY DEF ExactBases
  <1>2. b \in Nat /\ b > 0
    BY BaseValues
  <1> HIDE DEF b
  <1>3. /\ d % b = 0 => d \div b \in Nat /\ d = (d \div b) * b
        /\ \A n \in Nat : d = n * b => d % b = 0 /\ d \div b = n
    BY <1>2, ExactQuotient
  <1> QED BY <1>1, <1>3 DEF b

\* EncodeS5Time takes the first base that fits.
LEMMA FinestBase ==
    ASSUME NEW d \in Int, ExactBases(d) # {}
    PROVE  /\ Min(ExactBases(d)) \in ExactBases(d) /\ Min(ExactBases(d)) \in 1..4
           /\ \A i \in ExactBases(d) : Min(ExactBases(d)) <= i
  <1> DEFINE S == ExactBases(d)
  <1>1. S \in SUBSET (1..4)
    BY DEF ExactBases
  <1> HIDE DEF S
  <1>2. S \in SUBSET Nat /\ S # {}
    BY <1>1 DEF S
  <1>3. \E m \in S : \A k \in S : m <= k
    BY <1>2, LeastNatural
  <1>4. Min(S) \in S /\ \A k \in S : Min(S) <= k
    BY <1>3 DEF Min
  <1> QED BY <1>1, <1>4 DEF S

\* An encoded duration is a legal word for this duration.
LEMMA S5TimeSurvives ==
    ASSUME NEW d \in Int, S5TimeEncodes(d)
    PROVE  LET raw == S5TimeRaw(d)
           IN /\ raw \in Nat /\ raw <= MaxWord /\ S5TimeDecodes(raw) /\ S5Time(raw) = d
              /\ raw < Min(ExactBases(d)) * 4096
  <1> DEFINE i == Min(ExactBases(d))
             n == d \div Bases[i]
             raw == CodeOf(i - 1, n)
  <1>1. d >= 0 /\ ExactBases(d) # {}
    BY DEF S5TimeEncodes
  <1>2. i \in ExactBases(d) /\ i \in 1..4
    BY <1>1, FinestBase
  <1>3. S5TimeRaw(d) = raw
    BY DEF S5TimeRaw, CodeOf
  <1> HIDE DEF i
  <1>4. n \in Nat /\ n <= 999 /\ d = n * Bases[i]
    BY <1>1, <1>2, ExactBasesOf
  <1> HIDE DEF n
  <1>5. i - 1 \in Nibble
    BY <1>2 DEF Nibble
  <1> HIDE DEF raw
  <1>6. /\ raw \in Nat /\ raw <= MaxWord /\ raw < ((i - 1) + 1) * 4096
        /\ raw \div 4096 = i - 1 /\ ~BCDError(raw) /\ FromBCD(raw) = n
    BY <1>4, <1>5, BCDOfNumber DEF raw
  <1>7. raw \div 16384 = 0 /\ ((raw \div 4096) % 4) + 1 = i /\ raw < i * 4096
    BY <1>2, <1>6
  <1>8. S5TimeDecodes(raw) /\ S5Time(raw) = d
    BY <1>4, <1>6, <1>7 DEF S5TimeDecodes, S5Time
  <1> QED BY <1>3, <1>6, <1>7, <1>8 DEF i

\* A legal word stands for a duration that can be encoded again, in a word that
\* is not larger.
LEMMA S5TimeWordSurvives ==
    ASSUME NEW raw \in Nat, raw <= MaxWord, S5TimeDecodes(raw)
    PROVE  /\ S5Time(raw) \in Int /\ S5TimeEncodes(S5Time(raw))
           /\ S5TimeRaw(S5Time(raw)) <= raw
  <1> DEFINE c == raw \div 4096
             i == c + 1
             n == FromBCD(raw)
             d == S5Time(raw)
  <1>1. ~BCDError(raw) /\ raw \div 16384 = 0
    BY DEF S5TimeDecodes
  <1>2. n \in Nat /\ n <= 999 /\ raw = CodeOf(c, n)
    BY <1>1, NumberOfBCD DEF CodeOf
  <1>3. c \in 0..3 /\ c % 4 = c /\ c * 4096 <= raw
    BY <1>1
  <1>4. d = n * Bases[i]
    BY <1>3 DEF S5Time
  <1> HIDE DEF c, n, d
  <1>5. i \in 1..4 /\ Bases[i] \in Nat
    BY <1>3, BaseValues
  <1>6. d \in Int /\ d >= 0
    <2>1. n * Bases[i] \in Nat
      <3> DEFINE b == Bases[i]
      <3>1. b \in Nat
        BY <1>5
      <3> HIDE DEF b
      <3>2. n * b \in Nat
        BY <1>2, <3>1
      <3> QED BY <3>2 DEF b
    <2> QED BY <1>4, <2>1
  <1>7. i \in ExactBases(d) /\ d \div Bases[i] = n
    BY <1>2, <1>4, <1>5, <1>6, ExactBasesOf
  <1>8. S5TimeEncodes(d)
    BY <1>6, <1>7 DEF S5TimeEncodes
  <1> DEFINE m == Min(ExactBases(d))
  <1>9. m \in 1..4 /\ m <= i
    BY <1>6, <1>7, FinestBase
  <1>10. S5TimeRaw(d) = CodeOf(m - 1, d \div Bases[m])
    BY DEF S5TimeRaw, CodeOf
  <1>11. S5TimeRaw(d) < m * 4096 /\ S5TimeRaw(d) \in Nat
    BY <1>6, <1>8, S5TimeSurvives
  <1> HIDE DEF m
  <1>12. CASE m = i
    <2>1. m - 1 = c
      BY <1>12, <1>3
    <2> QED BY <1>2, <1>6, <1>7, <1>8, <1>10, <1>12, <2>1 DEF d
  <1>13. CASE m < i
    <2>1. m * 4096 <= c * 4096
      BY <1>3, <1>9, <1>13
    <2>2. S5TimeRaw(d) <= raw
      BY <1>3, <1>9, <1>11, <2>1
    <2> QED BY <1>6, <1>8, <2>2 DEF d
  <1> QED BY <1>5, <1>9, <1>12, <1>13

\* The durations that can be encoded are the ones some word stands for.
LEMMA RepresentableDurations ==
    ASSUME NEW d \in Int
    PROVE  S5TimeEncodes(d) <=> d \in Representable
  <1>1. ASSUME S5TimeEncodes(d) PROVE d \in Representable
    <2> DEFINE raw == S5TimeRaw(d)
    <2>1. raw \in Nat /\ raw <= MaxWord /\ S5TimeDecodes(raw) /\ S5Time(raw) = d
      BY <1>1, S5TimeSurvives
    <2> HIDE DEF raw
    <2>2. MaxWord \in Nat
      BY DEF MaxWord
    <2>3. raw \in 0..MaxWord
      BY <2>1, <2>2
    <2> QED BY <2>1, <2>3 DEF Representable
  <1>2. ASSUME d \in Representable PROVE S5TimeEncodes(d)
    <2>1. PICK raw \in 0..MaxWord : S5TimeDecodes(raw) /\ d = S5Time(raw)
      BY <1>2 DEF Representable
    <2>2. MaxWord \in Nat
      BY DEF MaxWord
    <2>3. raw \in Nat /\ raw <= MaxWord
      BY <2>2
    <2> QED BY <2>1, <2>3, S5TimeWordSurvives
  <1> QED BY <1>1, <1>2

-----------------------------------------------------------------------------
\* Strings

StringIn(old, capacity, value, clear) ==
    [k \in DOMAIN old |->
        IF k = 1 THEN capacity ELSE IF k = 2 THEN Len(value)
        ELSE IF k - 2 <= Len(value) THEN value[k - 2]
        ELSE IF clear THEN 0 ELSE old[k]]

LEMMA StringSurvives ==
    ASSUME NEW old \in Seq(Byte), NEW capacity \in Byte, NEW value \in Seq(Byte),
           NEW clear \in BOOLEAN,
           capacity <= 254, Len(old) = 2 + capacity, Len(value) <= capacity
    PROVE  LET data == StringIn(old, capacity, value, clear)
           IN /\ data \in Seq(Byte) /\ ~StringError(data) /\ StringValue(data) = value
              /\ \A k \in (3 + Len(value))..Len(data) : data[k] = IF clear THEN 0 ELSE old[k]
  <1> DEFINE n == Len(value)
             data == StringIn(old, capacity, value, clear)
  <1>1. capacity \in Nat /\ n \in Nat
    BY BytesAreNumbers
  <1>2. DOMAIN old = 1..(2 + capacity)
    OBVIOUS
  <1>3. Len(data) = 2 + capacity
    BY <1>1, <1>2 DEF StringIn
  <1>4. data[1] = capacity /\ data[2] = n
    <2>1. 1 \in 1..(2 + capacity) /\ 2 \in 1..(2 + capacity)
      BY <1>1
    <2> QED BY <1>2, <2>1 DEF StringIn
  <1>5. \A k \in 1..n : data[2 + k] = value[k]
    <2> TAKE k \in 1..n
    <2>1. 2 + k \in 1..(2 + capacity) /\ 2 + k # 1 /\ 2 + k # 2 /\ (2 + k) - 2 = k /\ k <= n
      BY <1>1
    <2> QED BY <1>2, <2>1 DEF StringIn
  <1>6. \A k \in (3 + n)..(2 + capacity) : data[k] = IF clear THEN 0 ELSE old[k]
    <2> TAKE k \in (3 + n)..(2 + capacity)
    <2>1. k \in 1..(2 + capacity) /\ k # 1 /\ k # 2 /\ ~(k - 2 <= n)
      BY <1>1
    <2> QED BY <1>2, <2>1 DEF StringIn
  <1> HIDE DEF n
  <1>0. data \in Seq(Byte)
    <2>1. 0 \in Byte /\ n \in Byte
      <3>1. n <= 255 /\ n \in Nat
        BY <1>1 DEF n
      <3> QED BY <3>1, BytesAreNumbers
    <2>2. ASSUME NEW k \in 1..(2 + capacity) PROVE data[k] \in Byte
      <3>1. CASE k <= 2
        BY <1>1, <1>4, <2>1, <3>1
      <3>2. CASE k > 2 /\ k <= 2 + n
        <4>1. k - 2 \in 1..n /\ 2 + (k - 2) = k
          BY <1>1, <3>2
        <4>2. data[k] = value[k - 2] /\ value[k - 2] \in Byte
          BY <1>5, <4>1 DEF n
        <4> QED BY <4>2
      <3>3. CASE k > 2 + n
        <4>1. k \in (3 + n)..(2 + capacity) /\ old[k] \in Byte
          BY <1>1, <3>3
        <4> QED BY <1>6, <2>1, <4>1
      <3> QED BY <1>1, <3>1, <3>2, <3>3
    <2>3. data = [k \in 1..(2 + capacity) |-> data[k]] /\ 2 + capacity \in Nat
      BY <1>1, <1>2 DEF StringIn
    <2> HIDE DEF data
    <2>4. data \in [1..(2 + capacity) -> Byte]
      BY <2>2, <2>3
    <2> QED BY <2>3, <2>4, SMTT(30)
  <1> HIDE DEF data
  <1>7. ~StringError(data)
    BY <1>1, <1>3, <1>4 DEF StringError, n
  <1>8. StringValue(data) = value
    <2>1. StringValue(data) = SubSeq(data, 3, 2 + n)
      BY <1>4 DEF StringValue
    <2> DEFINE sub == SubSeq(data, 3, 2 + n)
               e == 2 + n
    <2>2. 3 \in Int /\ e \in Int /\ e - 3 + 1 = n /\ \A k \in 3..e : data[k] \in Byte
      BY <1>0, <1>1, <1>3 DEF n
    <2> HIDE DEF e
    <2>3. /\ SubSeq(data, 3, e) \in Seq(Byte)
          /\ Len(SubSeq(data, 3, e)) = IF 3 <= e THEN e - 3 + 1 ELSE 0
          /\ \A k \in 1..(e - 3 + 1) : SubSeq(data, 3, e)[k] = data[3 + k - 1]
      BY <2>2, SubSeqProperties
    <2>4. sub \in Seq(Byte) /\ Len(sub) = n
      BY <1>1, <2>2, <2>3 DEF e
    <2>5. \A k \in 1..n : sub[k] = data[2 + k]
      <3> TAKE k \in 1..n
      <3>1. 3 + k - 1 = 2 + k
        BY <1>1
      <3> QED BY <2>2, <2>3, <3>1 DEF e
    <2> HIDE DEF sub
    <2>6. \A k \in 1..n : sub[k] = value[k]
      BY <1>5, <2>5
    <2>7. sub = value
      BY <2>4, <2>6 DEF n
    <2> QED BY <2>1, <2>7 DEF sub
  <1> QED BY <1>0, <1>3, <1>6, <1>7, <1>8 DEF n, data

\* Only a bit and its neighbours share a byte.
WithBit(old, offset, v) == [old EXCEPT ![(offset \div 8) + 1] = SetBitIn(@, offset % 8, v)]

LEMMA BitSurvives ==
    ASSUME NEW old \in Seq(Byte), NEW offset \in Nat, NEW v \in 0..1,
           (offset \div 8) + 1 <= Len(old)
    PROVE  LET data == WithBit(old, offset, v)
           IN /\ data \in Seq(Byte) /\ Len(data) = Len(old) /\ Bit(data, offset) = v
              /\ \A n \in 0..(8 * Len(data) - 1) : n # offset => Bit(data, n) = Bit(old, n)
  <1> DEFINE data == WithBit(old, offset, v)
             i == (offset \div 8) + 1
             k == offset % 8
             x == old[i]
             y == SetBitIn(x, k, v)
  <1>1. i \in 1..Len(old) /\ k \in 0..7 /\ offset = 8 * (i - 1) + k
    OBVIOUS
  <1>2. x \in Byte
    BY <1>1
  <1>3. /\ y \in Byte /\ BitOf(y, k) = v
        /\ \A j \in 0..7 : j # k => BitOf(y, j) = BitOf(x, j)
    <2> HIDE DEF x, k
    <2> QED BY <1>1, <1>2, SetBitInByte
  <1> HIDE DEF y
  <1>4. data = [old EXCEPT ![i] = y]
    BY DEF y, WithBit
  <1> HIDE DEF data
  <1>5. data \in Seq(Byte) /\ Len(data) = Len(old)
    <2> HIDE DEF i
    <2> QED BY <1>1, <1>3, <1>4
  <1>6. data[i] = y /\ \A j \in 1..Len(old) : j # i => data[j] = old[j]
    <2> HIDE DEF i
    <2> QED BY <1>1, <1>4
  <1>7. Bit(data, offset) = v
    BY <1>3, <1>6 DEF Bit
  <1>8. ASSUME NEW n \in 0..(8 * Len(data) - 1), n # offset
        PROVE  Bit(data, n) = Bit(old, n)
    <2> DEFINE a == (n \div 8) + 1
               b == n % 8
    <2>1. Len(old) \in Nat
      OBVIOUS
    <2>2. a \in 1..Len(old) /\ b \in 0..7 /\ n = 8 * (a - 1) + b
      BY <1>5, <2>1
    <2>3. Bit(data, n) = BitOf(data[a], b) /\ Bit(old, n) = BitOf(old[a], b)
      BY DEF Bit
    <2> HIDE DEF a, b, i, k
    <2>4. CASE a = i
      <3>1. b # k
        BY <1>1, <1>8, <2>2, <2>4
      <3> QED BY <1>3, <1>6, <2>2, <2>3, <2>4, <3>1
    <2>5. CASE a # i
      BY <1>6, <2>2, <2>3, <2>5
    <2> QED BY <2>4, <2>5
  <1> QED BY <1>5, <1>7, <1>8 DEF data

-----------------------------------------------------------------------------
\* The machine

\* What every step needs of the state it starts from.
CodecInv == buffer \in Seq(Byte) /\ BufferHoldsValue /\ TimersAreExact

\* Whatever two bytes the buffer holds, the decoders and encoders agree on them.
LEMMA WordsAreExact ==
    ASSUME NEW word \in Nat, word <= MaxWord
    PROVE  /\ S5TimeDecodes(word) =>
                /\ S5TimeEncodes(S5Time(word))
                /\ S5TimeRaw(S5Time(word)) <= word
                /\ S5Time(S5TimeRaw(S5Time(word))) = S5Time(word)
           /\ CounterDecodes(word) =>
                CounterEncodes(FromBCD(word)) /\ ToBCD(FromBCD(word)) = word
  <1>1. ASSUME S5TimeDecodes(word)
        PROVE  /\ S5TimeEncodes(S5Time(word))
               /\ S5TimeRaw(S5Time(word)) <= word
               /\ S5Time(S5TimeRaw(S5Time(word))) = S5Time(word)
    <2>1. /\ S5Time(word) \in Int /\ S5TimeEncodes(S5Time(word))
          /\ S5TimeRaw(S5Time(word)) <= word
      BY <1>1, S5TimeWordSurvives
    <2>2. S5Time(S5TimeRaw(S5Time(word))) = S5Time(word)
      BY <2>1, S5TimeSurvives
    <2> QED BY <2>1, <2>2
  <1> QED BY <1>1, CounterWordSurvives

WordIn(data) == IF Len(data) = 2 THEN data[1] * 256 + data[2] ELSE 65535

LEMMA WordTyped ==
    ASSUME NEW data \in Seq(Byte)
    PROVE  WordIn(data) \in Nat /\ WordIn(data) <= MaxWord
  <1>1. CASE Len(data) = 2
    <2>1. data[1] \in Byte /\ data[2] \in Byte
      BY <1>1
    <2>2. data[1] \in Nat /\ data[1] <= 255 /\ data[2] \in Nat /\ data[2] <= 255
      BY <2>1, BytesAreNumbers
    <2> QED BY <1>1, <2>2 DEF WordIn, MaxWord
  <1>2. CASE Len(data) # 2
    BY <1>2 DEF WordIn, MaxWord
  <1> QED BY <1>1, <1>2

\* PutUint16 followed by Uint16.
LEMMA WordSurvives ==
    ASSUME NEW raw \in Nat, raw <= MaxWord
    PROVE  PutBytes(2, raw) \in Seq(Byte) /\ WordIn(PutBytes(2, raw)) = raw
  <1> DEFINE data == PutBytes(2, raw)
             s == Shifted(2, raw)
  <1>0. 2 \in Nat /\ raw \in Int
    OBVIOUS
  <1>1. data \in Seq(Byte) /\ Len(data) = 2
    BY <1>0, PutBytesAreBytes, Zenon
  <1>2. s[0] = raw /\ s[1] = raw \div 256
    <2>1. s[0] = raw /\ \A k \in 1..2 : s[k] = s[k - 1] \div 256
      BY ShiftedStep
    <2> QED BY <2>1
  <1>3. data[1] = s[1] % 256 /\ data[2] = s[0] % 256
    BY DEF PutBytes
  <1> HIDE DEF data, s
  <1>4. data[1] = (raw \div 256) % 256 /\ data[2] = raw % 256
    BY <1>2, <1>3
  <1>5. (raw \div 256) % 256 = raw \div 256 /\ (raw \div 256) * 256 + (raw % 256) = raw
    BY DEF MaxWord
  <1> QED BY <1>1, <1>4, <1>5 DEF WordIn, data

\* The conjuncts of the properties that an operation of another kind leaves empty.
LEMMA TimersOfOthers ==
    ASSUME buffer' \in Seq(Byte), last'[1] # "s5time", last'[1] # "counter"
    PROVE  TimersAreExact'
  <1>1. Word' = WordIn(buffer')
    BY DEF Word, WordIn
  <1>2. Word' \in Nat /\ Word' <= MaxWord
    BY <1>1, WordTyped
  <1> DEFINE word == Word'
  <1> HIDE DEF word
  <1>3. /\ S5TimeDecodes(word) =>
             /\ S5TimeEncodes(S5Time(word))
             /\ S5TimeRaw(S5Time(word)) <= word
             /\ S5Time(S5TimeRaw(S5Time(word))) = S5Time(word)
        /\ CounterDecodes(word) =>
             CounterEncodes(FromBCD(word)) /\ ToBCD(FromBCD(word)) = word
    BY <1>2, WordsAreExact DEF word
  <1> QED BY <1>3 DEF TimersAreExact, word

\* A byte that Bool takes is one that PutBool writes.
LEMMA BoolsAreWritten == \A data \in Seq(Byte) : ~BoolError(data) => data \in {<<0>>, <<1>>}
  <1> SUFFICES ASSUME NEW data \in Seq(Byte), Len(data) = 1, ~(data[1] > 1)
               PROVE  data \in {<<0>>, <<1>>}
    BY DEF BoolError
  <1>1. data[1] \in Byte
    OBVIOUS
  <1>2. data[1] \in Nat
    BY <1>1, BytesAreNumbers
  <1>3. data[1] = 0 \/ data[1] = 1
    BY <1>2
  <1> QED BY <1>3

LEMMA PutIntKeeps ==
    ASSUME CodecAssumption, CodecInv, PutInt
    PROVE  CodecInv'
  <1>1. PICK p \in Values :
          Apply(<<"int", p[1], p[2]>>, Len(buffer) = p[1], PutBytes(p[1], p[2]))
    BY DEF PutInt
  <1> DEFINE w == p[1]
             v == p[2]
  <1>2. w \in Nat \ {0} /\ v \in Int /\ Shifted(w, v)[w - 1] \in -128..127
    BY DEF CodecAssumption
  <1> HIDE DEF w, v
  <1>3. /\ last' = <<"int", w, v>> /\ ok' = (Len(buffer) = w) /\ before' = buffer
        /\ buffer' = IF Len(buffer) = w THEN PutBytes(w, v) ELSE buffer
    BY <1>1 DEF Apply, w, v
  <1>4. last'[1] = "int" /\ last'[2] = w /\ last'[3] = v
    BY <1>3
  <1>5. PutBytes(w, v) \in Seq(Byte) /\ Len(PutBytes(w, v)) = w /\ IntOf(PutBytes(w, v)) = v
    BY <1>2, PutBytesAreBytes, IntSurvives
  <1>6. buffer' \in Seq(Byte)
    BY <1>3, <1>5 DEF CodecInv
  <1>7. TimersAreExact'
    BY <1>4, <1>6, TimersOfOthers
  <1>8. ~ok' => buffer' = before'
    BY <1>3
  <1>9. ok' => Len(buffer') = last'[2] /\ IntOf(buffer') = last'[3]
    BY <1>3, <1>4, <1>5
  <1>10. BufferHoldsValue'
    BY <1>4, <1>6, <1>8, <1>9, BoolsAreWritten DEF BufferHoldsValue
  <1> QED BY <1>6, <1>7, <1>10 DEF CodecInv

LEMMA PutUintKeeps ==
    ASSUME CodecAssumption, CodecInv, PutUint
    PROVE  CodecInv'
  <1>1. PICK p \in Unsigned :
          Apply(<<"uint", p[1], p[2]>>, Len(buffer) = p[1], PutBytes(p[1], p[2]))
    BY DEF PutUint
  <1> DEFINE w == p[1]
             v == p[2]
  <1>2. w \in Nat \ {0} /\ v \in Int /\ Shifted(w, v)[w - 1] \in Byte
    BY DEF CodecAssumption
  <1> HIDE DEF w, v
  <1>3. /\ last' = <<"uint", w, v>> /\ ok' = (Len(buffer) = w) /\ before' = buffer
        /\ buffer' = IF Len(buffer) = w THEN PutBytes(w, v) ELSE buffer
    BY <1>1 DEF Apply, w, v
  <1>4. last'[1] = "uint" /\ last'[2] = w /\ last'[3] = v
    BY <1>3
  <1>5. PutBytes(w, v) \in Seq(Byte) /\ Len(PutBytes(w, v)) = w /\ UintOf(PutBytes(w, v)) = v
    BY <1>2, PutBytesAreBytes, UintSurvives
  <1>6. buffer' \in Seq(Byte)
    BY <1>3, <1>5 DEF CodecInv
  <1>7. TimersAreExact'
    BY <1>4, <1>6, TimersOfOthers
  <1>8. ~ok' => buffer' = before'
    BY <1>3
  <1>9. ok' => Len(buffer') = last'[2] /\ UintOf(buffer') = last'[3]
    BY <1>3, <1>4, <1>5
  <1>10. BufferHoldsValue'
    BY <1>4, <1>6, <1>8, <1>9, BoolsAreWritten DEF BufferHoldsValue
  <1> QED BY <1>6, <1>7, <1>10 DEF CodecInv

LEMMA PutBoolKeeps ==
    ASSUME CodecInv, PutBool
    PROVE  CodecInv'
  <1>1. PICK b \in {0, 1} : Apply(<<"bool", b>>, Len(buffer) = 1, <<b>>)
    BY DEF PutBool
  <1>2. /\ last' = <<"bool", b>> /\ ok' = (Len(buffer) = 1) /\ before' = buffer
        /\ buffer' = IF Len(buffer) = 1 THEN <<b>> ELSE buffer
    BY <1>1 DEF Apply
  <1>3. last'[1] = "bool" /\ last'[2] = b
    BY <1>2
  <1>4. b \in Byte
    BY DEF Byte
  <1>5. buffer' \in Seq(Byte)
    BY <1>2, <1>4 DEF CodecInv
  <1>6. TimersAreExact'
    BY <1>3, <1>5, TimersOfOthers
  <1>7. (~ok' => buffer' = before') /\ (ok' => buffer' = <<b>>)
    BY <1>2
  <1>8. ok' => ~BoolError(buffer') /\ buffer'[1] = b
    <2>1. Len(<<b>>) = 1 /\ <<b>>[1] = b /\ ~(b > 1)
      OBVIOUS
    <2> QED BY <1>7, <2>1, Zenon DEF BoolError
  <1>9. BufferHoldsValue'
    BY <1>3, <1>5, <1>7, <1>8, BoolsAreWritten DEF BufferHoldsValue
  <1> QED BY <1>5, <1>6, <1>9 DEF CodecInv

LEMMA SetBitKeeps ==
    ASSUME CodecAssumption, CodecInv, SetBit
    PROVE  CodecInv'
  <1>1. PICK offset \in BitOffsets, value \in {0, 1} :
          Apply(<<"bit", offset, value>>, (offset \div 8) + 1 <= Len(buffer),
                [buffer EXCEPT ![(offset \div 8) + 1] = SetBitIn(@, offset % 8, value)])
    BY DEF SetBit
  <1> DEFINE inside == (offset \div 8) + 1 <= Len(buffer)
             data == WithBit(buffer, offset, value)
  <1>2. /\ last' = <<"bit", offset, value>> /\ ok' = inside /\ before' = buffer
        /\ buffer' = IF inside THEN data ELSE buffer
    BY <1>1 DEF Apply, WithBit
  <1>3. last'[1] = "bit" /\ last'[2] = offset /\ last'[3] = value
    BY <1>2
  <1>4. offset \in Nat /\ value \in 0..1 /\ buffer \in Seq(Byte)
    BY DEF CodecAssumption, CodecInv
  <1>5. inside =>
          /\ data \in Seq(Byte) /\ Bit(data, offset) = value
          /\ \A n \in 0..(8 * Len(data) - 1) : n # offset => Bit(data, n) = Bit(buffer, n)
    BY <1>4, BitSurvives
  <1> HIDE DEF inside, data
  <1>6. buffer' \in Seq(Byte)
    BY <1>2, <1>4, <1>5
  <1>7. TimersAreExact'
    BY <1>3, <1>6, TimersOfOthers
  <1>8. ~ok' => buffer' = before'
    BY <1>2
  <1>9. ok' => /\ Bit(buffer', last'[2]) = last'[3]
               /\ \A n \in 0..(8 * Len(buffer') - 1) :
                    n # last'[2] => Bit(buffer', n) = Bit(before', n)
    BY <1>2, <1>3, <1>5
  <1>10. BufferHoldsValue'
    BY <1>3, <1>6, <1>8, <1>9, BoolsAreWritten DEF BufferHoldsValue
  <1> QED BY <1>6, <1>7, <1>10 DEF CodecInv

LEMMA EncodeClassicStringKeeps ==
    ASSUME CodecAssumption, CodecInv, EncodeClassicString
    PROVE  CodecInv'
  <1>1. PICK p \in Strings :
          Apply(<<"string", p[1], p[2], p[3]>>,
                p[1] <= 254 /\ Len(buffer) = 2 + p[1] /\ Len(p[2]) <= p[1],
                EncodeString(p[1], p[2], p[3]))
    BY DEF EncodeClassicString
  <1> DEFINE capacity == p[1]
             value == p[2]
             clear == p[3]
             fits == capacity <= 254 /\ Len(buffer) = 2 + capacity /\ Len(value) <= capacity
             data == EncodeString(capacity, value, clear)
  <1>2. capacity \in Byte /\ value \in Seq(Byte) /\ clear \in BOOLEAN /\ buffer \in Seq(Byte)
    BY DEF CodecAssumption, CodecInv
  <1>3. /\ last' = <<"string", capacity, value, clear>> /\ ok' = fits /\ before' = buffer
        /\ buffer' = IF fits THEN data ELSE buffer
    BY <1>1 DEF Apply
  <1> HIDE DEF capacity, value, clear
  <1>4. last'[1] = "string" /\ last'[3] = value /\ last'[4] = clear
    BY <1>3
  <1>5. ASSUME fits
        PROVE  /\ data \in Seq(Byte) /\ ~StringError(data) /\ StringValue(data) = value
               /\ \A k \in (3 + Len(value))..Len(data) : data[k] = IF clear THEN 0 ELSE buffer[k]
    <2>1. data = StringIn(buffer, capacity, value, clear)
      BY DEF EncodeString, StringIn
    <2> HIDE DEF data
    <2> QED BY <1>2, <1>5, <2>1, StringSurvives
  <1> HIDE DEF data, fits
  <1>6. buffer' \in Seq(Byte)
    BY <1>2, <1>3, <1>5
  <1>7. TimersAreExact'
    BY <1>4, <1>6, TimersOfOthers
  <1>8. ~ok' => buffer' = before'
    BY <1>3
  <1>9. ok' => /\ ~StringError(buffer') /\ StringValue(buffer') = last'[3]
               /\ \A k \in (3 + Len(last'[3]))..Len(buffer') :
                    buffer'[k] = IF last'[4] THEN 0 ELSE before'[k]
    BY <1>3, <1>4, <1>5
  <1>10. BufferHoldsValue'
    BY <1>4, <1>6, <1>8, <1>9, BoolsAreWritten DEF BufferHoldsValue
  <1> QED BY <1>6, <1>7, <1>10 DEF CodecInv

LEMMA EncodeS5TimeKeeps ==
    ASSUME CodecAssumption, CodecInv, EncodeS5Time
    PROVE  CodecInv'
  <1>1. PICK d \in Durations :
          Apply(<<"s5time", d>>, S5TimeEncodes(d) /\ Len(buffer) = 2, PutBytes(2, S5TimeRaw(d)))
    BY DEF EncodeS5Time
  <1> DEFINE fits == S5TimeEncodes(d) /\ Len(buffer) = 2
             raw == S5TimeRaw(d)
  <1>2. /\ last' = <<"s5time", d>> /\ ok' = fits /\ before' = buffer
        /\ buffer' = IF fits THEN PutBytes(2, raw) ELSE buffer
    BY <1>1 DEF Apply
  <1>3. last'[1] = "s5time" /\ last'[2] = d
    BY <1>2
  <1>4. d \in Int /\ buffer \in Seq(Byte)
    BY DEF CodecAssumption, CodecInv
  <1>5. fits => raw \in Nat /\ raw <= MaxWord /\ S5TimeDecodes(raw) /\ S5Time(raw) = d
    BY <1>4, S5TimeSurvives
  <1>6. fits <=> d \in Representable /\ Len(buffer) = 2
    BY <1>4, RepresentableDurations
  <1> HIDE DEF fits, raw
  <1>7. fits => PutBytes(2, raw) \in Seq(Byte) /\ WordIn(PutBytes(2, raw)) = raw
    BY <1>5, WordSurvives
  <1>8. buffer' \in Seq(Byte)
    BY <1>2, <1>4, <1>7
  <1> DEFINE word == Word'
  <1>9. word = WordIn(buffer')
    BY DEF Word, WordIn
  <1>10. word \in Nat /\ word <= MaxWord
    BY <1>8, <1>9, WordTyped
  <1>11. fits => word = raw
    BY <1>2, <1>7, <1>9
  <1> HIDE DEF word
  <1>12. /\ S5TimeDecodes(word) =>
              /\ S5TimeEncodes(S5Time(word))
              /\ S5TimeRaw(S5Time(word)) <= word
              /\ S5Time(S5TimeRaw(S5Time(word))) = S5Time(word)
         /\ CounterDecodes(word) =>
              CounterEncodes(FromBCD(word)) /\ ToBCD(FromBCD(word)) = word
    BY <1>10, WordsAreExact
  <1>13. ok' <=> last'[2] \in Representable /\ Len(before') = 2
    BY <1>2, <1>3, <1>6
  <1>14. ok' => S5TimeDecodes(word) /\ S5Time(word) = last'[2]
    BY <1>2, <1>3, <1>5, <1>11
  <1>15. TimersAreExact'
    BY <1>3, <1>12, <1>13, <1>14 DEF TimersAreExact, word, Representable
  <1>16. ~ok' => buffer' = before'
    BY <1>2
  <1>17. BufferHoldsValue'
    BY <1>3, <1>8, <1>16, BoolsAreWritten DEF BufferHoldsValue
  <1> QED BY <1>8, <1>15, <1>17 DEF CodecInv

LEMMA EncodeCounterKeeps ==
    ASSUME CodecAssumption, CodecInv, EncodeCounter
    PROVE  CodecInv'
  <1>1. PICK n \in Counts :
          Apply(<<"counter", n>>, CounterEncodes(n) /\ Len(buffer) = 2, PutBytes(2, ToBCD(n)))
    BY DEF EncodeCounter
  <1> DEFINE fits == CounterEncodes(n) /\ Len(buffer) = 2
             raw == ToBCD(n)
  <1>2. /\ last' = <<"counter", n>> /\ ok' = fits /\ before' = buffer
        /\ buffer' = IF fits THEN PutBytes(2, raw) ELSE buffer
    BY <1>1 DEF Apply
  <1>3. last'[1] = "counter" /\ last'[2] = n
    BY <1>2
  <1>4. n \in Int /\ buffer \in Seq(Byte)
    BY DEF CodecAssumption, CodecInv
  <1>5. fits => raw \in Nat /\ raw <= MaxWord /\ CounterDecodes(raw) /\ FromBCD(raw) = n
    BY <1>4, CounterSurvives
  <1> HIDE DEF fits, raw
  <1>6. fits => PutBytes(2, raw) \in Seq(Byte) /\ WordIn(PutBytes(2, raw)) = raw
    BY <1>5, WordSurvives
  <1>7. buffer' \in Seq(Byte)
    BY <1>2, <1>4, <1>6
  <1> DEFINE word == Word'
  <1>8. word = WordIn(buffer')
    BY DEF Word, WordIn
  <1>9. word \in Nat /\ word <= MaxWord
    BY <1>7, <1>8, WordTyped
  <1>10. fits => word = raw
    BY <1>2, <1>6, <1>8
  <1> HIDE DEF word
  <1>11. /\ S5TimeDecodes(word) =>
              /\ S5TimeEncodes(S5Time(word))
              /\ S5TimeRaw(S5Time(word)) <= word
              /\ S5Time(S5TimeRaw(S5Time(word))) = S5Time(word)
         /\ CounterDecodes(word) =>
              CounterEncodes(FromBCD(word)) /\ ToBCD(FromBCD(word)) = word
    BY <1>9, WordsAreExact
  <1>12. ok' => CounterDecodes(word) /\ FromBCD(word) = last'[2]
    BY <1>2, <1>3, <1>5, <1>10
  <1>13. TimersAreExact'
    BY <1>3, <1>11, <1>12 DEF TimersAreExact, word
  <1>14. ~ok' => buffer' = before'
    BY <1>2
  <1>15. BufferHoldsValue'
    BY <1>3, <1>7, <1>14, BoolsAreWritten DEF BufferHoldsValue
  <1> QED BY <1>7, <1>13, <1>15 DEF CodecInv

\* The buffers the caller starts with, before any operation.
LEMMA CodecInitially ==
    ASSUME CodecAssumption, Init
    PROVE  CodecInv
  <1>1. buffer \in Seq(Byte) /\ last = <<"none">> /\ ok
    BY DEF Init, CodecAssumption
  <1>2. last[1] = "none"
    BY <1>1
  <1>3. Word = WordIn(buffer)
    BY DEF Word, WordIn
  <1>4. Word \in Nat /\ Word <= MaxWord
    BY <1>1, <1>3, WordTyped
  <1> DEFINE word == Word
  <1> HIDE DEF word
  <1>5. /\ S5TimeDecodes(word) =>
             /\ S5TimeEncodes(S5Time(word))
             /\ S5TimeRaw(S5Time(word)) <= word
             /\ S5Time(S5TimeRaw(S5Time(word))) = S5Time(word)
        /\ CounterDecodes(word) =>
             CounterEncodes(FromBCD(word)) /\ ToBCD(FromBCD(word)) = word
    BY <1>4, WordsAreExact DEF word
  <1>6. TimersAreExact
    BY <1>2, <1>5 DEF TimersAreExact, word
  <1>7. BufferHoldsValue
    BY <1>1, <1>2, BoolsAreWritten DEF BufferHoldsValue
  <1> QED BY <1>1, <1>6, <1>7 DEF CodecInv

\* After any number of operations on the same buffer, of any kind, the buffer and
\* the timer and counter words in it are as the last operation promises.
THEOREM CodecIsSound == Spec => []CodecInv
  <1>1. Init => CodecInv
    BY CodecAssumption, CodecInitially
  <1>2. CodecInv /\ [Next]_vars => CodecInv'
    <2> SUFFICES ASSUME CodecInv, [Next]_vars PROVE CodecInv'
      BY Zenon
    <2>1. CASE Next
      BY <2>1, CodecAssumption, PutIntKeeps, PutUintKeeps, PutBoolKeeps, SetBitKeeps,
         EncodeClassicStringKeeps, EncodeS5TimeKeeps, EncodeCounterKeeps DEF Next
    <2>2. CASE UNCHANGED vars
      <3>1. /\ buffer' = buffer /\ before' = before /\ last' = last /\ ok' = ok
        BY <2>2 DEF vars
      <3>2. BufferHoldsValue'
        BY <3>1 DEF CodecInv, BufferHoldsValue
      <3>3. TimersAreExact'
        BY <3>1 DEF CodecInv, TimersAreExact, Word, Representable
      <3> QED BY <3>1, <3>2, <3>3 DEF CodecInv
    <2> QED BY <2>1, <2>2
  <1> QED BY <1>1, <1>2, PTL DEF Spec

\* Whatever the caller's buffer held, PutInt8 ... PutFloat64, PutBool, SetBit and
\* EncodeClassicString leave in it the value that the decoder returns and nothing
\* else, and change nothing when they fail.
THEOREM CodecHoldsValue == Spec => []BufferHoldsValue
  <1>1. CodecInv => BufferHoldsValue
    BY DEF CodecInv
  <1> QED BY <1>1, CodecIsSound, PTL

\* EncodeS5Time and EncodeCounter succeed exactly for what a word can stand for and
\* invert the decoders, for every duration, count and word.
THEOREM CodecTimersAreExact == Spec => []TimersAreExact
  <1>1. CodecInv => TimersAreExact
    BY DEF CodecInv
  <1> QED BY <1>1, CodecIsSound, PTL
=============================================================================
