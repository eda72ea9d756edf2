---------------------------- MODULE PDUSizeProofs ----------------------------
(***************************************************************************)
(* The sizes of PDUSize for item lists of any length: the totals that      *)
(* nextWriteBatch and nextReadBatch of src/client.go keep while they add   *)
(* one item after another are the sizes that src/internal/protocol         *)
(* computes for the whole list.  The induction over the length is carried  *)
(* by sets: a set of naturals that is not empty has a least element.  At   *)
(* the end, the facts about bytes that CodecProofs and WireProofs share.   *)
(***************************************************************************)
EXTENDS PDUSize, Bytes, FiniteSetTheorems, TLAPS

\* A smallest interval 0..k with k in S ends in the least element of S.
LEMMA LeastNatural ==
    ASSUME NEW S \in SUBSET Nat, S # {}
    PROVE  \E m \in S : \A k \in S : m <= k
  <1> DEFINE T == {0..k : k \in S}
  <1>1. T \subseteq FiniteSubsetsOf(Nat) /\ T # {}
    <2>1. \A k \in Nat : IsFiniteSet(0..k)
      BY FS_Interval
    <2>2. \A k \in Nat : 0..k \in SUBSET Nat
      OBVIOUS
    <2>3. \A k \in S : 0..k \in FiniteSubsetsOf(Nat)
      BY <2>1, <2>2 DEF FiniteSubsetsOf
    <2> QED BY <2>3
  <1>2. PICK I \in T : \A J \in T : <<J, I>> \notin StrictSubsetOrdering(Nat)
    BY <1>1, FS_StrictSubsetOrderingWellFounded, WFMin
  <1>3. PICK m \in S : I = 0..m
    OBVIOUS
  <1>4. ASSUME NEW k \in S, k < m PROVE FALSE
    <2>1. m \in 0..m /\ m \notin 0..k
      BY <1>4
    <2>2. 0..k \subseteq 0..m /\ 0..k # 0..m
      BY <1>4, <2>1
    <2>3. 0..k \in SUBSET Nat /\ 0..m \in SUBSET Nat
      OBVIOUS
    <2>4. <<0..k, 0..m>> \in StrictSubsetOrdering(Nat)
      BY <2>2, <2>3 DEF StrictSubsetOrdering
    <2> QED BY <2>4, <1>2, <1>3
  <1> QED BY <1>4

\* Induction up to n, for a property given as a set.
LEMMA UpTo ==
    ASSUME NEW n \in Nat, NEW S, 0 \in S, \A k \in 1..n : k - 1 \in S => k \in S
    PROVE  \A k \in 0..n : k \in S
  <1> SUFFICES ASSUME NEW j \in 0..n, j \notin S PROVE FALSE
    OBVIOUS
  <1> DEFINE Bad == {k \in 0..n : k \notin S}
  <1>1. Bad \in SUBSET Nat /\ Bad # {}
    OBVIOUS
  <1> HIDE DEF Bad
  <1>2. PICK m \in Bad : \A k \in Bad : m <= k
    BY <1>1, LeastNatural
  <1>3. m \in 1..n /\ m - 1 \notin Bad /\ m - 1 \in 0..n
    BY <1>2 DEF Bad
  <1> QED BY <1>3 DEF Bad

\* t starts with a and computes every element from the one before it by F.
Unfolds(t, n, a, F) == \A k \in 0..n : t[k] = IF k = 0 THEN a ELSE F[<<k, t[k - 1]>>]

LEMMA Recursion ==
    ASSUME NEW n \in Nat, NEW V, NEW a \in V, NEW F \in [(1..n) \X V -> V]
    PROVE  \E t \in [0..n -> V] : Unfolds(t, n, a, F)
  <1> USE DEF Unfolds
  <1> DEFINE Follows(t, m) == Unfolds(t, m, a, F)
             S == {m \in 0..n : \E t \in [0..m -> V] : Follows(t, m)}
  <1>1. 0 \in S
    <2> DEFINE t == [k \in 0..0 |-> a]
    <2>1. t \in [0..0 -> V] /\ Follows(t, 0)
      OBVIOUS
    <2> HIDE DEF t
    <2>2. \E z \in [0..0 -> V] : Follows(z, 0)
      BY <2>1
    <2> HIDE DEF Follows
    <2> QED BY <2>2
  <1>2. ASSUME NEW m \in 1..n, m - 1 \in S PROVE m \in S
    <2>1. PICK t \in [0..(m - 1) -> V] : Follows(t, m - 1)
      BY <1>2
    <2> DEFINE next == F[<<m, t[m - 1]>>]
               u == [k \in 0..m |-> IF k = m THEN next ELSE t[k]]
    <2>2. t[m - 1] \in V
      OBVIOUS
    <2>3. <<m, t[m - 1]>> \in (1..n) \X V
      BY <2>2
    <2>4. next \in V
      BY <2>3
    <2>5. u \in [0..m -> V]
      BY <2>4
    <2>6. ASSUME NEW k \in 0..m PROVE u[k] = IF k = 0 THEN a ELSE F[<<k, u[k - 1]>>]
      <3>1. CASE k = m
        <4>1. u[k] = next /\ u[k - 1] = t[m - 1] /\ k # 0
          BY <3>1
        <4> QED BY <3>1, <4>1
      <3>2. CASE k # m
        <4>1. k \in 0..(m - 1) /\ u[k] = t[k]
          BY <3>2
        <4>2. k # 0 => u[k - 1] = t[k - 1]
          BY <3>2
        <4>3. t[k] = IF k = 0 THEN a ELSE F[<<k, t[k - 1]>>]
          BY <2>1, <4>1
        <4> QED BY <4>1, <4>2, <4>3
      <3> QED BY <3>1, <3>2
    <2> HIDE DEF u
    <2>7. m \in 0..n /\ Follows(u, m)
      BY <2>6
    <2> HIDE DEF Follows
    <2>8. \E z \in [0..m -> V] : Follows(z, m)
      BY <2>5, <2>7
    <2> QED BY <2>7, <2>8
  <1> HIDE DEF S
  <1>3. n \in S
    BY <1>1, <1>2, UpTo
  <1> QED BY <1>3 DEF S

-----------------------------------------------------------------------------
\* Totals

Numbers(s, n) == \A k \in 1..n : s[k] \in Int
AddsUp(s, n, t) == t = [k \in 0..n |-> IF k = 0 THEN 0 ELSE t[k - 1] + s[k]]

LEMMA TotalsExist ==
    ASSUME NEW n \in Nat, NEW s, Numbers(s, n)
    PROVE  \E t : AddsUp(s, n, t)
  <1> DEFINE S == {m \in 0..n : \E t \in [0..m -> Int] : AddsUp(s, m, t)}
  <1>1. 0 \in S
    <2> DEFINE t == [k \in 0..0 |-> 0]
    <2>1. t \in [0..0 -> Int] /\ AddsUp(s, 0, t)
      BY DEF AddsUp
    <2> QED BY <2>1
  <1>2. ASSUME NEW m \in 1..n, m - 1 \in S PROVE m \in S
    <2>1. PICK t \in [0..(m - 1) -> Int] : AddsUp(s, m - 1, t)
      BY <1>2
    <2> DEFINE u == [k \in 0..m |-> IF k = m THEN t[m - 1] + s[m] ELSE t[k]]
    <2>2. u \in [0..m -> Int]
      BY DEF Numbers
    <2>3. \A k \in 0..(m - 1) : t[k] = IF k = 0 THEN 0 ELSE t[k - 1] + s[k]
      BY <2>1 DEF AddsUp
    <2>4. \A k \in 0..m : u[k] = IF k = 0 THEN 0 ELSE u[k - 1] + s[k]
      BY <2>3
    <2>5. AddsUp(s, m, u)
      BY <2>4 DEF AddsUp
    <2> QED BY <2>2, <2>5
  <1> HIDE DEF S
  <1>3. n \in S
    BY <1>1, <1>2, UpTo
  <1> QED BY <1>3 DEF S

\* The loop starts at zero and adds one element at a time.
LEMMA TotalsAddUp ==
    ASSUME NEW n \in Nat, NEW s, Numbers(s, n)
    PROVE  AddsUp(s, n, Totals(s, n))
  <1>1. \E t : t = [k \in 0..n |-> IF k = 0 THEN 0 ELSE t[k - 1] + s[k]]
    BY TotalsExist DEF AddsUp
  <1>2. Totals(s, n) = [k \in 0..n |-> IF k = 0 THEN 0 ELSE Totals(s, n)[k - 1] + s[k]]
    BY <1>1 DEF Totals
  <1> QED BY <1>2 DEF AddsUp

LEMMA TotalsStep ==
    ASSUME NEW n \in Nat, NEW s, Numbers(s, n)
    PROVE  /\ Totals(s, n)[0] = 0
           /\ \A k \in 1..n : Totals(s, n)[k] = Totals(s, n)[k - 1] + s[k]
  <1> DEFINE t == Totals(s, n)
  <1>1. t = [k \in 0..n |-> IF k = 0 THEN 0 ELSE t[k - 1] + s[k]]
    BY TotalsAddUp DEF AddsUp
  <1> HIDE DEF t
  <1>2. t[0] = 0 /\ \A k \in 1..n : t[k] = t[k - 1] + s[k]
    BY <1>1
  <1> QED BY <1>2 DEF t

\* The totals of two lists agree as far as the lists do.
LEMMA TotalsAgree ==
    ASSUME NEW n \in Nat, NEW s, Numbers(s, n),
           NEW m \in 0..n, NEW u, \A k \in 1..m : u[k] = s[k]
    PROVE  Total(u, m) = Totals(s, n)[m] /\ Total(u, m) \in Int
  <1> DEFINE a == Totals(s, n)
             b == Totals(u, m)
             S == {k \in 0..m : a[k] = b[k] /\ b[k] \in Int}
  <1>1. Numbers(u, m)
    BY DEF Numbers
  <1>2. a[0] = 0 /\ \A k \in 1..n : a[k] = a[k - 1] + s[k]
    BY TotalsStep
  <1>3. b[0] = 0 /\ \A k \in 1..m : b[k] = b[k - 1] + u[k]
    BY <1>1, TotalsStep
  <1> HIDE DEF a, b
  <1>4. 0 \in S
    BY <1>2, <1>3
  <1>5. \A k \in 1..m : k - 1 \in S => k \in S
    BY <1>1, <1>2, <1>3 DEF Numbers
  <1> HIDE DEF S
  <1>6. m \in S
    <2>1. m \in Nat /\ m \in 0..m
      OBVIOUS
    <2>2. \A k \in 0..m : k \in S
      BY <2>1, <1>4, <1>5, UpTo
    <2> QED BY <2>1, <2>2
  <1>7. a[m] = b[m] /\ b[m] \in Int
    BY <1>6 DEF S
  <1> QED BY <1>7 DEF a, b, Total

\* Adding one more element.
LEMMA TotalStep ==
    ASSUME NEW n \in Nat, NEW s, Numbers(s, n + 1), NEW u, \A k \in 1..n : u[k] = s[k]
    PROVE  Total(s, n + 1) = Total(u, n) + s[n + 1] /\ Total(u, n) \in Int
  <1> DEFINE m == n + 1
  <1>1. m \in Nat /\ n \in 0..m /\ m \in 1..m /\ m - 1 = n
    OBVIOUS
  <1>2. Numbers(s, m)
    OBVIOUS
  <1> HIDE DEF m
  <1>3. Total(u, n) = Totals(s, m)[n] /\ Total(u, n) \in Int
    BY <1>1, <1>2, TotalsAgree
  <1>4. Totals(s, m)[m] = Totals(s, m)[n] + s[m]
    BY <1>1, <1>2, TotalsStep
  <1> QED BY <1>3, <1>4 DEF Total, m

LEMMA TotalOfNone == \A s : Total(s, 0) = 0
  <1> SUFFICES ASSUME NEW s PROVE Total(s, 0) = 0
    OBVIOUS
  <1>1. Numbers(s, 0)
    BY DEF Numbers
  <1> QED BY <1>1, TotalsStep DEF Total

-----------------------------------------------------------------------------
\* The sizes of a list with one more item

\* What the padding of the item before adds (candidateRequest++).
LastPadding(lens) == IF lens # <<>> /\ lens[Len(lens)] % 2 # 0 THEN 1 ELSE 0

Sizes(lens) == [k \in DOMAIN lens |-> ItemDataHeaderSize + Padded(lens, k)]

LEMMA SizesAreNumbers ==
    ASSUME NEW lens \in Seq(Int)
    PROVE  Len(lens) \in Nat /\ Numbers(Sizes(lens), Len(lens))
           /\ ItemsDataSize(lens) = Total(Sizes(lens), Len(lens))
  BY DEF Numbers, Sizes, Padded, ItemDataHeaderSize, ItemsDataSize

\* An item that follows others makes the one before it padded.
LEMMA DataSizeGrows ==
    ASSUME NEW lens \in Seq(Int), NEW x \in Int
    PROVE  /\ ItemsDataSize(lens) \in Int
           /\ ItemsDataSize(Append(lens, x)) =
                ItemsDataSize(lens) + ItemDataHeaderSize + x + LastPadding(lens)
  <1> DEFINE more == Append(lens, x)
             n == Len(lens)
  <1>1. more \in Seq(Int) /\ Len(more) = n + 1 /\ n \in Nat
    OBVIOUS
  <1>2. Numbers(Sizes(lens), n) /\ Numbers(Sizes(more), n + 1)
    BY <1>1, SizesAreNumbers
  <1>3. Numbers(Sizes(more), n)
    BY <1>1, <1>2 DEF Numbers
  <1>4. \A k \in 1..(n - 1) : Sizes(lens)[k] = Sizes(more)[k]
    BY <1>1 DEF Sizes, Padded
  <1>5. Sizes(more)[n + 1] = ItemDataHeaderSize + x
    BY <1>1 DEF Sizes, Padded, ItemDataHeaderSize
  <1>6. Total(Sizes(more), n + 1) = Total(Sizes(more), n) + Sizes(more)[n + 1]
        /\ Total(Sizes(more), n) \in Int
    BY <1>1, <1>2, TotalStep
  <1>7. ItemsDataSize(lens) = Total(Sizes(lens), n)
        /\ ItemsDataSize(more) = Total(Sizes(more), n + 1)
    BY <1>1, SizesAreNumbers
  <1>8. ItemDataHeaderSize \in Int
    BY DEF ItemDataHeaderSize
  <1>9. CASE n = 0
    <2>1. Total(Sizes(lens), n) = 0 /\ Total(Sizes(more), n) = 0
      BY <1>9, TotalOfNone
    <2>2. LastPadding(lens) = 0
      BY <1>9 DEF LastPadding
    <2> HIDE DEF n, more
    <2> QED BY <1>5, <1>6, <1>7, <1>8, <2>1, <2>2 DEF more
  <1>10. CASE n # 0
    <2> DEFINE m == n - 1
    <2>1. m \in Nat /\ m + 1 = n
      BY <1>1, <1>10
    <2>2. /\ Sizes(lens)[n] = ItemDataHeaderSize + lens[n]
          /\ Sizes(more)[n] = ItemDataHeaderSize + lens[n] + LastPadding(lens)
          /\ lens[n] \in Int /\ LastPadding(lens) \in Int
      BY <1>1, <1>10 DEF Sizes, Padded, LastPadding, ItemDataHeaderSize
    <2>3. \A k \in 1..m : Sizes(more)[k] = Sizes(lens)[k]
      BY <1>4
    <2> HIDE DEF m
    <2>4. Total(Sizes(lens), m + 1) = Total(Sizes(more), m) + Sizes(lens)[m + 1]
          /\ Total(Sizes(more), m) \in Int
      BY <1>2, <2>1, <2>3, TotalStep
    <2>5. Total(Sizes(more), m + 1) = Total(Sizes(more), m) + Sizes(more)[m + 1]
      BY <1>3, <2>1, TotalStep
    <2>6. ItemsDataSize(lens) = Total(Sizes(more), m) + (ItemDataHeaderSize + lens[n])
      BY <1>7, <2>1, <2>2, <2>4
    <2>7. ItemsDataSize(more) = Total(Sizes(more), m)
            + (ItemDataHeaderSize + lens[n] + LastPadding(lens)) + (ItemDataHeaderSize + x)
      BY <1>5, <1>6, <1>7, <2>1, <2>2, <2>5
    <2> QED BY <1>8, <2>2, <2>4, <2>6, <2>7
  <1> QED BY <1>9, <1>10

\* The running total of nextWriteBatch is WriteRequestSize of the batch, whatever
\* the lengths of its items.
THEOREM WriteSizeGrows ==
    ASSUME NEW lens \in Seq(Int), NEW x \in Int
    PROVE  /\ WriteRequestSize(lens) \in Int
           /\ WriteRequestSize(Append(lens, x)) =
                WriteRequestSize(lens) + 12 + 4 + x + LastPadding(lens)
  <1>1. Len(lens) \in Nat /\ Len(Append(lens, x)) = Len(lens) + 1
        /\ LastPadding(lens) \in Int
    BY DEF LastPadding
  <1>2. /\ ItemsDataSize(lens) \in Int
        /\ ItemsDataSize(Append(lens, x)) =
             ItemsDataSize(lens) + ItemDataHeaderSize + x + LastPadding(lens)
    BY DataSizeGrows
  <1> QED BY <1>1, <1>2
          DEF WriteRequestSize, JobHeaderSize, ItemSpecSize, ItemDataHeaderSize

\* The running total of nextReadBatch is ReadResponseSize of the batch.
THEOREM ReadSizeGrows ==
    ASSUME NEW lens \in Seq(Int), NEW x \in Int
    PROVE  /\ ReadResponseSize(lens) \in Int
           /\ ReadResponseSize(Append(lens, x)) =
                ReadResponseSize(lens) + 4 + x + LastPadding(lens)
  <1>1. LastPadding(lens) \in Int
    BY DEF LastPadding
  <1>2. /\ ItemsDataSize(lens) \in Int
        /\ ItemsDataSize(Append(lens, x)) =
             ItemsDataSize(lens) + ItemDataHeaderSize + x + LastPadding(lens)
    BY DataSizeGrows
  <1> QED BY <1>1, <1>2 DEF ReadResponseSize, AckHeaderSize, ItemDataHeaderSize

LEMMA SizesOfNone == WriteRequestSize(<<>>) = 12 /\ ReadResponseSize(<<>>) = 14
  <1>1. ItemsDataSize(<<>>) = 0
    BY TotalOfNone DEF ItemsDataSize
  <1> QED BY <1>1 DEF WriteRequestSize, ReadResponseSize, JobHeaderSize, AckHeaderSize,
                      ItemSpecSize

\* The size of a request for one item, as the preflight of writeLocked takes it.
LEMMA SizeOfOne ==
    ASSUME NEW x \in Int
    PROVE  WriteRequestSize(<<x>>) = 28 + x /\ ReadResponseSize(<<x>>) = 18 + x
  <1>1. Append(<<>>, x) = <<x>> /\ <<>> \in Seq(Int) /\ LastPadding(<<>>) = 0
    BY DEF LastPadding
  <1>2. WriteRequestSize(<<x>>) = WriteRequestSize(<<>>) + 12 + 4 + x + LastPadding(<<>>)
    BY <1>1, WriteSizeGrows
  <1>3. ReadResponseSize(<<x>>) = ReadResponseSize(<<>>) + 4 + x + LastPadding(<<>>)
    BY <1>1, ReadSizeGrows
  <1> QED BY <1>1, <1>2, <1>3, SizesOfNone

-----------------------------------------------------------------------------
\* Bytes and their bits

LEMMA BytesAreNumbers ==
    /\ \A b \in Byte : b \in Nat /\ b <= 255
    /\ \A b \in Nat : b <= 255 => b \in Byte
  BY DEF Byte

LEMMA MaskValues ==
    /\ Mask[0 + 1] = 1
    /\ Mask[1 + 1] = 2
    /\ Mask[2 + 1] = 4
    /\ Mask[3 + 1] = 8
    /\ Mask[4 + 1] = 16
    /\ Mask[5 + 1] = 32
    /\ Mask[6 + 1] = 64
    /\ Mask[7 + 1] = 128
  BY DEF Mask

\* Setting one bit of a byte leaves the other seven alone.
LEMMA SetBitInByte ==
    ASSUME NEW x \in Byte, NEW k \in 0..7, NEW v \in 0..1
    PROVE  /\ SetBitIn(x, k, v) \in Byte
           /\ BitOf(SetBitIn(x, k, v), k) = v
           /\ \A j \in 0..7 : j # k => BitOf(SetBitIn(x, k, v), j) = BitOf(x, j)
  <1> DEFINE y == SetBitIn(x, k, v)
  <1>1. CASE k = 0
    <2>1. y = x + (v - ((x \div 1) % 2)) * 1
      BY <1>1, MaskValues DEF SetBitIn, BitOf
    <2> HIDE DEF y
    <2>2. y \in Byte /\ (y \div 1) % 2 = v
      BY <2>1 DEF Byte
    <2>3. /\ (y \div 2) % 2 = (x \div 2) % 2
          /\ (y \div 4) % 2 = (x \div 4) % 2
          /\ (y \div 8) % 2 = (x \div 8) % 2
          /\ (y \div 16) % 2 = (x \div 16) % 2
          /\ (y \div 32) % 2 = (x \div 32) % 2
          /\ (y \div 64) % 2 = (x \div 64) % 2
          /\ (y \div 128) % 2 = (x \div 128) % 2
      BY <2>1, SMTT(60) DEF Byte
    <2>4. BitOf(y, 0) = v /\ \A j \in 0..7 : j # 0 => BitOf(y, j) = BitOf(x, j)
      BY <2>2, <2>3, MaskValues DEF BitOf
    <2> QED BY <1>1, <2>2, <2>4 DEF y
  <1>2. CASE k = 1
    <2>1. y = x + (v - ((x \div 2) % 2)) * 2
      BY <1>2, MaskValues DEF SetBitIn, BitOf
    <2> HIDE DEF y
    <2>2. y \in Byte /\ (y \div 2) % 2 = v
      BY <2>1 DEF Byte
    <2>3. /\ (y \div 1) % 2 = (x \div 1) % 2
          /\ (y \div 4) % 2 = (x \div 4) % 2
          /\ (y \div 8) % 2 = (x \div 8) % 2
          /\ (y \div 16) % 2 = (x \div 16) % 2
          /\ (y \div 32) % 2 = (x \div 32) % 2
          /\ (y \div 64) % 2 = (x \div 64) % 2
          /\ (y \div 128) % 2 = (x \div 128) % 2
      BY <2>1, SMTT(60) DEF Byte
    <2>4. BitOf(y, 1) = v /\ \A j \in 0..7 : j # 1 => BitOf(y, j) = BitOf(x, j)
      BY <2>2, <2>3, MaskValues DEF BitOf
    <2> QED BY <1>2, <2>2, <2>4 DEF y
  <1>3. CASE k = 2
    <2>1. y = x + (v - ((x \div 4) % 2)) * 4
      BY <1>3, MaskValues DEF SetBitIn, BitOf
    <2> HIDE DEF y
    <2>2. y \in Byte /\ (y \div 4) % 2 = v
      BY <2>1 DEF Byte
    <2>3. /\ (y \div 1) % 2 = (x \div 1) % 2
          /\ (y \div 2) % 2 = (x \div 2) % 2
          /\ (y \div 8) % 2 = (x \div 8) % 2
          /\ (y \div 16) % 2 = (x \div 16) % 2
          /\ (y \div 32) % 2 = (x \div 32) % 2
          /\ (y \div 64) % 2 = (x \div 64) % 2
          /\ (y \div 128) % 2 = (x \div 128) % 2
      BY <2>1, SMTT(60) DEF Byte
    <2>4. BitOf(y, 2) = v /\ \A j \in 0..7 : j # 2 => BitOf(y, j) = BitOf(x, j)
      BY <2>2, <2>3, MaskValues DEF BitOf
    <2> QED BY <1>3, <2>2, <2>4 DEF y
  <1>4. CASE k = 3
    <2>1. y = x + (v - ((x \div 8) % 2)) * 8
      BY <1>4, MaskValues DEF SetBitIn, BitOf
    <2> HIDE DEF y
    <2>2. y \in Byte /\ (y \div 8) % 2 = v
      BY <2>1 DEF Byte
    <2>3. /\ (y \div 1) % 2 = (x \div 1) % 2
          /\ (y \div 2) % 2 = (x \div 2) % 2
          /\ (y \div 4) % 2 = (x \div 4) % 2
          /\ (y \div 16) % 2 = (x \div 16) % 2
          /\ (y \div 32) % 2 = (x \div 32) % 2
          /\ (y \div 64) % 2 = (x \div 64) % 2
          /\ (y \div 128) % 2 = (x \div 128) % 2
      BY <2>1, SMTT(60) DEF Byte
    <2>4. BitOf(y, 3) = v /\ \A j \in 0..7 : j # 3 => BitOf(y, j) = BitOf(x, j)
      BY <2>2, <2>3, MaskValues DEF BitOf
    <2> QED BY <1>4, <2>2, <2>4 DEF y
  <1>5. CASE k = 4
    <2>1. y = x + (v - ((x \div 16) % 2)) * 16
      BY <1>5, MaskValues DEF SetBitIn, BitOf
    <2> HIDE DEF y
    <2>2. y \in Byte /\ (y \div 16) % 2 = v
      BY <2>1 DEF Byte
    <2>3. /\ (y \div 1) % 2 = (x \div 1) % 2
          /\ (y \div 2) % 2 = (x \div 2) % 2
          /\ (y \div 4) % 2 = (x \div 4) % 2
          /\ (y \div 8) % 2 = (x \div 8) % 2
          /\ (y \div 32) % 2 = (x \div 32) % 2
          /\ (y \div 64) % 2 = (x \div 64) % 2
          /\ (y \div 128) % 2 = (x \div 128) % 2
      BY <2>1, SMTT(60) DEF Byte
    <2>4. BitOf(y, 4) = v /\ \A j \in 0..7 : j # 4 => BitOf(y, j) = BitOf(x, j)
      BY <2>2, <2>3, MaskValues DEF BitOf
    <2> QED BY <1>5, <2>2, <2>4 DEF y
  <1>6. CASE k = 5
    <2>1. y = x + (v - ((x \div 32) % 2)) * 32
      BY <1>6, MaskValues DEF SetBitIn, BitOf
    <2> HIDE DEF y
    <2>2. y \in Byte /\ (y \div 32) % 2 = v
      BY <2>1 DEF Byte
    <2>3. /\ (y \div 1) % 2 = (x \div 1) % 2
          /\ (y \div 2) % 2 = (x \div 2) % 2
          /\ (y \div 4) % 2 = (x \div 4) % 2
          /\ (y \div 8) % 2 = (x \div 8) % 2
          /\ (y \div 16) % 2 = (x \div 16) % 2
          /\ (y \div 64) % 2 = (x \div 64) % 2
          /\ (y \div 128) % 2 = (x \div 128) % 2
      BY <2>1, SMTT(60) DEF Byte
    <2>4. BitOf(y, 5) = v /\ \A j \in 0..7 : j # 5 => BitOf(y, j) = BitOf(x, j)
      BY <2>2, <2>3, MaskValues DEF BitOf
    <2> QED BY <1>6, <2>2, <2>4 DEF y
  <1>7. CASE k = 6
    <2>1. y = x + (v - ((x \div 64) % 2)) * 64
      BY <1>7, MaskValues DEF SetBitIn, BitOf
    <2> HIDE DEF y
    <2>2. y \in Byte /\ (y \div 64) % 2 = v
      BY <2>1 DEF Byte
    <2>3. /\ (y \div 1) % 2 = (x \div 1) % 2
          /\ (y \div 2) % 2 = (x \div 2) % 2
          /\ (y \div 4) % 2 = (x \div 4) % 2
          /\ (y \div 8) % 2 = (x \div 8) % 2
          /\ (y \div 16) % 2 = (x \div 16) % 2
          /\ (y \div 32) % 2 = (x \div 32) % 2
          /\ (y \div 128) % 2 = (x \div 128) % 2
      BY <2>1, SMTT(60) DEF Byte
    <2>4. BitOf(y, 6) = v /\ \A j \in 0..7 : j # 6 => BitOf(y, j) = BitOf(x, j)
      BY <2>2, <2>3, MaskValues DEF BitOf
    <2> QED BY <1>7, <2>2, <2>4 DEF y
  <1>8. CASE k = 7
    <2>1. y = x + (v - ((x \div 128) % 2)) * 128
      BY <1>8, MaskValues DEF SetBitIn, BitOf
    <2> HIDE DEF y
    <2>2. y \in Byte /\ (y \div 128) % 2 = v
      BY <2>1 DEF Byte
    <2>3. /\ (y \div 1) % 2 = (x \div 1) % 2
          /\ (y \div 2) % 2 = (x \div 2) % 2
          /\ (y \div 4) % 2 = (x \div 4) % 2
          /\ (y \div 8) % 2 = (x \div 8) % 2
          /\ (y \div 16) % 2 = (x \div 16) % 2
          /\ (y \div 32) % 2 = (x \div 32) % 2
          /\ (y \div 64) % 2 = (x \div 64) % 2
      BY <2>1, SMTT(60) DEF Byte
    <2>4. BitOf(y, 7) = v /\ \A j \in 0..7 : j # 7 => BitOf(y, j) = BitOf(x, j)
      BY <2>2, <2>3, MaskValues DEF BitOf
    <2> QED BY <1>8, <2>2, <2>4 DEF y
  <1> QED BY <1>1, <1>2, <1>3, <1>4, <1>5, <1>6, <1>7, <1>8
=============================================================================
