--------------------------- MODULE ReadBatchProofs ---------------------------
(***************************************************************************)
(* Read and ReadArea are correct for every list of items, every PDU size   *)
(* and every limit of the configuration, whatever fails or is refused.     *)
(***************************************************************************)
EXTENDS ReadBatch, PDUSizeProofs

-----------------------------------------------------------------------------
\* Transports and lengths

\* layoutFor: elements of one, two or four bytes.
LEMMA Layouts ==
    ASSUME NEW t \in Transports
    PROVE  /\ Width(t) \in {1, 2, 4} /\ LengthInBits(t) \in BOOLEAN
           /\ t = "bit" => Width(t) = 1
  <1>1. Transports = {"bit", "byte", "word", "dword", "real", "timer", "counter"}
    BY DEF Transports, Layout
  <1>2. Width("bit") = 1 /\ LengthInBits("bit") = FALSE
    BY DEF Layout, Width, LengthInBits
  <1>3. Width("byte") = 1 /\ LengthInBits("byte") = TRUE
    BY DEF Layout, Width, LengthInBits
  <1>4. Width("word") = 2 /\ LengthInBits("word") = TRUE
    BY DEF Layout, Width, LengthInBits
  <1>5. Width("dword") = 4 /\ LengthInBits("dword") = TRUE
    BY DEF Layout, Width, LengthInBits
  <1>6. Width("real") = 4 /\ LengthInBits("real") = FALSE
    BY DEF Layout, Width, LengthInBits
  <1>7. Width("timer") = 2 /\ LengthInBits("timer") = FALSE
    BY DEF Layout, Width, LengthInBits
  <1>8. Width("counter") = 2 /\ LengthInBits("counter") = FALSE
    BY DEF Layout, Width, LengthInBits
  <1> QED BY <1>1, <1>2, <1>3, <1>4, <1>5, <1>6, <1>7, <1>8

LEMMA MinOfTwo ==
    ASSUME NEW a \in Int, NEW b \in Int
    PROVE  Min({a, b}) = IF a <= b THEN a ELSE b
  <1> DEFINE S == {a, b}
             x == IF a <= b THEN a ELSE b
  <1>1. x \in S /\ \A y \in S : x <= y
    OBVIOUS
  <1>2. \A z \in S : (\A y \in S : z <= y) => z = x
    OBVIOUS
  <1> HIDE DEF S, x
  <1> QED BY <1>1, <1>2 DEF Min, S, x

LEMMA DivisionBy ==
    ASSUME NEW m \in Int, NEW d \in Int, NEW e \in Int
    PROVE  /\ e = m % 2 /\ d = m \div 2 => m = 2 * d + e
           /\ e = m % 4 /\ d = m \div 4 => m = 4 * d + e
           /\ e = m % 1 /\ d = m \div 1 => m = d + e
  OBVIOUS

LEMMA Division ==
    ASSUME NEW m \in Nat, NEW w \in {1, 2, 4}, NEW d, d = m \div w, NEW e, e = m % w
    PROVE  d \in Nat /\ e \in Nat /\ e < w /\ m = w * d + e
  <1>1. d \in Nat /\ e \in Nat /\ e < w
    OBVIOUS
  <1>2. m \in Int /\ d \in Int /\ e \in Int
    BY <1>1
  <1>3. CASE w = 1
    <2>1. m = d + e
      BY <1>2, <1>3, DivisionBy
    <2> QED BY <1>1, <1>3, <2>1
  <1>4. CASE w = 2
    BY <1>1, <1>2, <1>4, DivisionBy
  <1>5. CASE w = 4
    BY <1>1, <1>2, <1>5, DivisionBy
  <1> QED BY <1>3, <1>4, <1>5

\* A full fragment has whole elements, and fits the response PDU and the length field.
LEMMA FragmentData ==
    ASSUME NEW t \in Transports
    PROVE  /\ MaxFragmentData(t) \in Nat \ {0}
           /\ MaxFragmentData(t) <= PDU - 18 /\ MaxFragmentData(t) <= 65535
           /\ LengthInBits(t) => MaxFragmentData(t) <= 8191
           /\ \E a \in Nat : MaxFragmentData(t) = Width(t) * a
  <1> DEFINE limit == IF LengthInBits(t) THEN MaxUint16 \div 8 ELSE MaxUint16
             w == Width(t)
             most == Min({PDU - 18, limit})
  <1>1. w \in {1, 2, 4} /\ LengthInBits(t) \in BOOLEAN /\ (t = "bit" => w = 1)
    BY Layouts
  <1>2. limit = IF LengthInBits(t) THEN 8191 ELSE 65535
    <2>1. 65535 \div 8 = 8191
      OBVIOUS
    <2> QED BY <2>1 DEF MaxUint16
  <1>3. PDU \in Nat /\ PDU >= 240
    BY ReadAssumption
  <1>4. most = IF PDU - 18 <= limit THEN PDU - 18 ELSE limit
    <2>1. PDU - 18 \in Int /\ limit \in Int
      BY <1>2, <1>3
    <2> HIDE DEF limit
    <2> QED BY <2>1, MinOfTwo
  <1>5. MaxFragmentData(t) = IF t = "bit" THEN 1 ELSE most - (most % w)
    BY DEF MaxFragmentData
  <1> HIDE DEF limit, most, w
  <1>6. most \in Nat /\ most >= 222 /\ most <= PDU - 18 /\ most <= limit
    BY <1>2, <1>3, <1>4
  <1>7. /\ most - (most % w) \in Nat \ {0} /\ most - (most % w) <= most
        /\ \E a \in Nat : most - (most % w) = w * a
    <2> DEFINE d == most \div w
               e == most % w
    <2>1. d = most \div w /\ e = most % w
      OBVIOUS
    <2> HIDE DEF d, e
    <2>2. d \in Nat /\ e \in Nat /\ e < w /\ most = w * d + e
      <3>1. most \in Nat /\ w \in {1, 2, 4}
        BY <1>1, <1>6
      <3> QED BY ONLY <2>1, <3>1, Division
    <2>3. most - e = w * d /\ most - e \in Nat \ {0} /\ most - e <= most
      BY <1>1, <1>6, <2>2
    <2> QED BY <2>1, <2>2, <2>3
  <1>8. CASE t = "bit"
    BY <1>1, <1>2, <1>3, <1>5, <1>8 DEF w
  <1>9. CASE t # "bit"
    BY <1>1, <1>2, <1>3, <1>5, <1>6, <1>7, <1>9 DEF w
  <1> QED BY <1>8, <1>9

\* What validation leaves of an item.
LEMMA ValidItem ==
    ASSUME NEW item \in ItemRecords, ItemError(item) = None
    PROVE  /\ item.count \in Nat \ {0} /\ Width(item.transport) \in {1, 2, 4}
           /\ Length(item) = item.count * Width(item.transport)
           /\ Length(item) \in Nat \ {0}
           /\ item.transport = "bit" => item.count = 1 /\ Width(item.transport) = 1
                                        /\ ~Indexed(item)
           /\ item.transport # "bit" => item.bit = 0
           /\ WireAddress(item) <= Max24 /\ LastAddress(item) <= Max24
  <1>1. item.count \in Nat /\ item.transport \in Transports /\ item.bit \in Nat
    BY DEF ItemRecords
  <1>2. Width(item.transport) \in {1, 2, 4}
        /\ (item.transport = "bit" => Width(item.transport) = 1)
    BY <1>1, Layouts
  <1>3. /\ AddressError(item) = NoError /\ item.count # 0
        /\ item.transport = "bit" => item.count = 1
        /\ ~(LastAddress(item) > Max24)
    BY DEF ItemError, ReadItemError, None, NoError
  <1>4. /\ Indexed(item) => item.bit = 0 /\ item.transport = item.area
        /\ ~Indexed(item) => ~(item.bit > (IF item.transport = "bit" THEN 7 ELSE 0))
        /\ ~(WireAddress(item) > Max24)
    BY <1>3 DEF AddressError, NoError
  <1>5. WireAddress(item) \in Int /\ Max24 \in Int
    BY <1>1 DEF WireAddress, ItemRecords, Max24
  <1>6. Length(item) \in Nat \ {0} /\ Length(item) = item.count * Width(item.transport)
    <2> DEFINE c == item.count
               w == Width(item.transport)
    <2>1. c \in Nat \ {0} /\ w \in {1, 2, 4}
      BY <1>1, <1>2, <1>3
    <2> HIDE DEF c, w
    <2>2. c * w \in Nat \ {0}
      BY <2>1
    <2> QED BY <2>2 DEF Length, c, w
  <1>7. LastAddress(item) \in Int
    BY <1>1, <1>3, <1>6 DEF LastAddress, ItemRecords
  <1>8. item.transport = "bit" => ~Indexed(item)
    BY <1>4 DEF Indexed
  <1>9. item.transport # "bit" => item.bit = 0
    BY <1>1, <1>4
  <1> QED BY <1>1, <1>2, <1>3, <1>4, <1>5, <1>6, <1>7, <1>8, <1>9

-----------------------------------------------------------------------------
\* Fragments

LEMMA Multiple ==
    ASSUME NEW w \in {1, 2, 4}, NEW z \in Nat, NEW n, n = w * z
    PROVE  n \div w = z
  <1>1. CASE w = 1
    BY <1>1
  <1>2. CASE w = 2
    BY <1>2
  <1>3. CASE w = 4
    BY <1>3
  <1> QED BY <1>1, <1>2, <1>3

\* A fragment has whole elements, does not reach beyond its item, has the address of
\* its first element, and its fields are wide enough for it.
LEMMA FragmentFacts ==
    ASSUME items \in Seq(ItemRecords), NEW i \in Index, ItemError(items[i]) = None,
           NEW j \in Nat, NEW x, Cut(i, j, x), NEW f, f = Fragment(i, x)
    PROVE  /\ f.original = i /\ f.offset = x /\ x \in Nat
           /\ f.length \in Nat \ {0} /\ f.amount \in Nat \ {0} /\ f.address \in Nat
           /\ f.length <= MaxFragmentData(items[i].transport)
           /\ End(f) <= Length(items[i])
           /\ End(f) = Length(items[i])
                \/ f.length = MaxFragmentData(items[i].transport)
           /\ f.amount * Width(items[i].transport) = f.length
           /\ f.address = IF Indexed(items[i])
                THEN items[i].offset + x \div Width(items[i].transport)
                ELSE (items[i].offset + x) * 8 + items[i].bit
           /\ f.address <= Max24 /\ f.amount <= MaxUint16
           /\ (IF LengthInBits(items[i].transport) THEN 8 ELSE 1) * f.length <= MaxUint16
  <1> DEFINE item == items[i]
             t == item.transport
             w == Width(t)
             M == MaxFragmentData(t)
             L == Length(item)
             c == item.count
             len == FragmentLength(item, x)
  <1>1. item \in ItemRecords /\ t \in Transports /\ item.offset \in Nat /\ item.bit \in Nat
    <2>1. item \in ItemRecords
      BY DEF Index
    <2> HIDE DEF item
    <2> QED BY <2>1 DEF ItemRecords
  <1>2. /\ c \in Nat \ {0} /\ w \in {1, 2, 4} /\ L = c * w /\ L \in Nat \ {0}
        /\ t = "bit" => c = 1 /\ w = 1 /\ ~Indexed(item)
        /\ t # "bit" => item.bit = 0
        /\ WireAddress(item) <= Max24 /\ LastAddress(item) <= Max24
    BY <1>1, ValidItem
  <1>3. /\ M \in Nat \ {0} /\ M <= 65535
        /\ LengthInBits(t) \in BOOLEAN /\ (LengthInBits(t) => M <= 8191)
    BY <1>1, FragmentData, Layouts
  <1>4. PICK a \in Nat : M = w * a
    BY <1>1, FragmentData
  <1>5. x = j * M /\ x < L
    BY DEF Cut
  <1>6. /\ f.original = i /\ f.offset = x /\ f.length = len /\ f.amount = len \div w
        /\ f.address = WireAddress([item EXCEPT !.offset = @ + AddressStep(item, x)])
    BY DEF Fragment
  <1>7. len = Min({M, L - x})
    BY DEF FragmentLength
  <1> HIDE DEF item, t, w, M, L, c, len
  <1>8. x \in Nat
    BY <1>3, <1>5
  <1>9. /\ len \in Nat \ {0} /\ len <= M /\ x + len <= L
        /\ len = M \/ (x + len = L /\ len = L - x)
    <2>1. len = IF M <= L - x THEN M ELSE L - x
      BY <1>2, <1>3, <1>7, <1>8, MinOfTwo
    <2> QED BY <1>2, <1>3, <1>5, <1>8, <2>1
  <1> DEFINE y == j * a
  <1>10. y \in Nat /\ x = w * y
    BY <1>2, <1>4, <1>5
  <1> HIDE DEF y
  <1>11. PICK z \in Nat \ {0} : len = w * z
    <2>1. CASE len = M
      BY <1>2, <1>3, <1>4, <2>1
    <2>2. CASE len = L - x
      <3>1. L - x = w * (c - y)
        BY <1>2, <1>10
      <3>2. c - y \in Nat \ {0}
        BY <1>2, <1>5, <1>10
      <3> QED BY <2>2, <3>1, <3>2
    <2> QED BY <1>9, <2>1, <2>2
  <1>12. len \div w = z /\ x \div w = y
    BY <1>2, <1>10, <1>11, Multiple
  <1>13. y < c /\ z <= len
    BY <1>2, <1>5, <1>10, <1>11
  <1>14. f.address = IF Indexed(item) THEN item.offset + y
                                      ELSE (item.offset + x) * 8 + item.bit
    <2> DEFINE moved == [item EXCEPT !.offset = @ + AddressStep(item, x)]
    <2>1. /\ moved.offset = item.offset + AddressStep(item, x) /\ moved.bit = item.bit
          /\ Indexed(moved) <=> Indexed(item)
      BY <1>1 DEF ItemRecords, Indexed
    <2>2. AddressStep(item, x) = IF Indexed(item) THEN y ELSE x
      <3>1. CASE Indexed(item)
        <4>1. t # "bit"
          BY <1>2, <3>1
        <4> QED BY <1>12, <3>1, <4>1 DEF AddressStep, w, t
      <3>2. CASE ~Indexed(item) /\ t # "bit"
        BY <3>2 DEF AddressStep, t
      <3>3. CASE t = "bit"
        <4>1. x = 0
          BY <1>2, <1>5, <1>8, <3>3
        <4> QED BY <1>2, <3>3, <4>1 DEF AddressStep, t
      <3> QED BY <3>1, <3>2, <3>3
    <2> HIDE DEF moved
    <2>3. f.address = WireAddress(moved)
      BY <1>6 DEF moved
    <2> QED BY <2>1, <2>2, <2>3 DEF WireAddress
  <1>15. f.address \in Nat /\ f.address <= Max24
    <2>1. Max24 \in Int
      BY DEF Max24
    <2>2. CASE Indexed(item)
      <3>1. LastAddress(item) = item.offset + c - 1
        BY <2>2 DEF LastAddress, c
      <3> QED BY <1>1, <1>2, <1>10, <1>13, <1>14, <2>1, <2>2, <3>1
    <2>3. CASE ~Indexed(item) /\ t = "bit"
      <3>1. x = 0
        BY <1>2, <1>5, <1>8, <2>3
      <3>2. WireAddress(item) = item.offset * 8 + item.bit
        BY <2>3 DEF WireAddress
      <3> QED BY <1>1, <1>2, <1>14, <2>1, <2>3, <3>1, <3>2
    <2>4. CASE ~Indexed(item) /\ t # "bit"
      <3>1. LastAddress(item) = (item.offset + L - 1) * 8
        BY <2>4 DEF LastAddress, L, t
      <3>2. item.bit = 0 /\ x <= L - 1
        BY <1>2, <1>5, <1>8, <2>4
      <3> QED BY <1>1, <1>2, <1>8, <1>14, <2>1, <2>4, <3>1, <3>2
    <2> QED BY <2>2, <2>3, <2>4
  <1>16. (IF LengthInBits(t) THEN 8 ELSE 1) * len <= 65535 /\ z <= 65535
    BY <1>3, <1>9, <1>11, <1>13
  <1>17. z * w = len
    BY <1>2, <1>11
  <1> QED BY <1>6, <1>8, <1>9, <1>11, <1>12, <1>14, <1>15, <1>16, <1>17
          DEF End, MaxUint16, item, t, w, M, L

-----------------------------------------------------------------------------
\* Counting fragments

\* countReadFragments counts at least the fragments that the iterator makes.
LEMMA CountUpCovers ==
    ASSUME NEW n \in Nat \ {0}, NEW m \in Nat \ {0}
    PROVE  CountUp(n, m) \in Nat /\ \A j \in Nat : j * m < n => j + 1 <= CountUp(n, m)
  <1> DEFINE d == n + m - 1
             q == d \div m
  <1>1. d \in Nat
    OBVIOUS
  <1>2. CountUp(n, m) = q
    BY DEF CountUp
  <1> HIDE DEF d
  <1>3. q \in Nat
    BY <1>1
  <1>4. d < (q + 1) * m
    BY <1>1
  <1> HIDE DEF q
  <1>5. ASSUME NEW j \in Nat, j * m < n, ~(j + 1 <= q) PROVE FALSE
    <2>1. q + 1 <= j + 1
      BY <1>3, <1>5
    <2>2. (q + 1) * m <= (j + 1) * m
      BY <1>3, <2>1
    <2>3. (j + 1) * m = j * m + m /\ j * m \in Int
      OBVIOUS
    <2>4. d < j * m + m /\ d = n + m - 1
      BY <1>1, <1>3, <1>4, <2>2, <2>3 DEF d
    <2> QED BY <1>5, <2>3, <2>4
  <1> QED BY <1>2, <1>3, <1>5

\* A sum of natural numbers is no smaller than a part of it.
LEMMA TotalsGrow ==
    ASSUME NEW n \in Nat, NEW s, \A k \in 1..n : s[k] \in Nat
    PROVE  \A k \in 0..n : Total(s, k) \in Nat /\ Total(s, k) <= Total(s, n)
  <1> DEFINE Good(m) == \A k \in 0..m : Total(s, k) \in Nat /\ Total(s, k) <= Total(s, m)
             S == {m \in 0..n : Good(m)}
  <1>1. 0 \in S
    <2>1. Total(s, 0) = 0
      BY TotalOfNone
    <2>2. \A k \in 0..0 : k = 0
      OBVIOUS
    <2> QED BY <2>1, <2>2
  <1>2. ASSUME NEW m \in 1..n, m - 1 \in S PROVE m \in S
    <2> DEFINE l == m - 1
    <2>1. l \in Nat /\ l + 1 = m /\ Numbers(s, l + 1) /\ l \in 0..l
      BY DEF Numbers
    <2>2. Good(l)
      BY <1>2
    <2> HIDE DEF l
    <2>3. Total(s, l + 1) = Total(s, l) + s[l + 1]
      BY <2>1, TotalStep
    <2>4. Total(s, m) \in Nat /\ Total(s, l) <= Total(s, m) /\ Total(s, l) \in Nat
      BY <2>1, <2>2, <2>3
    <2>5. \A k \in 0..m : k \in 0..l \/ k = m
      BY <2>1
    <2> QED BY <2>2, <2>4, <2>5
  <1> HIDE DEF S
  <1>3. n \in 0..n /\ \A k \in 0..n : k \in S
    BY <1>1, <1>2, UpTo
  <1> QED BY <1>3 DEF S

\* Every item has passed validateReadItem.
Valid == items \in Seq(ItemRecords) /\ \A i \in Index : ItemError(items[i]) = None

LEMMA Counts ==
    ASSUME Valid
    PROVE  /\ Len(items) \in Nat /\ Index = 1..Len(items)
           /\ \A i \in Index :
                /\ items[i] \in ItemRecords /\ Length(items[i]) \in Nat \ {0}
                /\ MaxFragmentData(items[i].transport) \in Nat \ {0}
                /\ FragmentCounts[i] \in Nat
                /\ \A j \in Nat : j * MaxFragmentData(items[i].transport) < Length(items[i])
                     => j + 1 <= FragmentCounts[i]
  <1>1. Len(items) \in Nat /\ Index = 1..Len(items)
    BY DEF Valid, Index
  <1> SUFFICES ASSUME NEW i \in Index
               PROVE  /\ items[i] \in ItemRecords /\ Length(items[i]) \in Nat \ {0}
                      /\ MaxFragmentData(items[i].transport) \in Nat \ {0}
                      /\ FragmentCounts[i] \in Nat
                      /\ \A j \in Nat :
                           j * MaxFragmentData(items[i].transport) < Length(items[i])
                             => j + 1 <= FragmentCounts[i]
    BY <1>1
  <1>2. items[i] \in ItemRecords
    BY DEF Valid, Index
  <1>3. items[i].transport \in Transports
    BY <1>2 DEF ItemRecords
  <1>4. Length(items[i]) \in Nat \ {0}
    BY <1>2, ValidItem DEF Valid
  <1>5. MaxFragmentData(items[i].transport) \in Nat \ {0}
    BY <1>3, FragmentData
  <1>6. FragmentCounts[i] = CountUp(Length(items[i]), MaxFragmentData(items[i].transport))
    BY DEF FragmentCounts
  <1> QED BY <1>2, <1>4, <1>5, <1>6, CountUpCovers

\* The fragments of the items before one of them are some of those that are counted.
LEMMA FragmentTotals ==
    ASSUME Valid, NEW o \in Nat \ {0}, o <= Len(items) + 1
    PROVE  /\ Total(FragmentCounts, o - 1) \in Nat
           /\ Total(FragmentCounts, o - 1) <= CountReadFragments
           /\ CountReadFragments \in Nat
  <1> DEFINE n == Len(items)
  <1>1. n \in Nat /\ \A k \in 1..n : FragmentCounts[k] \in Nat
    BY Counts
  <1>2. o <= n + 1
    OBVIOUS
  <1>3. CountReadFragments = Total(FragmentCounts, n)
    BY DEF CountReadFragments
  <1> HIDE DEF n
  <1>4. o - 1 \in 0..n /\ n \in 0..n
    BY <1>1, <1>2
  <1>5. \A k \in 0..n : Total(FragmentCounts, k) \in Nat
                          /\ Total(FragmentCounts, k) <= Total(FragmentCounts, n)
    BY <1>1, TotalsGrow
  <1> QED BY <1>3, <1>4, <1>5

-----------------------------------------------------------------------------
\* The iterator

\* readFragmentIterator takes the current fragment: it stands at the next cut, or at
\* the start of the next item, behind all that it stood behind before.
LEMMA Iteration ==
    ASSUME Valid, original \in Index, NEW j \in Nat, Cut(original, j, offset),
           NEW n \in Int, n <= Total(FragmentCounts, original - 1) + j,
           NEW o, NEW x,
           IF offset + Current.length < Length(items[original])
             THEN x = offset + Current.length /\ o = original
             ELSE o = original + 1 /\ x = 0
    PROVE  /\ o \in Nat \ {0} /\ o <= Len(items) + 1 /\ x \in Nat
           /\ \E l \in 0..x :
                /\ IF o <= Len(items) THEN Cut(o, l, x) ELSE l = 0 /\ x = 0
                /\ n + 1 <= Total(FragmentCounts, o - 1) + l
           /\ Precedes(Current, o, x)
           /\ \A f : f.original \in Nat /\ End(f) \in Int /\ Precedes(f, original, offset)
                => Precedes(f, o, x)
           /\ \A i \in Index :
                (IF i < o THEN Length(items[i]) ELSE IF i = o THEN x ELSE 0)
                  = IF i = original THEN End(Current) ELSE Reached(i)
  <1> DEFINE M == MaxFragmentData(items[original].transport)
             L == Length(items[original])
             N == Len(items)
             A == Total(FragmentCounts, original - 1)
  <1>1. N \in Nat /\ Index = 1..N /\ original \in 1..N
    BY Counts
  <1>2. L \in Nat \ {0} /\ M \in Nat \ {0} /\ FragmentCounts[original] \in Nat
    BY Counts
  <1>3. offset = j * M /\ offset < L
    BY DEF Cut
  <1>4. offset \in Nat
    BY <1>2, <1>3
  <1>5. /\ Current.original = original /\ Current.offset = offset
        /\ Current.length \in Nat \ {0}
        /\ End(Current) <= L /\ End(Current) = offset + Current.length
        /\ End(Current) = L \/ Current.length = M
    <2>1. items \in Seq(ItemRecords) /\ ItemError(items[original]) = None
      BY DEF Valid
    <2>2. Current = Fragment(original, offset)
      BY DEF Current
    <2> HIDE DEF Current
    <2>3. /\ Current.original = original /\ Current.offset = offset
          /\ Current.length \in Nat \ {0}
          /\ End(Current) <= L /\ (End(Current) = L \/ Current.length = M)
      BY <2>1, <2>2, FragmentFacts
    <2> QED BY <2>3 DEF End
  <1>6. Total(FragmentCounts, original) = A + FragmentCounts[original] /\ A \in Int
    <2> DEFINE m == original - 1
    <2>1. m \in Nat /\ m + 1 = original
      BY <1>1
    <2>2. Numbers(FragmentCounts, original)
      BY <1>1, Counts DEF Numbers
    <2> HIDE DEF m
    <2>3. Total(FragmentCounts, m + 1) = Total(FragmentCounts, m) + FragmentCounts[m + 1]
          /\ Total(FragmentCounts, m) \in Int
      BY <2>1, <2>2, TotalStep
    <2> QED BY <2>1, <2>3 DEF m
  <1>7. n <= A + j
    OBVIOUS
  <1>8. IF offset + Current.length < L THEN x = offset + Current.length /\ o = original
                                       ELSE o = original + 1 /\ x = 0
    OBVIOUS
  <1>9. j + 1 <= FragmentCounts[original]
    BY <1>3, Counts
  <1>10. \A i \in Index : Reached(i) = IF i < original THEN Length(items[i])
                                      ELSE IF i = original THEN offset ELSE 0
    BY DEF Reached
  <1> HIDE DEF M, L, N, A, Current
  <1>11. CASE offset + Current.length < L
    <2>1. o = original /\ x = offset + M /\ Current.length = M
      BY <1>2, <1>4, <1>5, <1>8, <1>11
    <2>2. x = (j + 1) * M /\ j + 1 \in 0..x /\ x < L
      <3>1. (j + 1) * M = j * M + M /\ j <= j * M
        BY <1>2
      <3>2. x = (j + 1) * M
        BY <1>3, <2>1, <3>1
      <3>3. x < L /\ x \in Nat /\ j + 1 <= x
        BY <1>2, <1>3, <1>4, <1>11, <2>1, <3>1
      <3> QED BY <3>2, <3>3
    <2>3. Cut(o, j + 1, x)
      BY <2>1, <2>2 DEF Cut, M, L
    <2>4. n + 1 <= Total(FragmentCounts, o - 1) + (j + 1)
      BY <1>6, <1>7, <2>1 DEF A
    <2>5. Precedes(Current, o, x)
      BY <1>4, <1>5, <2>1 DEF Precedes
    <2>6. \A f : f.original \in Nat /\ End(f) \in Int /\ Precedes(f, original, offset)
             => Precedes(f, o, x)
      BY <1>2, <1>4, <2>1 DEF Precedes
    <2>7. \A i \in Index :
            (IF i < o THEN Length(items[i]) ELSE IF i = o THEN x ELSE 0)
              = IF i = original THEN End(Current) ELSE Reached(i)
      BY <1>1, <1>5, <1>10, <2>1
    <2>8. o \in Nat \ {0} /\ o <= N + 1 /\ o <= N /\ x \in Nat
      BY <1>1, <1>2, <1>4, <2>1
    <2> QED BY <2>2, <2>3, <2>4, <2>5, <2>6, <2>7, <2>8 DEF N
  <1>12. CASE ~(offset + Current.length < L)
    <2>1. o = original + 1 /\ x = 0 /\ End(Current) = L
      BY <1>2, <1>4, <1>5, <1>8, <1>12
    <2>2. o \in Nat \ {0} /\ o <= N + 1 /\ x \in Nat /\ o - 1 = original
      BY <1>1, <2>1
    <2>3. o <= N => Cut(o, 0, x)
      <3> SUFFICES ASSUME o <= N PROVE Cut(o, 0, x)
        OBVIOUS
      <3>1. o \in Index
        BY <1>1, <2>2
      <3>2. Length(items[o]) \in Nat \ {0}
            /\ MaxFragmentData(items[o].transport) \in Nat \ {0}
        BY <3>1, Counts
      <3> QED BY <2>1, <3>2 DEF Cut
    <2>4. n + 1 <= Total(FragmentCounts, o - 1) + 0
      BY <1>2, <1>6, <1>7, <1>9, <2>2
    <2>5. Precedes(Current, o, x)
      BY <1>1, <1>5, <2>1 DEF Precedes
    <2>6. \A f : f.original \in Nat /\ End(f) \in Int /\ Precedes(f, original, offset)
             => Precedes(f, o, x)
      BY <1>1, <2>1 DEF Precedes
    <2>7. \A i \in Index :
            (IF i < o THEN Length(items[i]) ELSE IF i = o THEN x ELSE 0)
              = IF i = original THEN End(Current) ELSE Reached(i)
      BY <1>1, <1>10, <2>1 DEF L
    <2>8. 0 \in 0..x
      BY <2>1
    <2> QED BY <2>1, <2>2, <2>3, <2>4, <2>5, <2>6, <2>7, <2>8 DEF N
  <1> QED BY <1>11, <1>12

-----------------------------------------------------------------------------
\* Facts for the actions

LEMMA SameItems ==
    ASSUME items' = items
    PROVE  /\ Index' = Index /\ Fragments' = Fragments
           /\ FragmentCounts' = FragmentCounts /\ CountReadFragments' = CountReadFragments
           /\ \A i, j, x : Cut(i, j, x)' <=> Cut(i, j, x)
           /\ \A f : IsFragment(f)' <=> IsFragment(f)
  <1>1. Index' = Index
    BY DEF Index
  <1>2. FragmentCounts' = FragmentCounts
    BY <1>1 DEF FragmentCounts
  <1>3. CountReadFragments' = CountReadFragments
    BY <1>2 DEF CountReadFragments
  <1>4. \A i, j, x : Cut(i, j, x)' <=> Cut(i, j, x)
    BY DEF Cut
  <1>5. \A f : IsFragment(f)' <=> IsFragment(f)
    BY <1>4 DEF IsFragment, Fragment
  <1> QED BY <1>1, <1>2, <1>3, <1>4, <1>5 DEF Fragments

LEMMA ReadingIsValid ==
    ASSUME ReadInv, pc \in Reading \cup {"begin"}
    PROVE  Valid /\ items # <<>>
  BY DEF ReadInv, TypeInv, AcceptedInv, Valid

\* What is known of the fragments of a batch.
LEMMA BatchFacts ==
    ASSUME ReadInv, pc \in Packing, NEW k \in DOMAIN batch
    PROVE  /\ batch[k] \in Fragments /\ batch[k].original \in Index
           /\ batch[k].offset \in Nat /\ batch[k].length \in Nat \ {0}
           /\ End(batch[k]) <= Length(items[batch[k].original])
           /\ batch[k].amount * Width(items[batch[k].original].transport) = batch[k].length
           /\ batch[k].address = IF Indexed(items[batch[k].original])
                THEN items[batch[k].original].offset
                       + batch[k].offset \div Width(items[batch[k].original].transport)
                ELSE (items[batch[k].original].offset + batch[k].offset) * 8
                       + items[batch[k].original].bit
           /\ batch[k].address <= Max24
           /\ batch[k].amount \in Nat \ {0} /\ batch[k].amount <= MaxUint16
           /\ (IF LengthInBits(items[batch[k].original].transport) THEN 8 ELSE 1)
                * batch[k].length <= MaxUint16
  <1> DEFINE f == batch[k]
             i == f.original
  <1>1. Valid
    BY ReadingIsValid DEF Reading
  <1>2. f \in Fragments
    <2>1. batch \in Seq(Fragments)
      BY DEF ReadInv, TypeInv
    <2> QED BY <2>1
  <1>3. IsFragment(f)
    BY DEF ReadInv, BatchInv
  <1> HIDE DEF f
  <1>4. i \in Index /\ f.offset \in Nat /\ f.length \in Nat \ {0}
    BY <1>2 DEF Fragments
  <1>5. f = Fragment(i, f.offset) /\ \E j \in 0..f.offset : Cut(i, j, f.offset)
    BY <1>3 DEF IsFragment
  <1>6. PICK j \in Nat : Cut(i, j, f.offset)
    BY <1>4, <1>5
  <1>7. items \in Seq(ItemRecords) /\ ItemError(items[i]) = None
    BY <1>1, <1>4 DEF Valid
  <1> HIDE DEF i
  <1>8. /\ End(f) <= Length(items[i])
        /\ f.amount * Width(items[i].transport) = f.length
        /\ f.address = IF Indexed(items[i])
             THEN items[i].offset + f.offset \div Width(items[i].transport)
             ELSE (items[i].offset + f.offset) * 8 + items[i].bit
        /\ f.address <= Max24 /\ f.amount \in Nat \ {0} /\ f.amount <= MaxUint16
        /\ (IF LengthInBits(items[i].transport) THEN 8 ELSE 1) * f.length <= MaxUint16
    BY <1>4, <1>5, <1>6, <1>7, FragmentFacts
  <1> QED BY <1>2, <1>4, <1>8 DEF f, i

\* An item with a fragment in a request is not complete.
LEMMA Incomplete ==
    ASSUME ReadInv, pc \in {"pack", "exchange"}, NEW k \in DOMAIN batch
    PROVE  /\ batch[k].original \in Index /\ err[batch[k].original] = None
           /\ progress[batch[k].original] < Length(items[batch[k].original])
  <1> DEFINE i == batch[k].original
  <1>1. i \in Index /\ batch[k].offset \in Nat /\ batch[k].length \in Nat \ {0}
        /\ End(batch[k]) <= Length(items[i])
    BY BatchFacts DEF Packing
  <1>2. err[i] = None
    BY DEF ReadInv, BatchInv
  <1>3. k \in Rest
    BY DEF Rest
  <1>4. progress[i] <= batch[k].offset
    BY <1>1, <1>2, <1>3 DEF ReadInv, ChainInv, Reading, Packing
  <1>5. progress[i] \in Nat /\ Length(items[i]) \in Nat
    <2>1. progress \in [Index -> Nat]
      BY DEF ReadInv, TypeInv
    <2>2. Valid
      BY ReadingIsValid DEF Reading, Packing
    <2>3. Length(items[i]) \in Nat
      BY <1>1, <2>2, Counts
    <2> QED BY <1>1, <2>1, <2>3
  <1> HIDE DEF i
  <1>6. progress[i] < Length(items[i])
    BY <1>1, <1>4, <1>5 DEF End
  <1> QED BY <1>1, <1>2, <1>6 DEF i

-----------------------------------------------------------------------------
\* Failures

\* markReadIncomplete: complete items keep their results, the others get an error.
LEMMA FailRead ==
    ASSUME ReadInv, pc \in Reading \cup {"begin"},
           NEW k \in Errors, k # None, k # "invariant", k = "limit" => asked = <<>>,
           area => progress[1] < Length(items[1]), Fail(k)
    PROVE  ReadInv'
  <1>1. /\ err' = [i \in Index |->
             IF err[i] = None /\ progress[i] < Length(items[i]) THEN k ELSE err[i]]
        /\ dataLen' = [i \in Index |-> Min({progress[i], dataLen[i]})]
        /\ fatal' = k /\ batch' = <<>> /\ pc' = "return"
        /\ UNCHANGED <<items, area, original, offset, requestSize, responseSize, asked,
                       answer, progress, got>>
    BY DEF Fail, MarkReadIncomplete, inputVars, iteratorVars, sizeVars, dataVars
  <1>2. Index' = Index /\ Fragments' = Fragments /\ CountReadFragments' = CountReadFragments
    BY <1>1, SameItems
  <1>3. Valid /\ pc # "return"
    BY ReadingIsValid DEF Reading, Packing
  <1>4. /\ err \in [Index -> Errors] /\ progress \in [Index -> Nat]
        /\ dataLen \in [Index -> Nat]
    BY DEF ReadInv, TypeInv
  <1>5. \A i \in Index : dataLen'[i] = progress[i]
    <2> SUFFICES ASSUME NEW i \in Index PROVE dataLen'[i] = progress[i]
      OBVIOUS
    <2>1. progress[i] \in Nat /\ dataLen[i] \in Nat
      BY <1>4
    <2>2. progress[i] <= dataLen[i]
      BY <2>1 DEF ReadInv, ItemInv
    <2>3. Min({progress[i], dataLen[i]}) = progress[i]
      BY <2>1, <2>2, MinOfTwo
    <2> QED BY <1>1, <2>3
  <1>6. \A i \in Index : err'[i] = None <=> progress[i] = Length(items[i])
    <2> SUFFICES ASSUME NEW i \in Index
                 PROVE  err'[i] = None <=> progress[i] = Length(items[i])
      OBVIOUS
    <2>1. progress[i] \in Nat /\ Length(items[i]) \in Nat \ {0}
      BY <1>3, <1>4, Counts
    <2>2. progress[i] <= Length(items[i])
      BY <2>1 DEF ReadInv, ItemInv
    <2>3. err[i] # None => progress[i] < Length(items[i])
      BY <1>3 DEF ReadInv, ItemInv
    <2> QED BY <1>1, <2>1, <2>2, <2>3
  <1>7. TypeInv'
    <2>1. err' \in [Index -> Errors]
      BY <1>1, <1>4
    <2>2. dataLen' \in [Index -> Nat]
      <3>1. dataLen' = [i \in Index |-> progress[i]]
        BY <1>1, <1>5
      <3> QED BY <1>4, <3>1
    <2>3. batch' \in Seq(Fragments)
      BY <1>1
    <2> QED BY <1>1, <1>2, <2>1, <2>2, <2>3 DEF ReadInv, TypeInv
  <1>8. AcceptedInv' /\ IteratorInv' /\ CountInv' /\ BatchInv'
    BY <1>1, <1>2 DEF ReadInv, AcceptedInv, IteratorInv, CountInv, BatchInv, Reading, Packing
  <1>9. OrderInv'
    BY <1>1 DEF ReadInv, OrderInv, Ordered, Precedes, End, Reading, Packing
  <1>10. CallInv'
    <2>1. area => 1 \in Index
      <3>1. area => Len(items) = 1 /\ items \in Seq(ItemRecords)
        BY DEF ReadInv, TypeInv
      <3> QED BY <3>1 DEF Index
    <2>2. area => err'[1] # None
      <3>1. area => err'[1] = IF err[1] = None THEN k ELSE err[1]
        BY <1>1, <2>1
      <3> QED BY <3>1
    <2> QED BY <1>1, <2>2 DEF CallInv
  <1>11. \A i \in Index' : ChainInv(i)' /\ ItemInv(i)'
    BY <1>1 DEF ChainInv, ItemInv, Reading, Packing
  <1>12. DataIsPrefix'
    BY <1>1, <1>2 DEF ReadInv, DataIsPrefix
  <1>13. ResultIsWhole'
    <2>1. \A i \in Index : Length(items[i]) > 0
      BY <1>3, Counts
    <2> QED BY <1>1, <1>2, <1>5, <1>6, <2>1 DEF ResultIsWhole
  <1>14. NoLateSurprise'
    BY <1>1 DEF NoLateSurprise
  <1> QED BY <1>7, <1>8, <1>9, <1>10, <1>11, <1>12, <1>13, <1>14 DEF ReadInv

LEMMA AreaHasOneItem ==
    ASSUME ReadInv, area
    PROVE  1 \in Index /\ \A i \in Index : i = 1
  <1>1. Len(items) = 1 /\ items \in Seq(ItemRecords)
    BY DEF ReadInv, TypeInv
  <1>2. Index = 1..1
    BY <1>1 DEF Index
  <1> QED BY <1>2

\* A ReadArea that fails is never complete.
LEMMA AreaIncomplete ==
    ASSUME ReadInv, area,
           pc = "begin" \/ (pc \in {"pack", "exchange"} /\ batch # <<>>)
    PROVE  progress[1] < Length(items[1])
  <1>1. 1 \in Index /\ \A i \in Index : i = 1
    BY AreaHasOneItem
  <1>2. CASE pc = "begin"
    <2>1. Valid
      BY <1>2, ReadingIsValid
    <2>2. Length(items[1]) \in Nat \ {0}
      BY <1>1, <2>1, Counts
    <2>3. progress[1] = 0
      BY <1>1, <1>2 DEF ReadInv, ItemInv
    <2> QED BY <2>2, <2>3
  <1>3. CASE pc \in {"pack", "exchange"} /\ batch # <<>>
    <2>1. 1 \in DOMAIN batch
      <3>1. batch \in Seq(Fragments)
        BY DEF ReadInv, TypeInv
      <3> QED BY <1>3, <3>1
    <2> QED BY <1>1, <1>3, <2>1, Incomplete
  <1> QED BY <1>2, <1>3

LEMMA RefuseRead == ASSUME ReadInv, Refuse PROVE ReadInv'
  <1>1. pc = "begin" /\ asked = <<>>
    BY DEF Refuse, ReadInv, CallInv
  <1>2. area => progress[1] < Length(items[1])
    BY <1>1, AreaIncomplete
  <1>3. PICK k \in {"closed", "canceled", "notConnected", "limit"} : Fail(k)
    BY DEF Refuse
  <1>4. k \in Errors /\ k # None /\ k # "invariant"
    BY DEF Errors, None, NoError
  <1> QED BY <1>1, <1>2, <1>3, <1>4, FailRead

LEMMA ExchangeFailsRead == ASSUME ReadInv, ExchangeFails PROVE ReadInv'
  <1>1. pc = "exchange" /\ pc \in Reading /\ batch # <<>>
    BY DEF ExchangeFails, Reading, Packing, ReadInv, BatchInv
  <1>2. area => progress[1] < Length(items[1])
    BY <1>1, AreaIncomplete
  <1>3. PICK k \in {"canceled", "transport", "protocol"} : Fail(k)
    BY DEF ExchangeFails
  <1>4. k \in Errors /\ k # None /\ k # "invariant" /\ k # "limit"
    BY DEF Errors, None, NoError
  <1> QED BY <1>1, <1>2, <1>3, <1>4, FailRead

\* A global code marks items that are not complete anyway, before the others.
LEMMA ReadGlobalCodeRead == ASSUME ReadInv, ReadGlobalCode PROVE ReadInv'
  <1> DEFINE Hit == {batch[k].original : k \in DOMAIN batch}
             marked == [i \in Index |-> IF i \in Hit /\ err[i] = None THEN "plc" ELSE err[i]]
  <1>1. pc = "exchange" /\ pc \in Reading /\ batch # <<>>
    BY DEF ReadGlobalCode, Reading, Packing, ReadInv, BatchInv
  <1>2. area => progress[1] < Length(items[1])
    BY <1>1, AreaIncomplete
  <1>3. err' = [i \in Index |->
          IF marked[i] = None /\ progress[i] < Length(items[i]) THEN "plc" ELSE marked[i]]
    BY DEF ReadGlobalCode
  <1>4. \A i \in Hit : i \in Index /\ err[i] = None /\ progress[i] < Length(items[i])
    BY <1>1, Incomplete
  <1> HIDE DEF Hit
  <1>5. \A i \in Index :
          (IF marked[i] = None /\ progress[i] < Length(items[i]) THEN "plc" ELSE marked[i])
            = IF err[i] = None /\ progress[i] < Length(items[i]) THEN "plc" ELSE err[i]
    BY <1>4
  <1> HIDE DEF marked
  <1>6. err' = [i \in Index |->
          IF err[i] = None /\ progress[i] < Length(items[i]) THEN "plc" ELSE err[i]]
    BY <1>3, <1>5
  <1>7. Fail("plc")
    BY <1>6 DEF ReadGlobalCode, Fail, MarkReadIncomplete
  <1>8. "plc" \in Errors /\ "plc" # None
    BY DEF Errors, None, NoError
  <1> QED BY <1>1, <1>2, <1>7, <1>8, FailRead

\* The fragment that the iterator yields.
LEMMA CurrentFacts ==
    ASSUME ReadInv, pc = "pack", More
    PROVE  /\ Valid /\ original \in Index
           /\ \E j \in Nat : Cut(original, j, offset)
                               /\ Taken <= Total(FragmentCounts, original - 1) + j
           /\ Current \in Fragments /\ IsFragment(Current)
           /\ Current.original = original /\ Current.offset = offset
           /\ Current.length \in Nat \ {0} /\ Current.length <= PDU - 18
           /\ End(Current) <= Length(items[original])
  <1>1. Valid
    BY ReadingIsValid DEF Reading, Packing
  <1>2. original \in Index
    <2>1. original \in Nat \ {0} /\ original <= Len(items)
      BY DEF ReadInv, TypeInv, More
    <2>2. Index = 1..Len(items) /\ Len(items) \in Nat
      BY <1>1, Counts
    <2> QED BY <2>1, <2>2
  <1>3. offset \in Nat
    BY DEF ReadInv, TypeInv
  <1>4. PICK j \in 0..offset : Cut(original, j, offset)
                                /\ Taken <= Total(FragmentCounts, original - 1) + j
    BY DEF ReadInv, IteratorInv, Reading, Packing
  <1>5. j \in Nat
    BY <1>3
  <1>6. items \in Seq(ItemRecords) /\ ItemError(items[original]) = None
    BY <1>1, <1>2 DEF Valid
  <1>7. Current = Fragment(original, offset)
    BY DEF Current
  <1> HIDE DEF Current
  <1>8. /\ Current.original = original /\ Current.offset = offset
        /\ Current.length \in Nat \ {0} /\ Current.amount \in Nat \ {0}
        /\ Current.address \in Nat
        /\ Current.length <= MaxFragmentData(items[original].transport)
        /\ End(Current) <= Length(items[original])
    <2>1. Cut(original, j, offset)
      BY <1>4
    <2> QED BY ONLY <1>2, <1>5, <1>6, <1>7, <2>1, FragmentFacts
  <1>9. Current \in Fragments
    <2>1. Current = [original |-> Current.original, offset |-> Current.offset,
                     length |-> Current.length, amount |-> Current.amount,
                     address |-> Current.address]
      BY <1>7 DEF Fragment
    <2> QED BY <1>2, <1>3, <1>8, <2>1 DEF Fragments
  <1>10. IsFragment(Current)
    BY <1>4, <1>7, <1>8 DEF IsFragment
  <1>11. Current.length <= PDU - 18
    <2>1. items[original].transport \in Transports
      <3>1. items[original] \in ItemRecords
        BY <1>1, <1>2, Counts
      <3> QED BY <3>1 DEF ItemRecords
    <2>2. MaxFragmentData(items[original].transport) <= PDU - 18
          /\ MaxFragmentData(items[original].transport) \in Nat
      BY <2>1, FragmentData
    <2>3. PDU \in Nat
      BY ReadAssumption
    <2> QED BY <1>8, <2>2, <2>3
  <1> QED BY <1>1, <1>2, <1>4, <1>5, <1>8, <1>9, <1>10, <1>11

\* One fragment always fits a request of its own.
LEMMA OneFits ==
    ASSUME ReadInv, pc = "pack", More, batch = <<>>
    PROVE  Fits
  <1>1. Current.length \in Nat \ {0} /\ Current.length <= PDU - 18
    BY CurrentFacts
  <1>2. PDU \in Nat /\ PDU >= 240 /\ MaxItemsPerPDU \in Nat \ {0}
    BY ReadAssumption
  <1>3. /\ requestSize = ReadRequestSize(Len(batch))
        /\ responseSize = ReadResponseSize([k \in DOMAIN batch |-> batch[k].length])
    BY DEF ReadInv, BatchInv, Packing
  <1>4. Len(batch) = 0 /\ [k \in DOMAIN batch |-> batch[k].length] = <<>>
    OBVIOUS
  <1>5. requestSize = 12
    BY <1>3, <1>4 DEF ReadRequestSize, JobHeaderSize, ItemSpecSize
  <1>6. responseSize = 14
    BY <1>3, <1>4, SizesOfNone
  <1>7. Padding = 0
    BY DEF Padding
  <1> HIDE DEF Current
  <1> QED BY <1>1, <1>2, <1>4, <1>5, <1>6, <1>7
          DEF Fits, CandidateRequest, CandidateResponse

LEMMA PlanStopsRead == ASSUME ReadInv, PlanStops PROVE ReadInv'
  <1>1. pc = "pack" /\ pc \in Reading
    BY DEF PlanStops, Packed, Reading, Packing
  <1>2. batch # <<>>
    <2>1. ASSUME batch = <<>> PROVE FALSE
      <3>1. More /\ ~Fits
        BY <2>1 DEF PlanStops, Packed
      <3> QED BY <1>1, <2>1, <3>1, OneFits
    <2> QED BY <2>1
  <1>3. Fail("canceled")
    BY <1>2 DEF PlanStops
  <1>4. area => progress[1] < Length(items[1])
    BY <1>1, <1>2, AreaIncomplete
  <1>5. "canceled" \in Errors /\ "canceled" # None
    BY DEF Errors, None, NoError
  <1> QED BY <1>1, <1>3, <1>4, <1>5, FailRead

-----------------------------------------------------------------------------
\* Validation

LEMMA Prepared ==
    ASSUME items \in Seq(ItemRecords)
    PROVE  /\ PrepareError \in {"invalid", "limit", None}
           /\ PrepareError = None =>
                items # <<>> /\ \A i \in Index : ItemError(items[i]) = None
  <1>1. \A i \in Index : ErrorAt(i) \in {"invalid", "limit", None}
    <2> SUFFICES ASSUME NEW i \in Index PROVE ErrorAt(i) \in {"invalid", "limit", None}
      OBVIOUS
    <2>1. AddressError(items[i]) \in {"invalid", "limit", None}
      BY DEF AddressError, None
    <2>2. ItemError(items[i]) \in {"invalid", "limit", None}
      BY <2>1 DEF ItemError, ReadItemError, None
    <2> QED BY <2>2 DEF ErrorAt
  <1>2. ASSUME Failing # {} PROVE Min(Failing) \in Failing
    <2>1. Failing \in SUBSET Nat
      BY DEF Failing, Index
    <2> HIDE DEF Failing
    <2>2. \E m \in Failing : \A k \in Failing : m <= k
      BY <1>2, <2>1, LeastNatural
    <2> QED BY <2>2 DEF Min
  <1>3. \A i \in Failing : i \in Index /\ ErrorAt(i) # None
    BY DEF Failing
  <1>4. \A i \in Index : i \notin Failing => ItemError(items[i]) = None
    BY DEF Failing, ErrorAt
  <1> HIDE DEF Failing, ErrorAt
  <1>5. PrepareError \in {"invalid", "limit", None}
    BY <1>1, <1>2, <1>3 DEF PrepareError
  <1>6. PrepareError = None => items # <<>> /\ Failing = {}
    BY <1>2, <1>3 DEF PrepareError, None, NoError
  <1> QED BY <1>4, <1>5, <1>6

LEMMA RejectRead == ASSUME ReadInv, Reject PROVE ReadInv'
  <1>1. /\ pc = "prepare" /\ PrepareError # None
        /\ err' = [i \in Index |-> PrepareError]
        /\ fatal' = PrepareError /\ pc' = "return"
        /\ UNCHANGED <<items, area, original, offset, batch, requestSize, responseSize,
                       asked, answer, progress, got, dataLen>>
    BY DEF Reject, inputVars, planVars, iteratorVars, sizeVars, dataVars
  <1>2. Index' = Index /\ Fragments' = Fragments /\ CountReadFragments' = CountReadFragments
    BY <1>1, SameItems
  <1>3. PrepareError \in {"invalid", "limit"}
    BY <1>1, Prepared DEF ReadInv, TypeInv
  <1> HIDE DEF PrepareError
  <1>4. asked = <<>> /\ batch = <<>>
    BY <1>1 DEF ReadInv, CallInv, BatchInv, Packing
  <1>5. TypeInv'
    <2>1. PrepareError \in Errors
      BY <1>3 DEF Errors
    <2>2. err' \in [Index -> Errors]
      BY <1>1, <2>1
    <2> QED BY <1>1, <1>2, <2>1, <2>2 DEF ReadInv, TypeInv
  <1>6. AcceptedInv' /\ IteratorInv' /\ CountInv' /\ BatchInv'
    BY <1>1, <1>2 DEF ReadInv, AcceptedInv, IteratorInv, CountInv, BatchInv, Reading, Packing
  <1>7. OrderInv'
    BY <1>1 DEF ReadInv, OrderInv, Ordered, Precedes, End, Reading, Packing
  <1>8. CallInv'
    <2>1. area => 1 \in Index
      BY AreaHasOneItem
    <2> QED BY <1>1, <2>1 DEF CallInv
  <1>9. \A i \in Index' : ChainInv(i)' /\ ItemInv(i)'
    BY <1>1 DEF ChainInv, ItemInv, Reading, Packing
  <1>10. DataIsPrefix'
    BY <1>1, <1>2 DEF ReadInv, DataIsPrefix
  <1>11. ResultIsWhole'
    <2>1. \A i \in Index : progress[i] = 0 /\ dataLen[i] = 0
      BY <1>1 DEF ReadInv, ItemInv
    <2> QED BY <1>1, <1>2, <2>1 DEF ResultIsWhole
  <1>12. NoLateSurprise'
    BY <1>1, <1>3, <1>4 DEF NoLateSurprise
  <1> QED BY <1>5, <1>6, <1>7, <1>8, <1>9, <1>10, <1>11, <1>12 DEF ReadInv

LEMMA AcceptRead == ASSUME ReadInv, Accept PROVE ReadInv'
  <1>1. /\ pc = "prepare" /\ PrepareError = None /\ pc' = "begin"
        /\ UNCHANGED <<items, area, original, offset, batch, requestSize, responseSize,
                       asked, answer, err, progress, got, dataLen, fatal>>
    BY DEF Accept, inputVars, planVars, iteratorVars, sizeVars, resultVars, dataVars
  <1>2. Index' = Index /\ Fragments' = Fragments /\ CountReadFragments' = CountReadFragments
    BY <1>1, SameItems
  <1>3. items # <<>> /\ \A i \in Index : ItemError(items[i]) = None
    BY <1>1, Prepared DEF ReadInv, TypeInv
  <1> HIDE DEF PrepareError
  <1>4. TypeInv'
    BY <1>1, <1>2 DEF ReadInv, TypeInv
  <1>5. AcceptedInv'
    BY <1>1, <1>2, <1>3 DEF AcceptedInv, Reading, Packing, ItemError
  <1>6. IteratorInv' /\ CountInv' /\ BatchInv'
    BY <1>1, <1>2 DEF ReadInv, IteratorInv, CountInv, BatchInv, Reading, Packing
  <1>7. OrderInv'
    BY <1>1 DEF ReadInv, OrderInv, Ordered, Precedes, End, Reading, Packing
  <1>8. CallInv'
    BY <1>1 DEF ReadInv, CallInv
  <1>9. \A i \in Index' : ChainInv(i)' /\ ItemInv(i)'
    BY <1>1, <1>2 DEF ReadInv, ChainInv, ItemInv, Reading, Packing
  <1>10. DataIsPrefix' /\ ResultIsWhole' /\ NoLateSurprise'
    BY <1>1, <1>2 DEF ReadInv, DataIsPrefix, ResultIsWhole, NoLateSurprise
  <1> QED BY <1>4, <1>5, <1>6, <1>7, <1>8, <1>9, <1>10 DEF ReadInv

-----------------------------------------------------------------------------
\* Planning

LEMMA BeginRead == ASSUME ReadInv, Begin PROVE ReadInv'
  <1>1. /\ pc = "begin" /\ CountReadFragments <= MaxFragmentsPerCall
        /\ dataLen' = [i \in Index |-> Length(items[i])]
        /\ original' = 1 /\ offset' = 0 /\ pc' = "plan"
        /\ UNCHANGED <<items, area, batch, requestSize, responseSize, asked, answer, err,
                       progress, got, fatal>>
    BY DEF Begin, inputVars, sizeVars, dataVars
  <1>2. /\ Index' = Index /\ Fragments' = Fragments
        /\ FragmentCounts' = FragmentCounts /\ CountReadFragments' = CountReadFragments
        /\ \A i, j, x : Cut(i, j, x)' <=> Cut(i, j, x)
    BY <1>1, SameItems
  <1>3. Valid /\ items # <<>>
    BY <1>1, ReadingIsValid
  <1>4. /\ Len(items) \in Nat /\ Index = 1..Len(items) /\ 1 \in Index
        /\ \A i \in Index : Length(items[i]) \in Nat \ {0}
                              /\ MaxFragmentData(items[i].transport) \in Nat
    <2>1. Len(items) # 0
      BY <1>3 DEF Valid
    <2> QED BY <1>3, <2>1, Counts
  <1>5. asked = <<>> /\ batch = <<>>
    BY <1>1 DEF ReadInv, CallInv, BatchInv, Packing
  <1>6. \A i \in Index : err[i] = None /\ progress[i] = 0
    BY <1>1 DEF ReadInv, ItemInv
  <1>7. TypeInv'
    <2>1. dataLen' \in [Index -> Nat]
      BY <1>1, <1>4
    <2>2. original' \in Nat \ {0} /\ offset' \in Nat
      BY <1>1
    <2>3. pc' \in Reading \cup {"prepare", "begin", "return"}
      BY <1>1 DEF Reading
    <2> QED BY <1>1, <1>2, <2>1, <2>2, <2>3 DEF ReadInv, TypeInv
  <1>8. AcceptedInv'
    BY <1>1, <1>2, <1>3 DEF AcceptedInv, Valid, ItemError
  <1>9. IteratorInv'
    <2>1. Cut(1, 0, 0)
      BY <1>4 DEF Cut
    <2>2. Total(FragmentCounts, 1 - 1) = 0
      <3>1. 1 - 1 = 0
        OBVIOUS
      <3> QED BY <3>1, TotalOfNone
    <2>3. Taken' = 0
      BY <1>1, <1>5 DEF Taken
    <2>4. original' <= Len(items)' + 1 /\ More' /\ 0 \in 0..offset'
      BY <1>1, <1>4 DEF More
    <2> QED BY <1>1, <1>2, <2>1, <2>2, <2>3, <2>4 DEF IteratorInv
  <1>10. CountInv'
    BY <1>1, <1>2 DEF ReadInv, CountInv
  <1>11. OrderInv' /\ BatchInv' /\ CallInv'
    BY <1>1, <1>5 DEF ReadInv, OrderInv, BatchInv, CallInv, Ordered, Packing
  <1>12. \A i \in Index' : ChainInv(i)' /\ ItemInv(i)'
    <2> SUFFICES ASSUME NEW i \in Index PROVE ChainInv(i)' /\ ItemInv(i)'
      BY <1>2
    <2>1. Rest' = {}
      BY <1>1, <1>5 DEF Rest
    <2>2. Reached(i)' = 0
      BY <1>1, <1>4 DEF Reached
    <2>3. progress'[i] = 0 /\ err'[i] = None /\ dataLen'[i] = Length(items[i])
      BY <1>1, <1>6
    <2>4. ChainInv(i)'
      BY <2>1, <2>2, <2>3 DEF ChainInv
    <2>5. ItemInv(i)'
      BY <1>1, <1>4, <2>3 DEF ItemInv
    <2> QED BY <2>4, <2>5
  <1>13. DataIsPrefix' /\ ResultIsWhole' /\ NoLateSurprise'
    BY <1>1, <1>2 DEF ReadInv, DataIsPrefix, ResultIsWhole, NoLateSurprise
  <1> QED BY <1>7, <1>8, <1>9, <1>10, <1>11, <1>12, <1>13 DEF ReadInv

LEMMA NextReadBatchRead == ASSUME ReadInv, NextReadBatch PROVE ReadInv'
  <1>1. /\ pc = "plan" /\ pc' = "pack"
        /\ batch' = <<>> /\ requestSize' = 12 /\ responseSize' = 14
        /\ UNCHANGED <<items, area, original, offset, asked, answer, err, progress, got,
                       dataLen, fatal>>
    BY DEF NextReadBatch, inputVars, iteratorVars, resultVars, dataVars
  <1>2. /\ Index' = Index /\ Fragments' = Fragments
        /\ FragmentCounts' = FragmentCounts /\ CountReadFragments' = CountReadFragments
        /\ \A i, j, x : Cut(i, j, x)' <=> Cut(i, j, x)
    BY <1>1, SameItems
  <1>3. pc \in Reading /\ pc' \in Reading /\ batch = <<>>
    BY <1>1 DEF ReadInv, BatchInv, Reading, Packing
  <1>4. TypeInv'
    <2>1. requestSize' \in Int /\ responseSize' \in Int /\ batch' \in Seq(Fragments)
      BY <1>1
    <2> QED BY <1>1, <1>2, <1>3, <2>1 DEF ReadInv, TypeInv
  <1>5. AcceptedInv'
    BY <1>1, <1>2, <1>3 DEF ReadInv, AcceptedInv, ItemError
  <1>6. IteratorInv'
    <2>1. Taken' = Taken
      <3>1. asked \in Seq(Fragments) /\ Len(asked) \in Nat
        BY DEF ReadInv, TypeInv
      <3> QED BY <1>1, <3>1 DEF Taken
    <2>2. More' <=> More
      BY <1>1 DEF More
    <2> QED BY <1>1, <1>2, <1>3, <2>1, <2>2 DEF ReadInv, IteratorInv
  <1>7. CountInv'
    BY <1>1, <1>2 DEF ReadInv, CountInv
  <1>8. OrderInv'
    <2>1. Ordered(asked)' /\ Ordered(batch)'
      BY <1>1 DEF ReadInv, OrderInv, Ordered, Precedes, End
    <2>2. \A k \in DOMAIN asked : Precedes(asked[k], original, offset)
      BY <1>3 DEF ReadInv, OrderInv
    <2> QED BY <1>1, <2>1, <2>2 DEF OrderInv, Precedes, End
  <1>9. BatchInv'
    <2>1. [k \in DOMAIN batch' |-> batch'[k].length] = <<>> /\ Len(batch') = 0
      BY <1>1
    <2>2. ReadResponseSize([k \in DOMAIN batch' |-> batch'[k].length]) = 14
      BY <2>1, SizesOfNone
    <2>3. ReadRequestSize(Len(batch')) = 12
      BY <2>1 DEF ReadRequestSize, JobHeaderSize, ItemSpecSize
    <2>4. Len(batch') <= MaxItemsPerPDU
      BY <2>1, ReadAssumption
    <2> QED BY <1>1, <2>2, <2>3, <2>4 DEF BatchInv, Packing
  <1>10. CallInv'
    BY <1>1 DEF ReadInv, CallInv
  <1>11. \A i \in Index' : ChainInv(i)' /\ ItemInv(i)'
    <2> SUFFICES ASSUME NEW i \in Index PROVE ChainInv(i)' /\ ItemInv(i)'
      BY <1>2
    <2>1. Rest' = {} /\ Rest = {}
      BY <1>1, <1>3 DEF Rest
    <2>2. Reached(i)' = Reached(i)
      BY <1>1 DEF Reached
    <2>3. ChainInv(i)'
      BY <1>1, <1>3, <2>1, <2>2 DEF ReadInv, ChainInv
    <2>4. ItemInv(i)'
      BY <1>1, <1>3 DEF ReadInv, ItemInv
    <2> QED BY <2>3, <2>4
  <1>12. DataIsPrefix' /\ ResultIsWhole' /\ NoLateSurprise'
    BY <1>1, <1>2 DEF ReadInv, DataIsPrefix, ResultIsWhole, NoLateSurprise
  <1> QED BY <1>4, <1>5, <1>6, <1>7, <1>8, <1>9, <1>10, <1>11, <1>12 DEF ReadInv

LEMMA Advanced ==
    ASSUME ReadInv, pc = "pack", More, Advance, items' = items
    PROVE  /\ original' \in Nat \ {0} /\ original' <= Len(items) + 1 /\ offset' \in Nat
           /\ \E l \in 0..offset' :
                /\ IF original' <= Len(items) THEN Cut(original', l, offset')
                                              ELSE l = 0 /\ offset' = 0
                /\ Taken + 1 <= Total(FragmentCounts, original' - 1) + l
           /\ Precedes(Current, original', offset')
           /\ \A f \in Fragments : Precedes(f, original, offset)
                => Precedes(f, original', offset')
           /\ \A i \in Index :
                Reached(i)' = IF i = original THEN End(Current) ELSE Reached(i)
  <1>1. Valid /\ original \in Index
    BY CurrentFacts
  <1>2. PICK j \in Nat : Cut(original, j, offset)
                           /\ Taken <= Total(FragmentCounts, original - 1) + j
    BY CurrentFacts
  <1>3. Taken \in Int
    <2>1. asked \in Seq(Fragments) /\ batch \in Seq(Fragments)
      BY DEF ReadInv, TypeInv
    <2>2. Len(asked) \in Nat /\ Len(batch) \in Nat
      BY <2>1
    <2> QED BY <2>2 DEF Taken
  <1> DEFINE o == original'
             x == offset'
             n == Taken
  <1>4. IF offset + Current.length < Length(items[original])
          THEN x = offset + Current.length /\ o = original
          ELSE o = original + 1 /\ x = 0
    BY DEF Advance
  <1>5. \A i \in Index : Reached(i)' = IF i < o THEN Length(items[i])
                                       ELSE IF i = o THEN x ELSE 0
    BY DEF Reached
  <1>6. \A f \in Fragments : f.original \in Nat /\ End(f) \in Int
    <2>1. \A i \in Index : i \in Nat
      BY <1>1, Counts
    <2> SUFFICES ASSUME NEW f \in Fragments PROVE f.original \in Nat /\ End(f) \in Int
      OBVIOUS
    <2>2. f.original \in Index /\ f.offset \in Nat /\ f.length \in Nat
      BY DEF Fragments
    <2> QED BY <2>1, <2>2 DEF End
  <1>7. Cut(original, j, offset) /\ n <= Total(FragmentCounts, original - 1) + j
    BY <1>2
  <1> HIDE DEF o, x, n
  <1>8. /\ o \in Nat \ {0} /\ o <= Len(items) + 1 /\ x \in Nat
        /\ \E l \in 0..x :
             /\ IF o <= Len(items) THEN Cut(o, l, x) ELSE l = 0 /\ x = 0
             /\ n + 1 <= Total(FragmentCounts, o - 1) + l
        /\ Precedes(Current, o, x)
        /\ \A f : f.original \in Nat /\ End(f) \in Int /\ Precedes(f, original, offset)
             => Precedes(f, o, x)
        /\ \A i \in Index :
             (IF i < o THEN Length(items[i]) ELSE IF i = o THEN x ELSE 0)
               = IF i = original THEN End(Current) ELSE Reached(i)
    <2>1. n \in Int
      BY <1>3 DEF n
    <2> QED BY ONLY <1>1, <1>4, <1>7, <2>1, j \in Nat, Iteration
  <1>9. \A f \in Fragments : Precedes(f, original, offset) => Precedes(f, o, x)
    BY <1>6, <1>8
  <1>10. \A i \in Index : Reached(i)' = IF i = original THEN End(Current) ELSE Reached(i)
    BY <1>5, <1>8
  <1> QED BY <1>8, <1>9, <1>10 DEF o, x, n

LEMMA SkipFragmentRead == ASSUME ReadInv, SkipFragment PROVE ReadInv'
  <1>1. /\ pc = "pack" /\ More /\ Skip /\ Advance
        /\ UNCHANGED <<items, area, pc, batch, requestSize, responseSize, asked, answer, err,
                       progress, got, dataLen, fatal>>
    BY DEF SkipFragment, inputVars, sizeVars, resultVars, dataVars
  <1>2. /\ Index' = Index /\ Fragments' = Fragments
        /\ FragmentCounts' = FragmentCounts /\ CountReadFragments' = CountReadFragments
        /\ \A i, j, x : Cut(i, j, x)' <=> Cut(i, j, x)
        /\ \A f : IsFragment(f)' <=> IsFragment(f)
    BY <1>1, SameItems
  <1>3. pc \in Reading /\ pc' \in Reading /\ pc' = "pack"
    BY <1>1 DEF Reading, Packing
  <1>4. /\ original' \in Nat \ {0} /\ original' <= Len(items) + 1 /\ offset' \in Nat
        /\ \E l \in 0..offset' :
             /\ IF original' <= Len(items) THEN Cut(original', l, offset')
                                           ELSE l = 0 /\ offset' = 0
             /\ Taken + 1 <= Total(FragmentCounts, original' - 1) + l
        /\ \A f \in Fragments : Precedes(f, original, offset)
             => Precedes(f, original', offset')
        /\ \A i \in Index : Reached(i)' = IF i = original THEN End(Current) ELSE Reached(i)
    BY <1>1, Advanced
  <1>5. Skip <=> err[original] # None
    BY DEF Skip
  <1>6. batch \in Seq(Fragments) /\ asked \in Seq(Fragments)
    BY DEF ReadInv, TypeInv
  <1>7. TypeInv'
    BY <1>1, <1>2, <1>4 DEF ReadInv, TypeInv
  <1>8. AcceptedInv'
    BY <1>1, <1>2, <1>3 DEF ReadInv, AcceptedInv, ItemError
  <1>9. IteratorInv'
    <2>1. PICK l \in 0..offset' :
             /\ IF original' <= Len(items) THEN Cut(original', l, offset')
                                           ELSE l = 0 /\ offset' = 0
             /\ Taken + 1 <= Total(FragmentCounts, original' - 1) + l
      BY <1>4
    <2>2. Taken' = Taken /\ Taken \in Int
      BY <1>1, <1>6 DEF Taken
    <2>3. Total(FragmentCounts, original' - 1) \in Int
      BY <1>1, <1>4, CurrentFacts, FragmentTotals
    <2>4. Taken <= Total(FragmentCounts, original' - 1) + l
      BY <1>4, <2>1, <2>2, <2>3
    <2>5. More' <=> original' <= Len(items)
      BY <1>1 DEF More
    <2> QED BY <1>1, <1>2, <1>4, <2>1, <2>2, <2>4, <2>5 DEF IteratorInv
  <1>10. CountInv' /\ CallInv'
    BY <1>1, <1>2 DEF ReadInv, CountInv, CallInv
  <1>11. OrderInv'
    <2>1. \A k \in DOMAIN asked : Precedes(asked[k], original', offset')
      BY <1>3, <1>4, <1>6 DEF ReadInv, OrderInv
    <2>2. \A k \in DOMAIN batch : Precedes(batch[k], original', offset')
      BY <1>3, <1>4, <1>6 DEF ReadInv, OrderInv
    <2>3. Ordered(asked) /\ Ordered(batch)
      BY DEF ReadInv, OrderInv
    <2>4. \A j \in DOMAIN asked, k \in DOMAIN batch :
             Precedes(asked[j], batch[k].original, batch[k].offset)
      BY <1>1 DEF ReadInv, OrderInv
    <2> QED BY <1>1, <2>1, <2>2, <2>3, <2>4 DEF OrderInv, Ordered, Precedes, End
  <1>12. BatchInv'
    BY <1>1, <1>2 DEF ReadInv, BatchInv
  <1>13. \A i \in Index' : ChainInv(i)' /\ ItemInv(i)'
    <2> SUFFICES ASSUME NEW i \in Index PROVE ChainInv(i)' /\ ItemInv(i)'
      BY <1>2
    <2>1. Rest' = Rest
      BY <1>1 DEF Rest
    <2>2. err[i] = None => Reached(i)' = Reached(i)
      BY <1>1, <1>4, <1>5
    <2>3. ChainInv(i)'
      BY <1>1, <1>3, <2>1, <2>2 DEF ReadInv, ChainInv, End
    <2>4. ItemInv(i)'
      BY <1>1 DEF ReadInv, ItemInv
    <2> QED BY <2>3, <2>4
  <1>14. DataIsPrefix' /\ ResultIsWhole' /\ NoLateSurprise'
    BY <1>1, <1>2 DEF ReadInv, DataIsPrefix, ResultIsWhole, NoLateSurprise
  <1> QED BY <1>7, <1>8, <1>9, <1>10, <1>11, <1>12, <1>13, <1>14 DEF ReadInv

\* Padding and the candidate sizes of nextReadBatch are those of the longer batch.
LEMMA CandidateSizes ==
    ASSUME ReadInv, pc = "pack", More
    PROVE  /\ CandidateRequest = ReadRequestSize(Len(Append(batch, Current)))
           /\ CandidateResponse = ReadResponseSize(
                [k \in DOMAIN Append(batch, Current) |-> Append(batch, Current)[k].length])
           /\ CandidateRequest \in Int /\ CandidateResponse \in Int
  <1> DEFINE lens == [k \in DOMAIN batch |-> batch[k].length]
             more == Append(batch, Current)
             x == Current.length
  <1>1. batch \in Seq(Fragments)
    BY DEF ReadInv, TypeInv
  <1>2. Current \in Fragments /\ x \in Nat \ {0}
    BY CurrentFacts
  <1>3. requestSize = ReadRequestSize(Len(batch)) /\ responseSize = ReadResponseSize(lens)
    BY DEF ReadInv, BatchInv, Packing
  <1> HIDE DEF Current
  <1>4. Len(batch) \in Nat /\ DOMAIN batch = 1..Len(batch) /\ Len(more) = Len(batch) + 1
    BY <1>1
  <1>5. \A k \in DOMAIN batch : batch[k].length \in Int
    <2>1. \A k \in DOMAIN batch : batch[k] \in Fragments
      BY <1>1
    <2> QED BY <2>1 DEF Fragments
  <1>6. lens \in Seq(Int) /\ Len(lens) = Len(batch)
    BY <1>4, <1>5
  <1>7. [k \in DOMAIN more |-> more[k].length] = Append(lens, x)
    BY <1>1, <1>4, <1>6
  <1>8. /\ ReadResponseSize(lens) \in Int
        /\ ReadResponseSize(Append(lens, x)) = ReadResponseSize(lens) + 4 + x + LastPadding(lens)
    <2>1. x \in Int
      BY <1>2
    <2> HIDE DEF lens, x
    <2> QED BY <1>6, <2>1, ReadSizeGrows
  <1>9. Padding = LastPadding(lens)
    <2>1. batch = <<>> <=> lens = <<>>
      BY <1>1, <1>4, <1>6
    <2>2. batch # <<>> => lens[Len(lens)] = batch[Len(batch)].length
      BY <1>1, <1>4, <1>6
    <2> HIDE DEF lens
    <2> QED BY <2>1, <2>2 DEF Padding, LastPadding
  <1>10. LastPadding(lens) \in Int
    BY DEF LastPadding
  <1> HIDE DEF lens, more
  <1>11. CandidateRequest = ReadRequestSize(Len(more)) /\ CandidateRequest \in Int
    BY <1>3, <1>4 DEF CandidateRequest, ReadRequestSize, JobHeaderSize, ItemSpecSize
  <1>12. CandidateResponse = ReadResponseSize(Append(lens, x)) /\ CandidateResponse \in Int
    <2>1. CandidateResponse = ReadResponseSize(lens) + 4 + x + LastPadding(lens)
      BY <1>3, <1>9 DEF CandidateResponse
    <2> HIDE DEF x
    <2>2. x \in Int
      BY <1>2
    <2> QED BY <1>8, <1>10, <2>1, <2>2
  <1> QED BY <1>7, <1>11, <1>12 DEF more

\* A fragment more: what the chain of its item's fragments ends at now.
LEMMA PackChain ==
    ASSUME ReadInv, Pack, NEW i \in Index
    PROVE  ChainInv(i)'
  <1>1. /\ pc = "pack" /\ More /\ Advance /\ batch' = Append(batch, Current)
        /\ UNCHANGED <<items, pc, err, progress>>
    BY DEF Pack, inputVars, resultVars, dataVars
  <1>2. batch \in Seq(Fragments) /\ progress \in [Index -> Nat] /\ progress[i] \in Nat
    BY DEF ReadInv, TypeInv
  <1>3. /\ Current \in Fragments /\ Current.original = original /\ Current.offset = offset
        /\ original \in Index
    BY <1>1, CurrentFacts
  <1>4. \A k \in Index : Reached(k)' = IF k = original THEN End(Current) ELSE Reached(k)
    BY <1>1, Advanced
  <1> DEFINE n == Len(batch)
             c == Current
  <1>5. /\ n \in Nat /\ DOMAIN batch = 1..n /\ DOMAIN batch' = 1..(n + 1)
        /\ batch'[n + 1] = c /\ \A k \in 1..n : batch'[k] = batch[k]
    BY <1>1, <1>2
  <1>6. Rest = 1..n /\ Rest' = 1..(n + 1)
    BY <1>1, <1>5 DEF Rest
  <1>7. SUFFICES ASSUME err[i] = None PROVE ChainInv(i)'
    BY <1>1 DEF ChainInv
  <1>8. /\ \A k \in 1..n : batch[k].original = i =>
             /\ progress[i] <= batch[k].offset
             /\ \/ batch[k].offset = progress[i]
                \/ \E j \in 1..n : j < k /\ batch[j].original = i
                                     /\ End(batch[j]) = batch[k].offset
        /\ \/ progress[i] = Reached(i)
           \/ \E k \in 1..n : batch[k].original = i /\ End(batch[k]) = Reached(i)
    BY <1>1, <1>6, <1>7 DEF ReadInv, ChainInv, Reading, Packing
  <1>9. \A k \in 1..n : batch[k].offset \in Nat /\ batch[k].length \in Nat
    <2>1. \A k \in 1..n : batch[k] \in Fragments
      BY <1>2, <1>5
    <2> QED BY <2>1 DEF Fragments
  <1>10. original = i => Reached(i) = offset
    <2>1. i \in Nat
      BY <1>1, CurrentFacts, Counts
    <2> QED BY <2>1 DEF Reached
  <1>11. Reached(i)' = IF i = original THEN End(c) ELSE Reached(i)
    BY <1>4
  <1>12. c.original = original /\ c.offset = offset /\ offset \in Nat
    BY <1>3 DEF ReadInv, TypeInv
  <1> HIDE DEF n, c
  <1>13. \A k \in 1..(n + 1) : k \in 1..n \/ k = n + 1
    BY <1>5
  <1>14. \A k \in 1..n : k \in 1..(n + 1) /\ k < n + 1
    BY <1>5
  <1>15. c.original = i =>
           /\ progress[i] <= c.offset
           /\ \/ c.offset = progress[i]
              \/ \E j \in 1..n : batch[j].original = i /\ End(batch[j]) = c.offset
    <2> SUFFICES ASSUME c.original = i
                 PROVE  /\ progress[i] <= c.offset
                        /\ \/ c.offset = progress[i]
                           \/ \E j \in 1..n : batch[j].original = i /\ End(batch[j]) = c.offset
      OBVIOUS
    <2>1. Reached(i) = c.offset /\ c.offset \in Nat
      BY <1>10, <1>12
    <2>2. CASE progress[i] = Reached(i)
      BY <1>2, <2>1, <2>2
    <2>3. CASE \E k \in 1..n : batch[k].original = i /\ End(batch[k]) = Reached(i)
      <3>1. PICK k \in 1..n : batch[k].original = i /\ End(batch[k]) = Reached(i)
        BY <2>3
      <3>2. progress[i] <= batch[k].offset
        BY <1>8, <3>1
      <3>3. End(batch[k]) = batch[k].offset + batch[k].length
        BY DEF End
      <3>4. progress[i] <= c.offset
        BY <1>2, <1>9, <2>1, <3>1, <3>2, <3>3
      <3> QED BY <2>1, <3>1, <3>4
    <2> QED BY <1>8, <2>2, <2>3
  <1>16. \A k \in Rest' : batch'[k].original = i =>
           /\ progress[i] <= batch'[k].offset
           /\ \/ batch'[k].offset = progress[i]
              \/ \E j \in Rest' : j < k /\ batch'[j].original = i
                                    /\ End(batch'[j]) = batch'[k].offset
    <2> SUFFICES ASSUME NEW k \in 1..(n + 1), batch'[k].original = i
                 PROVE  /\ progress[i] <= batch'[k].offset
                        /\ \/ batch'[k].offset = progress[i]
                           \/ \E j \in 1..(n + 1) : j < k /\ batch'[j].original = i
                                 /\ End(batch'[j]) = batch'[k].offset
      BY <1>6
    <2>1. CASE k \in 1..n
      <3>1. batch'[k] = batch[k]
        BY <1>5, <2>1
      <3>2. progress[i] <= batch[k].offset
        BY <1>8, <2>1, <3>1
      <3>3. CASE batch[k].offset = progress[i]
        BY <3>1, <3>2, <3>3
      <3>4. CASE \E j \in 1..n : j < k /\ batch[j].original = i
                                   /\ End(batch[j]) = batch[k].offset
        <4>1. PICK j \in 1..n : j < k /\ batch[j].original = i
                                  /\ End(batch[j]) = batch[k].offset
          BY <3>4
        <4>2. batch'[j] = batch[j] /\ j \in 1..(n + 1)
          BY <1>5, <1>14
        <4> QED BY <3>1, <3>2, <4>1, <4>2
      <3> QED BY <1>8, <2>1, <3>1, <3>3, <3>4
    <2>2. CASE k = n + 1
      <3>1. batch'[k] = c
        BY <1>5, <2>2
      <3>2. CASE \E j \in 1..n : batch[j].original = i /\ End(batch[j]) = c.offset
        <4>1. PICK j \in 1..n : batch[j].original = i /\ End(batch[j]) = c.offset
          BY <3>2
        <4>2. batch'[j] = batch[j] /\ j \in 1..(n + 1) /\ j < k
          BY <1>5, <1>14, <2>2
        <4> QED BY <1>15, <3>1, <4>1, <4>2
      <3>3. CASE c.offset = progress[i]
        BY <1>15, <3>1, <3>3
      <3> QED BY <1>15, <3>1, <3>2, <3>3
    <2> QED BY <1>13, <2>1, <2>2
  <1>17. \/ progress[i] = Reached(i)'
         \/ \E k \in Rest' : batch'[k].original = i /\ End(batch'[k]) = Reached(i)'
    <2>1. CASE i = original
      <3>1. n + 1 \in Rest'
        BY <1>5, <1>6
      <3> QED BY <1>5, <1>11, <1>12, <2>1, <3>1
    <2>2. CASE i # original
      <3>1. Reached(i)' = Reached(i)
        BY <1>11, <2>2
      <3>2. \A k \in 1..n : k \in Rest' /\ batch'[k] = batch[k]
        BY <1>5, <1>6, <1>14
      <3> QED BY <1>8, <3>1, <3>2
    <2> QED BY <2>1, <2>2
  <1>18. \A f : End(f)' = End(f)
    BY DEF End
  <1>19. progress' = progress /\ err' = err
    BY <1>1
  <1> QED BY <1>16, <1>17, <1>18, <1>19 DEF ChainInv, End

LEMMA PackRead == ASSUME ReadInv, Pack PROVE ReadInv'
  <1>1. /\ pc = "pack" /\ More /\ ~Skip /\ Fits /\ Advance
        /\ batch' = Append(batch, Current)
        /\ requestSize' = CandidateRequest /\ responseSize' = CandidateResponse
        /\ UNCHANGED <<items, area, pc, asked, answer, err, progress, got, dataLen, fatal>>
    BY DEF Pack, inputVars, resultVars, dataVars
  <1>2. /\ Index' = Index /\ Fragments' = Fragments
        /\ FragmentCounts' = FragmentCounts /\ CountReadFragments' = CountReadFragments
        /\ \A i, j, x : Cut(i, j, x)' <=> Cut(i, j, x)
        /\ \A f : IsFragment(f)' <=> IsFragment(f)
    BY <1>1, SameItems
  <1>3. pc \in Reading /\ pc' \in Reading /\ pc' = "pack"
    BY <1>1 DEF Reading, Packing
  <1>4. /\ original' \in Nat \ {0} /\ original' <= Len(items) + 1 /\ offset' \in Nat
        /\ \E l \in 0..offset' :
             /\ IF original' <= Len(items) THEN Cut(original', l, offset')
                                           ELSE l = 0 /\ offset' = 0
             /\ Taken + 1 <= Total(FragmentCounts, original' - 1) + l
        /\ Precedes(Current, original', offset')
        /\ \A f \in Fragments : Precedes(f, original, offset)
             => Precedes(f, original', offset')
    BY <1>1, Advanced
  <1>5. /\ Current \in Fragments /\ IsFragment(Current)
        /\ Current.original = original /\ Current.offset = offset /\ err[original] = None
    BY <1>1, CurrentFacts DEF Skip
  <1>6. batch \in Seq(Fragments) /\ asked \in Seq(Fragments)
    BY DEF ReadInv, TypeInv
  <1>7. /\ requestSize' = ReadRequestSize(Len(batch'))
        /\ responseSize' = ReadResponseSize([k \in DOMAIN batch' |-> batch'[k].length])
        /\ requestSize' \in Int /\ responseSize' \in Int
    BY <1>1, CandidateSizes
  <1>8. requestSize' <= PDU /\ responseSize' <= PDU /\ Len(batch) # MaxItemsPerPDU
    BY <1>1 DEF Fits
  <1> DEFINE n == Len(batch)
             c == Current
  <1>9. /\ n \in Nat /\ DOMAIN batch = 1..n /\ DOMAIN batch' = 1..(n + 1)
        /\ batch'[n + 1] = c /\ Len(batch') = n + 1
        /\ \A k \in 1..n : batch'[k] = batch[k]
    BY <1>1, <1>6
  <1>10. \A k \in 1..(n + 1) : k \in 1..n \/ k = n + 1
    BY <1>9
  <1>11. TypeInv'
    <2>1. batch' \in Seq(Fragments)
      BY <1>1, <1>5, <1>6
    <2> QED BY <1>1, <1>2, <1>4, <1>7, <2>1 DEF ReadInv, TypeInv
  <1> HIDE DEF n, c
  <1>12. AcceptedInv'
    BY <1>1, <1>2, <1>3 DEF ReadInv, AcceptedInv, ItemError
  <1>13. IteratorInv'
    <2>1. PICK l \in 0..offset' :
             /\ IF original' <= Len(items) THEN Cut(original', l, offset')
                                           ELSE l = 0 /\ offset' = 0
             /\ Taken + 1 <= Total(FragmentCounts, original' - 1) + l
      BY <1>4
    <2>2. Taken' = Taken + 1
      BY <1>1, <1>6, <1>9 DEF Taken, n
    <2>3. More' <=> original' <= Len(items)
      BY <1>1 DEF More
    <2> QED BY <1>1, <1>2, <1>4, <2>1, <2>2, <2>3 DEF IteratorInv
  <1>14. CountInv' /\ CallInv'
    BY <1>1, <1>2 DEF ReadInv, CountInv, CallInv
  <1>15. OrderInv'
    <2>1. \A k \in DOMAIN asked : asked[k] \in Fragments /\ Precedes(asked[k], original, offset)
      BY <1>3, <1>6 DEF ReadInv, OrderInv
    <2>2. \A k \in 1..n : batch[k] \in Fragments /\ Precedes(batch[k], original, offset)
      BY <1>3, <1>6, <1>9 DEF ReadInv, OrderInv
    <2>3. Ordered(asked)
      BY DEF ReadInv, OrderInv
    <2>4. \A j, k \in 1..n : j < k => Precedes(batch[j], batch[k].original, batch[k].offset)
      BY <1>9 DEF ReadInv, OrderInv, Ordered
    <2>5. \A j \in DOMAIN asked, k \in 1..n :
             Precedes(asked[j], batch[k].original, batch[k].offset)
      BY <1>1, <1>9 DEF ReadInv, OrderInv
    <2>6. Ordered(batch')
      <3> SUFFICES ASSUME NEW j \in 1..(n + 1), NEW k \in 1..(n + 1), j < k
                   PROVE  Precedes(batch'[j], batch'[k].original, batch'[k].offset)
        BY <1>9 DEF Ordered
      <3>1. j \in 1..n
        BY <1>9
      <3>2. CASE k \in 1..n
        BY <1>9, <2>4, <3>1, <3>2
      <3>3. CASE k = n + 1
        BY <1>5, <1>9, <2>2, <3>1, <3>3 DEF c
      <3> QED BY <1>10, <3>2, <3>3
    <2>7. \A k \in DOMAIN asked : Precedes(asked[k], original', offset')
      BY <1>4, <2>1
    <2>8. \A k \in DOMAIN batch' : Precedes(batch'[k], original', offset')
      BY <1>4, <1>9, <1>10, <2>2 DEF c
    <2>9. \A j \in DOMAIN asked, k \in DOMAIN batch' :
             Precedes(asked[j], batch'[k].original, batch'[k].offset)
      BY <1>5, <1>9, <1>10, <2>1, <2>5 DEF c
    <2> QED BY <1>1, <2>3, <2>6, <2>7, <2>8, <2>9 DEF OrderInv, Ordered, Precedes, End
  <1>16. BatchInv'
    <2>1. \A k \in 1..n : IsFragment(batch[k]) /\ err[batch[k].original] = None
      BY <1>1, <1>9 DEF ReadInv, BatchInv, Packing
    <2>2. \A k \in DOMAIN batch' : IsFragment(batch'[k]) /\ err[batch'[k].original] = None
      BY <1>5, <1>9, <1>10, <2>1 DEF c
    <2>3. Len(batch') <= MaxItemsPerPDU
      <3>1. n <= MaxItemsPerPDU
        BY <1>1 DEF ReadInv, BatchInv, Packing, n
      <3>2. n # MaxItemsPerPDU /\ MaxItemsPerPDU \in Nat
        BY <1>8, ReadAssumption DEF n
      <3> QED BY <1>9, <3>1, <3>2
    <2> QED BY <1>1, <1>2, <1>3, <1>7, <1>8, <2>2, <2>3 DEF BatchInv, Packing
  <1>17. \A i \in Index' : ChainInv(i)' /\ ItemInv(i)'
    <2> SUFFICES ASSUME NEW i \in Index PROVE ChainInv(i)' /\ ItemInv(i)'
      BY <1>2
    <2>1. ChainInv(i)'
      BY PackChain
    <2>2. ItemInv(i)'
      BY <1>1 DEF ReadInv, ItemInv
    <2> QED BY <2>1, <2>2
  <1>18. DataIsPrefix' /\ ResultIsWhole' /\ NoLateSurprise'
    BY <1>1, <1>2 DEF ReadInv, DataIsPrefix, ResultIsWhole, NoLateSurprise
  <1> QED BY <1>11, <1>12, <1>13, <1>14, <1>15, <1>16, <1>17, <1>18 DEF ReadInv

\* The limit on the fragments of a call bounds those that are packed.
LEMMA TakenIsCounted ==
    ASSUME ReadInv, pc = "pack"
    PROVE  Taken <= CountReadFragments /\ CountReadFragments <= MaxFragmentsPerCall
  <1>1. Valid
    BY ReadingIsValid DEF Reading, Packing
  <1>2. original \in Nat \ {0} /\ offset \in Nat /\ original <= Len(items) + 1
    BY DEF ReadInv, TypeInv, IteratorInv, Reading, Packing
  <1>3. CountReadFragments <= MaxFragmentsPerCall
    BY DEF ReadInv, AcceptedInv, Reading, Packing
  <1>4. Taken \in Int
    <2>1. asked \in Seq(Fragments) /\ batch \in Seq(Fragments)
      BY DEF ReadInv, TypeInv
    <2>2. Len(asked) \in Nat /\ Len(batch) \in Nat
      BY <2>1
    <2> QED BY <2>2 DEF Taken
  <1>5. CASE ~More
    <2>1. Taken <= Total(FragmentCounts, original - 1) + 0
      BY <1>5 DEF ReadInv, IteratorInv, Reading, Packing
    <2>2. /\ Total(FragmentCounts, original - 1) \in Nat /\ CountReadFragments \in Nat
          /\ Total(FragmentCounts, original - 1) <= CountReadFragments
      BY <1>1, <1>2, FragmentTotals
    <2> QED BY <1>3, <1>4, <2>1, <2>2
  <1>6. CASE More
    <2>1. PICK j \in Nat : Cut(original, j, offset)
                             /\ Taken <= Total(FragmentCounts, original - 1) + j
      BY <1>6, CurrentFacts
    <2>2. original \in Index /\ Len(items) \in Nat /\ Index = 1..Len(items)
      BY <1>1, <1>6, CurrentFacts, Counts
    <2>3. j + 1 <= FragmentCounts[original] /\ FragmentCounts[original] \in Nat
      BY <1>1, <2>1, <2>2, Counts DEF Cut
    <2> DEFINE m == original - 1
    <2>4. m \in Nat /\ m + 1 = original
      BY <1>2
    <2>5. Numbers(FragmentCounts, original)
      BY <1>1, <2>2, Counts DEF Numbers
    <2> HIDE DEF m
    <2>6. Total(FragmentCounts, m + 1) = Total(FragmentCounts, m) + FragmentCounts[m + 1]
          /\ Total(FragmentCounts, m) \in Int
      BY <2>4, <2>5, TotalStep
    <2>7. Total(FragmentCounts, original) <= CountReadFragments /\ CountReadFragments \in Nat
      <3> DEFINE o == original + 1
      <3>1. o \in Nat \ {0} /\ o <= Len(items) + 1 /\ o - 1 = original
        BY <1>2, <2>2
      <3> HIDE DEF o
      <3>2. Total(FragmentCounts, o - 1) <= CountReadFragments /\ CountReadFragments \in Nat
        BY <1>1, <3>1, FragmentTotals
      <3> QED BY <3>1, <3>2
    <2>8. Taken <= Total(FragmentCounts, m) + j
      BY <2>1 DEF m
    <2> QED BY <1>3, <1>4, <2>3, <2>4, <2>6, <2>7, <2>8
  <1> QED BY <1>5, <1>6

LEMMA PlanRead == ASSUME ReadInv, Plan PROVE ReadInv'
  <1>1. /\ pc = "pack" /\ pc' = "exchange" /\ batch # <<>> /\ asked' = asked \o batch
        /\ UNCHANGED <<items, area, original, offset, batch, requestSize, responseSize,
                       answer, err, progress, got, dataLen, fatal>>
    BY DEF Plan, Packed, inputVars, iteratorVars, sizeVars, resultVars, dataVars
  <1>2. /\ Index' = Index /\ Fragments' = Fragments
        /\ FragmentCounts' = FragmentCounts /\ CountReadFragments' = CountReadFragments
        /\ \A i, j, x : Cut(i, j, x)' <=> Cut(i, j, x)
        /\ \A f : IsFragment(f)' <=> IsFragment(f)
    BY <1>1, SameItems
  <1>3. pc \in Reading /\ pc' \in Reading
    BY <1>1 DEF Reading, Packing
  <1>4. batch \in Seq(Fragments) /\ asked \in Seq(Fragments)
    BY DEF ReadInv, TypeInv
  <1> DEFINE m == Len(asked)
             n == Len(batch)
  <1>5. /\ m \in Nat /\ n \in Nat /\ DOMAIN asked = 1..m /\ DOMAIN batch = 1..n
        /\ asked' \in Seq(Fragments) /\ Len(asked') = m + n /\ DOMAIN asked' = 1..(m + n)
        /\ \A k \in 1..m : asked'[k] = asked[k]
        /\ \A k \in 1..(m + n) : k \notin 1..m => k - m \in 1..n /\ asked'[k] = batch[k - m]
    BY <1>1, <1>4
  <1>6. Taken = m + n /\ Taken' = m + n
    BY <1>1, <1>5 DEF Taken
  <1>7. m + n <= CountReadFragments /\ CountReadFragments <= MaxFragmentsPerCall
    BY <1>1, <1>6, TakenIsCounted
  <1> HIDE DEF m, n
  <1>8. TypeInv'
    BY <1>1, <1>2, <1>3, <1>5 DEF ReadInv, TypeInv
  <1>9. AcceptedInv'
    BY <1>1, <1>2, <1>3 DEF ReadInv, AcceptedInv, ItemError
  <1>10. IteratorInv'
    <2>1. More' <=> More
      BY <1>1 DEF More
    <2> QED BY <1>1, <1>2, <1>3, <1>6, <2>1 DEF ReadInv, IteratorInv
  <1>11. CountInv'
    <2>1. CountReadFragments \in Nat /\ MaxFragmentsPerCall \in Nat
      <3>1. Valid /\ original \in Nat \ {0} /\ original <= Len(items) + 1
        BY <1>3, ReadingIsValid DEF ReadInv, TypeInv, IteratorInv
      <3> QED BY <3>1, FragmentTotals, ReadAssumption
    <2> QED BY <1>2, <1>5, <1>7, <2>1 DEF CountInv
  <1>12. OrderInv'
    <2>1. /\ \A j, k \in 1..m : j < k => Precedes(asked[j], asked[k].original, asked[k].offset)
          /\ \A j, k \in 1..n : j < k => Precedes(batch[j], batch[k].original, batch[k].offset)
      BY <1>5 DEF ReadInv, OrderInv, Ordered
    <2>2. /\ \A k \in 1..m : Precedes(asked[k], original, offset)
          /\ \A k \in 1..n : Precedes(batch[k], original, offset)
      BY <1>3, <1>5 DEF ReadInv, OrderInv
    <2>3. \A j \in 1..m, k \in 1..n : Precedes(asked[j], batch[k].original, batch[k].offset)
      BY <1>1, <1>5 DEF ReadInv, OrderInv
    <2>4. Ordered(asked')
      <3> SUFFICES ASSUME NEW j \in 1..(m + n), NEW k \in 1..(m + n), j < k
                   PROVE  Precedes(asked'[j], asked'[k].original, asked'[k].offset)
        BY <1>5 DEF Ordered
      <3>1. CASE k \in 1..m
        <4>1. j \in 1..m
          BY <1>5, <3>1
        <4> QED BY <1>5, <2>1, <3>1, <4>1
      <3>2. CASE j \in 1..m /\ k \notin 1..m
        BY <1>5, <2>3, <3>2
      <3>3. CASE j \notin 1..m /\ k \notin 1..m
        <4> DEFINE a == j - m
                   b == k - m
        <4>1. a \in 1..n /\ b \in 1..n /\ asked'[j] = batch[a] /\ asked'[k] = batch[b]
          BY <1>5, <3>3
        <4>2. a < b
          BY <1>5
        <4> HIDE DEF a, b
        <4> QED BY <2>1, <4>1, <4>2
      <3>4. j \notin 1..m => k \notin 1..m
        BY <1>5
      <3> QED BY <3>1, <3>2, <3>3, <3>4
    <2>5. \A k \in DOMAIN asked' : Precedes(asked'[k], original, offset)
      BY <1>5, <2>2
    <2>6. Ordered(batch) /\ \A k \in DOMAIN batch : Precedes(batch[k], original, offset)
      BY <1>5, <2>2 DEF ReadInv, OrderInv
    <2> QED BY <1>1, <2>4, <2>5, <2>6 DEF OrderInv
  <1>13. BatchInv'
    BY <1>1, <1>2 DEF ReadInv, BatchInv, Packing
  <1>14. CallInv'
    BY <1>1 DEF ReadInv, CallInv
  <1>15. \A i \in Index' : ChainInv(i)' /\ ItemInv(i)'
    <2> SUFFICES ASSUME NEW i \in Index PROVE ChainInv(i)' /\ ItemInv(i)'
      BY <1>2
    <2>1. Rest' = Rest /\ Reached(i)' = Reached(i)
      BY <1>1 DEF Rest, Reached
    <2>2. ChainInv(i)'
      BY <1>1, <1>3, <2>1 DEF ReadInv, ChainInv, End
    <2>3. ItemInv(i)'
      BY <1>1, <1>3 DEF ReadInv, ItemInv
    <2> QED BY <2>2, <2>3
  <1>16. DataIsPrefix' /\ ResultIsWhole' /\ NoLateSurprise'
    <2>1. fatal' = None
      BY <1>1 DEF ReadInv, CallInv
    <2>2. NoLateSurprise'
      BY <2>1 DEF NoLateSurprise, None, NoError
    <2> QED BY <1>1, <1>2, <2>2 DEF ReadInv, DataIsPrefix, ResultIsWhole
  <1> QED BY <1>8, <1>9, <1>10, <1>11, <1>12, <1>13, <1>14, <1>15, <1>16 DEF ReadInv

-----------------------------------------------------------------------------
\* Answers

LEMMA ReadCodesRead == ASSUME ReadInv, ReadCodes PROVE ReadInv'
  <1>1. /\ pc = "exchange" /\ pc' = "merge" /\ answer' = 1
        /\ UNCHANGED <<items, area, original, offset, batch, requestSize, responseSize,
                       asked, err, progress, got, dataLen, fatal>>
    BY DEF ReadCodes, inputVars, planVars, iteratorVars, sizeVars, resultVars, dataVars
  <1>2. /\ Index' = Index /\ Fragments' = Fragments
        /\ FragmentCounts' = FragmentCounts /\ CountReadFragments' = CountReadFragments
        /\ \A i, j, x : Cut(i, j, x)' <=> Cut(i, j, x)
        /\ \A f : IsFragment(f)' <=> IsFragment(f)
    BY <1>1, SameItems
  <1>3. pc \in Reading /\ pc' \in Reading
    BY <1>1 DEF Reading, Packing
  <1>4. TypeInv'
    BY <1>1, <1>2, <1>3 DEF ReadInv, TypeInv
  <1>5. AcceptedInv'
    BY <1>1, <1>2, <1>3 DEF ReadInv, AcceptedInv, ItemError
  <1>6. IteratorInv'
    <2>1. (More' <=> More) /\ Taken' = Taken
      BY <1>1 DEF More, Taken
    <2> QED BY <1>1, <1>2, <1>3, <2>1 DEF ReadInv, IteratorInv
  <1>7. CountInv' /\ CallInv'
    BY <1>1, <1>2 DEF ReadInv, CountInv, CallInv
  <1>8. OrderInv'
    BY <1>1, <1>3 DEF ReadInv, OrderInv, Ordered, Precedes, End
  <1>9. BatchInv'
    BY <1>1, <1>2 DEF ReadInv, BatchInv, Packing
  <1>10. \A i \in Index' : ChainInv(i)' /\ ItemInv(i)'
    <2> SUFFICES ASSUME NEW i \in Index PROVE ChainInv(i)' /\ ItemInv(i)'
      BY <1>2
    <2>1. Rest' = Rest
      <3>1. batch \in Seq(Fragments)
        BY DEF ReadInv, TypeInv
      <3> QED BY <1>1, <3>1 DEF Rest
    <2>2. Reached(i)' = Reached(i)
      BY <1>1 DEF Reached
    <2>3. ChainInv(i)'
      BY <1>1, <1>3, <2>1, <2>2 DEF ReadInv, ChainInv, End
    <2>4. ItemInv(i)'
      BY <1>1, <1>3 DEF ReadInv, ItemInv
    <2> QED BY <2>3, <2>4
  <1>11. DataIsPrefix' /\ ResultIsWhole' /\ NoLateSurprise'
    BY <1>1, <1>2 DEF ReadInv, DataIsPrefix, ResultIsWhole, NoLateSurprise
  <1> QED BY <1>4, <1>5, <1>6, <1>7, <1>8, <1>9, <1>10, <1>11 DEF ReadInv

LEMMA MergedRead == ASSUME ReadInv, Merged PROVE ReadInv'
  <1>1. /\ pc = "merge" /\ pc' = "plan" /\ answer > Len(batch) /\ batch' = <<>>
        /\ UNCHANGED <<items, area, original, offset, requestSize, responseSize,
                       asked, answer, err, progress, got, dataLen, fatal>>
    BY DEF Merged, inputVars, iteratorVars, sizeVars, resultVars, dataVars
  <1>2. /\ Index' = Index /\ Fragments' = Fragments
        /\ FragmentCounts' = FragmentCounts /\ CountReadFragments' = CountReadFragments
        /\ \A i, j, x : Cut(i, j, x)' <=> Cut(i, j, x)
    BY <1>1, SameItems
  <1>3. pc \in Reading /\ pc' \in Reading
    BY <1>1 DEF Reading, Packing
  <1>4. TypeInv'
    <2>1. batch' \in Seq(Fragments)
      BY <1>1
    <2> QED BY <1>1, <1>2, <1>3, <2>1 DEF ReadInv, TypeInv
  <1>5. AcceptedInv'
    BY <1>1, <1>2, <1>3 DEF ReadInv, AcceptedInv, ItemError
  <1>6. IteratorInv'
    <2>1. (More' <=> More) /\ Taken' = Taken
      BY <1>1 DEF More, Taken
    <2> QED BY <1>1, <1>2, <1>3, <2>1 DEF ReadInv, IteratorInv
  <1>7. CountInv' /\ CallInv'
    BY <1>1, <1>2 DEF ReadInv, CountInv, CallInv
  <1>8. OrderInv'
    BY <1>1, <1>3 DEF ReadInv, OrderInv, Ordered, Precedes, End
  <1>9. BatchInv'
    BY <1>1 DEF BatchInv, Packing
  <1>10. \A i \in Index' : ChainInv(i)' /\ ItemInv(i)'
    <2> SUFFICES ASSUME NEW i \in Index PROVE ChainInv(i)' /\ ItemInv(i)'
      BY <1>2
    <2>1. Rest = {} /\ Rest' = {}
      <3>1. batch \in Seq(Fragments) /\ answer \in Nat
        BY DEF ReadInv, TypeInv
      <3>2. \A k \in DOMAIN batch : ~(k >= answer)
        BY <1>1, <3>1
      <3> QED BY <1>1, <3>2 DEF Rest
    <2>2. Reached(i)' = Reached(i)
      BY <1>1 DEF Reached
    <2>3. ChainInv(i)'
      BY <1>1, <1>3, <2>1, <2>2 DEF ReadInv, ChainInv
    <2>4. ItemInv(i)'
      BY <1>1, <1>3 DEF ReadInv, ItemInv
    <2> QED BY <2>3, <2>4
  <1>11. DataIsPrefix' /\ ResultIsWhole' /\ NoLateSurprise'
    BY <1>1, <1>2 DEF ReadInv, DataIsPrefix, ResultIsWhole, NoLateSurprise
  <1> QED BY <1>4, <1>5, <1>6, <1>7, <1>8, <1>9, <1>10, <1>11 DEF ReadInv

\* When no fragment is left, every item that has not failed is complete.
LEMMA FinishRead == ASSUME ReadInv, Finish PROVE ReadInv'
  <1> DEFINE Gap(i) == err[i] = None /\ progress[i] # Length(items[i])
  <1>1. /\ pc = "pack" /\ batch = <<>> /\ ~More /\ pc' = "return"
        /\ err' = [i \in Index |-> IF Gap(i) THEN "invariant" ELSE err[i]]
        /\ fatal' = IF \E i \in Index : Gap(i) THEN "invariant" ELSE None
        /\ dataLen' = [i \in Index |-> IF err'[i] # None THEN progress[i] ELSE dataLen[i]]
        /\ UNCHANGED <<items, area, original, offset, batch, requestSize, responseSize,
                       asked, answer, progress, got>>
    BY DEF Finish, Packed, inputVars, planVars, iteratorVars, sizeVars, dataVars
  <1>2. Index' = Index /\ Fragments' = Fragments /\ CountReadFragments' = CountReadFragments
    BY <1>1, SameItems
  <1>3. pc \in Reading /\ Valid
    BY <1>1, ReadingIsValid DEF Reading, Packing
  <1>4. /\ err \in [Index -> Errors] /\ progress \in [Index -> Nat]
        /\ dataLen \in [Index -> Nat] /\ original \in Nat
    BY DEF ReadInv, TypeInv
  <1>5. \A i \in Index : ~Gap(i)
    <2> SUFFICES ASSUME NEW i \in Index, err[i] = None PROVE progress[i] = Length(items[i])
      OBVIOUS
    <2>1. Rest = {}
      BY <1>1 DEF Rest
    <2>2. Reached(i) = Length(items[i])
      <3>1. i \in 1..Len(items) /\ Len(items) \in Nat
        BY <1>3, Counts
      <3>2. i < original
        BY <1>1, <1>4, <3>1 DEF More
      <3> QED BY <3>2 DEF Reached
    <2> QED BY <1>3, <2>1, <2>2 DEF ReadInv, ChainInv
  <1>6. err' = err /\ fatal' = None
    <2>1. \A i \in Index : (IF Gap(i) THEN "invariant" ELSE err[i]) = err[i]
      BY <1>5
    <2> QED BY <1>1, <1>4, <1>5, <2>1
  <1>7. \A i \in Index :
          /\ dataLen[i] = Length(items[i]) /\ Length(items[i]) \in Nat \ {0}
          /\ err[i] # None => progress[i] < Length(items[i])
          /\ progress[i] \in Nat
    BY <1>1, <1>3, <1>4, Counts DEF ReadInv, ItemInv
  <1>8. \A i \in Index : dataLen'[i] = progress[i]
    BY <1>1, <1>5, <1>6, <1>7
  <1> HIDE DEF Gap
  <1>9. TypeInv'
    <2>1. dataLen' \in [Index -> Nat]
      <3>1. dataLen' = [i \in Index |-> progress[i]]
        BY <1>1, <1>8
      <3> QED BY <1>4, <3>1
    <2>2. fatal' \in Errors
      BY <1>6 DEF Errors
    <2> QED BY <1>1, <1>2, <1>6, <2>1, <2>2 DEF ReadInv, TypeInv
  <1>10. AcceptedInv' /\ IteratorInv' /\ CountInv' /\ BatchInv'
    BY <1>1, <1>2 DEF ReadInv, AcceptedInv, IteratorInv, CountInv, BatchInv, Reading, Packing
  <1>11. OrderInv'
    BY <1>1 DEF ReadInv, OrderInv, Ordered, Precedes, End, Reading, Packing
  <1>12. CallInv'
    BY <1>1, <1>6 DEF CallInv
  <1>13. \A i \in Index' : ChainInv(i)' /\ ItemInv(i)'
    BY <1>1 DEF ChainInv, ItemInv, Reading, Packing
  <1>14. DataIsPrefix'
    BY <1>1, <1>2 DEF ReadInv, DataIsPrefix
  <1>15. ResultIsWhole'
    <2>1. \A i \in Index : err[i] = None <=> progress[i] = Length(items[i])
      BY <1>5, <1>7 DEF Gap
    <2> QED BY <1>1, <1>2, <1>6, <1>7, <1>8, <2>1 DEF ResultIsWhole
  <1>16. NoLateSurprise'
    BY <1>6 DEF NoLateSurprise, None, NoError
  <1> QED BY <1>9, <1>10, <1>11, <1>12, <1>13, <1>14, <1>15, <1>16 DEF ReadInv

\* One more fragment, at the end of what has been received.
LEMMA ReceivedMore ==
    ASSUME NEW item, NEW g \in Seq(Fragments), NEW n \in Nat, Received(item, g, n),
           NEW f \in Fragments, f.offset = n,
           f.amount * Width(item.transport) = f.length,
           f.address = IF Indexed(item) THEN item.offset + n \div Width(item.transport)
                                        ELSE (item.offset + n) * 8 + item.bit
    PROVE  Received(item, Append(g, f), n + f.length)
  <1> DEFINE h == Append(g, f)
             m == Len(g)
             old == [j \in DOMAIN g |-> g[j].length]
             new == [j \in DOMAIN h |-> h[j].length]
  <1>1. /\ m \in Nat /\ DOMAIN g = 1..m /\ DOMAIN h = 1..(m + 1) /\ Len(h) = m + 1
        /\ h[m + 1] = f /\ \A k \in 1..m : h[k] = g[k]
    OBVIOUS
  <1>2. f.length \in Nat /\ \A k \in 1..m : g[k].length \in Nat
    <2>1. \A k \in 1..m : g[k] \in Fragments
      BY <1>1
    <2> QED BY <2>1 DEF Fragments
  <1>3. \A k : Before(g, k) = Total(old, k - 1) /\ Before(h, k) = Total(new, k - 1)
    BY DEF Before
  <1>4. /\ \A k \in 1..m : old[k] = new[k]
        /\ new[m + 1] = f.length
        /\ \A k \in 1..(m + 1) : new[k] \in Int
    BY <1>1, <1>2
  <1> HIDE DEF h, m, old, new
  <1>5. Numbers(new, m + 1) /\ Numbers(old, m) /\ m + 1 \in Nat
    BY <1>1, <1>2, <1>4 DEF Numbers
  <1>6. \A k \in 0..m : Total(old, k) = Total(new, k)
    <2> SUFFICES ASSUME NEW k \in 0..m PROVE Total(old, k) = Total(new, k)
      OBVIOUS
    <2>1. k \in 0..(m + 1) /\ \A l \in 1..k : old[l] = new[l]
      BY <1>1, <1>4
    <2> DEFINE p == m + 1
    <2>2. p \in Nat /\ Numbers(new, p) /\ k \in 0..p
      BY <1>5, <2>1
    <2> HIDE DEF p
    <2>3. Total(old, k) = Totals(new, p)[k]
      BY <2>1, <2>2, TotalsAgree
    <2>4. \A l \in 1..k : new[l] = new[l]
      OBVIOUS
    <2>5. Total(new, k) = Totals(new, p)[k]
      BY <2>2, <2>4, TotalsAgree
    <2> QED BY <2>3, <2>5
  <1>7. \A k \in 1..(m + 1) : Before(h, k) = Before(g, k)
    <2> SUFFICES ASSUME NEW k \in 1..(m + 1) PROVE Before(h, k) = Before(g, k)
      OBVIOUS
    <2>1. k - 1 \in 0..m
      BY <1>1
    <2> QED BY <1>3, <1>6, <2>1
  <1>8. n = Before(g, m + 1)
    BY DEF Received, m
  <1>9. Before(h, Len(h) + 1) = n + f.length
    <2>1. Total(new, m + 1) = Total(new, m) + new[m + 1]
      BY <1>1, <1>5, TotalStep
    <2>2. Before(h, Len(h) + 1) = Total(new, m + 1)
      <3>1. (m + 1) + 1 - 1 = m + 1
        BY <1>1
      <3> QED BY <1>1, <1>3, <3>1
    <2>3. n = Total(new, m)
      <3>1. (m + 1) - 1 = m /\ m \in 0..m
        BY <1>1
      <3> QED BY <1>3, <1>6, <1>8, <3>1
    <2> QED BY <1>4, <2>1, <2>2, <2>3
  <1>10. \A k \in 1..m :
           /\ g[k].offset = Before(g, k)
           /\ g[k].amount * Width(item.transport) = g[k].length
           /\ g[k].address = IF Indexed(item)
                THEN item.offset + Before(g, k) \div Width(item.transport)
                ELSE (item.offset + Before(g, k)) * 8 + item.bit
    BY <1>1 DEF Received
  <1>11. \A k \in DOMAIN h :
           /\ h[k].offset = Before(h, k)
           /\ h[k].amount * Width(item.transport) = h[k].length
           /\ h[k].address = IF Indexed(item)
                THEN item.offset + Before(h, k) \div Width(item.transport)
                ELSE (item.offset + Before(h, k)) * 8 + item.bit
    <2> SUFFICES ASSUME NEW k \in 1..(m + 1)
                 PROVE  /\ h[k].offset = Before(h, k)
                        /\ h[k].amount * Width(item.transport) = h[k].length
                        /\ h[k].address = IF Indexed(item)
                             THEN item.offset + Before(h, k) \div Width(item.transport)
                             ELSE (item.offset + Before(h, k)) * 8 + item.bit
      BY <1>1
    <2>1. CASE k \in 1..m
      <3>1. h[k] = g[k] /\ Before(h, k) = Before(g, k)
        BY <1>1, <1>7, <2>1
      <3> QED BY <1>10, <2>1, <3>1
    <2>2. CASE k = m + 1
      <3>1. h[k] = f /\ Before(h, k) = n
        BY <1>1, <1>7, <1>8, <2>2
      <3> QED BY <3>1
    <2>3. k \in 1..m \/ k = m + 1
      BY <1>1
    <2> QED BY <2>1, <2>2, <2>3
  <1> QED BY <1>9, <1>11 DEF Received, h

\* The answer looked at next is that of the fragment which continues its item's data,
\* unless the item has failed.
LEMMA NextAnswer ==
    ASSUME ReadInv, pc = "merge", answer <= Len(batch)
    PROVE  /\ answer \in Rest /\ answer \in DOMAIN batch
           /\ \A k \in Rest : k = answer \/ (k \in DOMAIN batch /\ k > answer)
           /\ err[batch[answer].original] = None =>
                batch[answer].offset = progress[batch[answer].original]
  <1>1. batch \in Seq(Fragments) /\ answer \in Nat \ {0}
    BY DEF ReadInv, TypeInv
  <1>2. answer \in DOMAIN batch /\ answer \in Rest
    BY <1>1 DEF Rest
  <1>3. \A k \in Rest : k \in Nat /\ k >= answer /\ k \in DOMAIN batch
    BY <1>1 DEF Rest
  <1>4. batch[answer].original \in Index
    BY <1>2, BatchFacts DEF Packing
  <1>5. ASSUME err[batch[answer].original] = None
        PROVE  batch[answer].offset = progress[batch[answer].original]
    <2> DEFINE i == batch[answer].original
    <2>1. \/ batch[answer].offset = progress[i]
          \/ \E j \in Rest : j < answer
      BY <1>2, <1>4, <1>5 DEF ReadInv, ChainInv, Reading, Packing
    <2> QED BY <1>1, <1>3, <2>1
  <1>6. \A k \in Rest : k = answer \/ (k \in DOMAIN batch /\ k > answer)
    BY <1>1, <1>3
  <1> QED BY <1>2, <1>5, <1>6

\* What one answer changes: an error, or the next bytes, of one item.
LEMMA MergeChanges ==
    ASSUME ReadInv, Merge
    PROVE  \E refused \in BOOLEAN :
             LET f == batch[answer]
                 i == f.original
                 failed == refused /\ err[i] = None
                 merged == ~refused /\ err[i] = None
             IN /\ err' = IF failed THEN [err EXCEPT ![i] = "plc"] ELSE err
                /\ progress' = IF merged THEN [progress EXCEPT ![i] = f.offset + f.length]
                                         ELSE progress
                /\ got' = IF merged THEN [got EXCEPT ![i] = Append(got[i], f)] ELSE got
  <1> DEFINE f == batch[answer]
             i == f.original
  <1>1. pc = "merge" /\ answer <= Len(batch)
    BY DEF Merge
  <1>2. /\ answer \in DOMAIN batch /\ i \in Index
        /\ err[i] = None => f.offset = progress[i]
    BY <1>1, NextAnswer, BatchFacts DEF Packing
  <1>3. progress \in [Index -> Nat] /\ got \in [Index -> Seq(Fragments)]
    BY DEF ReadInv, TypeInv
  <1>4. PICK refused \in BOOLEAN :
          /\ err' = IF refused /\ err[i] = None THEN [err EXCEPT ![i] = "plc"] ELSE err
          /\ IF ~refused /\ err[i] = None /\ f.offset = progress[i]
               THEN /\ progress' = [progress EXCEPT ![i] = @ + f.length]
                    /\ got' = [got EXCEPT ![i] = Append(@, f)]
               ELSE progress' = progress /\ got' = got
    BY DEF Merge, dataVars
  <1> HIDE DEF f, i
  <1>5. progress' = IF ~refused /\ err[i] = None
                      THEN [progress EXCEPT ![i] = f.offset + f.length] ELSE progress
    <2>1. CASE ~refused /\ err[i] = None
      BY <1>2, <1>3, <1>4, <2>1
    <2>2. CASE ~(~refused /\ err[i] = None)
      BY <1>4, <2>2
    <2> QED BY <2>1, <2>2
  <1>6. got' = IF ~refused /\ err[i] = None
                 THEN [got EXCEPT ![i] = Append(got[i], f)] ELSE got
    <2>1. CASE ~refused /\ err[i] = None
      BY <1>2, <1>3, <1>4, <2>1
    <2>2. CASE ~(~refused /\ err[i] = None)
      BY <1>4, <2>2
    <2> QED BY <2>1, <2>2
  <1> QED BY <1>4, <1>5, <1>6 DEF f, i

\* The chain of an item's fragments loses the one that has been answered.
LEMMA MergeChain ==
    ASSUME ReadInv, Merge, NEW i \in Index, err'[i] = None
    PROVE  ChainInv(i)'
  <1> DEFINE f == batch[answer]
             o == f.original
             p == progress'[i]
  <1>1. /\ pc = "merge" /\ answer <= Len(batch) /\ answer' = answer + 1
        /\ UNCHANGED <<items, pc, batch, original, offset>>
    BY DEF Merge, inputVars, planVars, iteratorVars
  <1>2. PICK refused \in BOOLEAN :
          /\ err' = IF refused /\ err[o] = None THEN [err EXCEPT ![o] = "plc"] ELSE err
          /\ progress' = IF ~refused /\ err[o] = None
                           THEN [progress EXCEPT ![o] = f.offset + f.length] ELSE progress
    BY MergeChanges
  <1>3. /\ answer \in Rest /\ answer \in DOMAIN batch /\ answer \in Nat
        /\ \A k \in Rest : k = answer \/ (k \in DOMAIN batch /\ k > answer)
        /\ err[o] = None => f.offset = progress[o]
    BY <1>1, NextAnswer DEF ReadInv, TypeInv
  <1>4. /\ \A k \in DOMAIN batch : batch[k].offset \in Nat /\ batch[k].length \in Nat \ {0}
        /\ o \in Index /\ End(f) <= Length(items[o])
    BY <1>1, <1>3, BatchFacts DEF Packing
  <1>5. Rest' = {k \in Rest : k # answer}
    <2>1. batch \in Seq(Fragments)
      BY DEF ReadInv, TypeInv
    <2>2. \A k \in DOMAIN batch : k \in Nat
      BY <2>1
    <2>3. Rest = {k \in DOMAIN batch : k >= answer}
          /\ Rest' = {k \in DOMAIN batch : k >= answer + 1}
      BY <1>1 DEF Rest
    <2> QED BY <1>3, <2>2, <2>3
  <1>6. err \in [Index -> Errors] /\ progress \in [Index -> Nat]
    BY DEF ReadInv, TypeInv
  <1>7. err[i] = None /\ (i = o => ~refused)
    BY <1>2, <1>4, <1>6 DEF None, NoError
  <1>8. /\ \A k \in Rest : batch[k].original = i =>
             /\ progress[i] <= batch[k].offset
             /\ \/ batch[k].offset = progress[i]
                \/ \E j \in Rest : j < k /\ batch[j].original = i
                                     /\ End(batch[j]) = batch[k].offset
        /\ \/ progress[i] = Reached(i)
           \/ \E k \in Rest : batch[k].original = i /\ End(batch[k]) = Reached(i)
    BY <1>1, <1>7 DEF ReadInv, ChainInv, Reading, Packing
  <1>9. Reached(i)' = Reached(i)
    BY <1>1 DEF Reached
  <1>10. \A k \in DOMAIN batch : k > answer /\ batch[k].original = o =>
           End(f) <= batch[k].offset
    <2>1. Ordered(batch)
      BY DEF ReadInv, OrderInv
    <2>2. o \in Nat
      <3>1. Valid
        BY <1>1, ReadingIsValid DEF Reading, Packing
      <3> QED BY <1>4, <3>1, Counts
    <2>3. \A k \in DOMAIN batch : k \in Nat
      <3>1. batch \in Seq(Fragments)
        BY DEF ReadInv, TypeInv
      <3> QED BY <3>1
    <2>4. \A k \in DOMAIN batch : k > answer => Precedes(f, batch[k].original, batch[k].offset)
      BY <1>3, <2>1, <2>3 DEF Ordered
    <2> QED BY <2>2, <2>4 DEF Precedes
  <1>11. /\ \A k \in Rest' : batch[k].original = i =>
              /\ p <= batch[k].offset
              /\ \/ batch[k].offset = p
                 \/ \E j \in Rest' : j < k /\ batch[j].original = i
                                      /\ End(batch[j]) = batch[k].offset
         /\ \/ p = Reached(i)
            \/ \E k \in Rest' : batch[k].original = i /\ End(batch[k]) = Reached(i)
    <2>1. CASE i # o
      <3>1. p = progress[i]
        BY <1>2, <1>4, <1>6, <2>1
      <3>2. \A k \in Rest : batch[k].original = i => k \in Rest'
        BY <1>5, <2>1
      <3>3. \A k \in Rest' : k \in Rest
        BY <1>5
      <3> HIDE DEF f, o, p
      <3> QED BY <1>8, <3>1, <3>2, <3>3
    <2>2. CASE i = o
      <3>1. p = End(f) /\ progress[i] = f.offset
        BY <1>2, <1>3, <1>4, <1>6, <1>7, <2>2 DEF End
      <3>2. End(f) \in Nat /\ f.offset \in Nat /\ f.offset < End(f)
        BY <1>3, <1>4 DEF End
      <3>3. \A k \in Rest' : k \in Rest /\ k \in DOMAIN batch /\ k > answer
        BY <1>3, <1>5
      <3>4. f.offset # Reached(i)
        <4>1. Precedes(f, original, offset)
          BY <1>1, <1>3 DEF ReadInv, OrderInv, Reading, Packing
        <4>2. o \in Nat /\ original \in Nat /\ offset \in Nat /\ Length(items[o]) \in Nat
          <5>1. Valid
            BY <1>1, ReadingIsValid DEF Reading, Packing
          <5>2. original \in Nat /\ offset \in Nat
            BY DEF ReadInv, TypeInv
          <5> QED BY <1>4, <5>1, <5>2, Counts
        <4>3. Reached(i) = IF o < original THEN Length(items[o])
                           ELSE IF o = original THEN offset ELSE 0
          BY <2>2 DEF Reached
        <4>4. o < original \/ (o = original /\ End(f) <= offset)
          BY <4>1 DEF Precedes
        <4> HIDE DEF f, o
        <4> QED BY <1>4, <3>2, <4>2, <4>3, <4>4
      <3>5. \/ p = Reached(i)
            \/ \E k \in Rest' : batch[k].original = i /\ End(batch[k]) = Reached(i)
        BY <1>5, <1>8, <3>1, <3>4
      <3>6. ASSUME NEW k \in Rest', batch[k].original = i
            PROVE  /\ p <= batch[k].offset
                   /\ \/ batch[k].offset = p
                      \/ \E j \in Rest' : j < k /\ batch[j].original = i
                                           /\ End(batch[j]) = batch[k].offset
        <4>1. p <= batch[k].offset /\ batch[k].offset \in Nat
          BY <1>4, <1>10, <2>2, <3>1, <3>3, <3>6
        <4>2. batch[k].offset # progress[i]
          BY <3>1, <3>2, <4>1
        <4>3. PICK j \in Rest : j < k /\ batch[j].original = i
                                  /\ End(batch[j]) = batch[k].offset
          BY <1>8, <3>3, <3>6, <4>2
        <4>4. CASE j = answer
          BY <3>1, <4>1, <4>3, <4>4
        <4>5. CASE j # answer
          BY <1>5, <4>1, <4>3, <4>5
        <4> QED BY <4>4, <4>5
      <3> QED BY <3>5, <3>6
    <2> QED BY <2>1, <2>2
  <1> HIDE DEF f, o
  <1> QED BY <1>1, <1>9, <1>11 DEF ChainInv, End

LEMMA MergeRead == ASSUME ReadInv, Merge PROVE ReadInv'
  <1> DEFINE f == batch[answer]
             o == f.original
  <1>1. /\ pc = "merge" /\ answer <= Len(batch) /\ answer' = answer + 1
        /\ UNCHANGED <<items, area, pc, original, offset, batch, requestSize, responseSize,
                       asked, dataLen, fatal>>
    BY DEF Merge, inputVars, planVars, iteratorVars, sizeVars
  <1>2. /\ Index' = Index /\ Fragments' = Fragments
        /\ FragmentCounts' = FragmentCounts /\ CountReadFragments' = CountReadFragments
        /\ \A i, j, x : Cut(i, j, x)' <=> Cut(i, j, x)
        /\ \A g : IsFragment(g)' <=> IsFragment(g)
    BY <1>1, SameItems
  <1>3. PICK refused \in BOOLEAN :
          /\ err' = IF refused /\ err[o] = None THEN [err EXCEPT ![o] = "plc"] ELSE err
          /\ progress' = IF ~refused /\ err[o] = None
                           THEN [progress EXCEPT ![o] = f.offset + f.length] ELSE progress
          /\ got' = IF ~refused /\ err[o] = None
                      THEN [got EXCEPT ![o] = Append(got[o], f)] ELSE got
    BY MergeChanges
  <1>4. pc \in Reading /\ pc' \in Reading /\ pc \in Packing /\ Valid
    BY <1>1, ReadingIsValid DEF Reading, Packing
  <1>5. answer \in DOMAIN batch /\ (err[o] = None => f.offset = progress[o])
    BY <1>1, NextAnswer
  <1>6. /\ f \in Fragments /\ o \in Index /\ f.offset \in Nat /\ f.length \in Nat \ {0}
        /\ End(f) <= Length(items[o])
        /\ f.amount * Width(items[o].transport) = f.length
        /\ f.address = IF Indexed(items[o])
             THEN items[o].offset + f.offset \div Width(items[o].transport)
             ELSE (items[o].offset + f.offset) * 8 + items[o].bit
    BY <1>4, <1>5, BatchFacts
  <1>7. /\ err \in [Index -> Errors] /\ progress \in [Index -> Nat]
        /\ got \in [Index -> Seq(Fragments)] /\ answer \in Nat \ {0}
    BY DEF ReadInv, TypeInv
  <1> HIDE DEF f, o
  <1>8. TypeInv'
    <2>1. err' \in [Index -> Errors]
      <3>1. "plc" \in Errors
        BY DEF Errors
      <3> QED BY <1>3, <1>7, <3>1
    <2>2. progress' \in [Index -> Nat]
      <3>1. f.offset + f.length \in Nat
        BY <1>6
      <3> QED BY <1>3, <1>7, <3>1
    <2>3. got' \in [Index -> Seq(Fragments)]
      <3>1. Append(got[o], f) \in Seq(Fragments)
        BY <1>6, <1>7
      <3> QED BY <1>3, <1>7, <3>1
    <2>4. answer' \in Nat \ {0}
      BY <1>1, <1>7
    <2> QED BY <1>1, <1>2, <2>1, <2>2, <2>3, <2>4 DEF ReadInv, TypeInv
  <1>9. AcceptedInv'
    BY <1>1, <1>2, <1>4 DEF ReadInv, AcceptedInv, ItemError
  <1>10. IteratorInv'
    <2>1. (More' <=> More) /\ Taken' = Taken
      BY <1>1 DEF More, Taken
    <2> QED BY <1>1, <1>2, <1>4, <2>1 DEF ReadInv, IteratorInv
  <1>11. CountInv' /\ CallInv'
    BY <1>1, <1>2 DEF ReadInv, CountInv, CallInv
  <1>12. OrderInv'
    BY <1>1, <1>4 DEF ReadInv, OrderInv, Ordered, Precedes, End
  <1>13. BatchInv'
    BY <1>1, <1>2 DEF ReadInv, BatchInv
  <1>14. \A i \in Index' : ChainInv(i)' /\ ItemInv(i)'
    <2> SUFFICES ASSUME NEW i \in Index PROVE ChainInv(i)' /\ ItemInv(i)'
      BY <1>2
    <2>1. ChainInv(i)'
      <3>1. CASE err'[i] = None
        BY <3>1, MergeChain
      <3>2. CASE err'[i] # None
        BY <3>2 DEF ChainInv
      <3> QED BY <3>1, <3>2
    <2>2. ItemInv(i)
      BY DEF ReadInv
    <2>3. /\ dataLen[i] = Length(items[i]) /\ progress[i] <= Length(items[i])
          /\ err[i] # None => progress[i] < Length(items[i])
          /\ progress[i] \in Nat /\ Length(items[i]) \in Nat
      BY <1>1, <1>4, <1>7, <2>2, Counts DEF ItemInv
    <2>4. progress'[i] <= Length(items[i])
      <3>1. CASE ~refused /\ err[o] = None /\ i = o
        BY <1>3, <1>6, <1>7, <3>1 DEF End
      <3>2. CASE ~(~refused /\ err[o] = None /\ i = o)
        BY <1>3, <1>6, <1>7, <2>3, <3>2
      <3> QED BY <3>1, <3>2
    <2>5. err'[i] # None => progress'[i] < Length(items[i])
      <3>1. CASE refused /\ err[o] = None /\ i = o
        <4>1. progress'[i] = f.offset
          BY <1>3, <1>5, <3>1 DEF f, o
        <4>2. f.offset + f.length <= Length(items[i])
          BY <1>6, <3>1 DEF End
        <4> QED BY <1>6, <2>3, <4>1, <4>2
      <3>2. CASE ~(refused /\ err[o] = None /\ i = o)
        <4>1. err'[i] = err[i]
          BY <1>3, <1>6, <1>7, <3>2
        <4>2. err[i] # None => progress'[i] = progress[i]
          BY <1>3, <1>6, <1>7
        <4> QED BY <2>3, <4>1, <4>2
      <3> QED BY <3>1, <3>2
    <2>6. ItemInv(i)'
      BY <1>1, <1>4, <2>3, <2>4, <2>5 DEF ItemInv
    <2> QED BY <2>1, <2>6
  <1>15. DataIsPrefix'
    <2> SUFFICES ASSUME NEW i \in Index PROVE Received(items[i], got'[i], progress'[i])
      BY <1>1, <1>2 DEF DataIsPrefix
    <2>1. Received(items[i], got[i], progress[i])
      BY DEF ReadInv, DataIsPrefix
    <2>2. CASE ~refused /\ err[o] = None /\ i = o
      <3>1. f.offset = progress[o]
        BY <1>5, <2>2 DEF f, o
      <3> DEFINE item == items[i]
                 g == got[i]
                 n == progress[i]
      <3>2. /\ g \in Seq(Fragments) /\ n \in Nat /\ f \in Fragments /\ f.offset = n
            /\ f.amount * Width(item.transport) = f.length
            /\ f.address = IF Indexed(item) THEN item.offset + n \div Width(item.transport)
                                            ELSE (item.offset + n) * 8 + item.bit
        BY <1>6, <1>7, <2>2, <3>1
      <3>3. got'[i] = Append(g, f) /\ progress'[i] = n + f.length
        BY <1>3, <1>6, <1>7, <2>2, <3>1
      <3>4. Received(item, g, n)
        BY <2>1
      <3> HIDE DEF item, g, n
      <3>5. Received(item, Append(g, f), n + f.length)
        BY ONLY <3>2, <3>4, ReceivedMore
      <3> QED BY <3>3, <3>5 DEF item
    <2>3. CASE ~(~refused /\ err[o] = None /\ i = o)
      <3>1. got'[i] = got[i] /\ progress'[i] = progress[i]
        BY <1>3, <1>6, <1>7, <2>3
      <3> QED BY <2>1, <3>1
    <2> QED BY <2>2, <2>3
  <1>16. ResultIsWhole' /\ NoLateSurprise'
    BY <1>1 DEF ReadInv, ResultIsWhole, NoLateSurprise
  <1> QED BY <1>8, <1>9, <1>10, <1>11, <1>12, <1>13, <1>14, <1>15, <1>16 DEF ReadInv

-----------------------------------------------------------------------------
\* The invariant

LEMMA CtxDoneRead == ASSUME ReadInv, CtxDone PROVE ReadInv'
  <1>1. UNCHANGED <<items, area, pc, original, offset, batch, requestSize, responseSize,
                    asked, answer, err, progress, got, dataLen, fatal>>
    BY DEF CtxDone, inputVars, planVars, iteratorVars, sizeVars, resultVars, dataVars
  <1>2. /\ Index' = Index /\ Fragments' = Fragments
        /\ FragmentCounts' = FragmentCounts /\ CountReadFragments' = CountReadFragments
        /\ \A i, j, x : Cut(i, j, x)' <=> Cut(i, j, x)
        /\ \A f : IsFragment(f)' <=> IsFragment(f)
    BY <1>1, SameItems
  <1>3. TypeInv' /\ BatchInv'
    BY <1>1, <1>2 DEF ReadInv, TypeInv, BatchInv
  <1>4. AcceptedInv'
    BY <1>1, <1>2 DEF ReadInv, AcceptedInv, ItemError
  <1>5. IteratorInv'
    <2>1. (More' <=> More) /\ Taken' = Taken
      BY <1>1 DEF More, Taken
    <2> QED BY <1>1, <1>2, <2>1 DEF ReadInv, IteratorInv
  <1>6. CountInv' /\ CallInv'
    BY <1>1, <1>2 DEF ReadInv, CountInv, CallInv
  <1>7. OrderInv'
    BY <1>1 DEF ReadInv, OrderInv
  <1>8. \A i \in Index' : ChainInv(i)' /\ ItemInv(i)'
    <2> SUFFICES ASSUME NEW i \in Index PROVE ChainInv(i)' /\ ItemInv(i)'
      BY <1>2
    <2>1. Rest' = Rest /\ Reached(i)' = Reached(i)
      BY <1>1 DEF Rest, Reached
    <2> QED BY <1>1, <2>1 DEF ReadInv, ChainInv, ItemInv, End
  <1>9. DataIsPrefix' /\ ResultIsWhole' /\ NoLateSurprise'
    BY <1>1, <1>2 DEF ReadInv, DataIsPrefix, ResultIsWhole, NoLateSurprise
  <1> QED BY <1>3, <1>4, <1>5, <1>6, <1>7, <1>8, <1>9 DEF ReadInv

LEMMA InitRead == ASSUME Init PROVE ReadInv
  <1>1. /\ pc = "prepare" /\ original = 1 /\ offset = 0
        /\ batch = <<>> /\ requestSize = 12 /\ responseSize = 14 /\ asked = <<>> /\ answer = 1
        /\ err = [i \in Index |-> None] /\ fatal = None
        /\ progress = [i \in Index |-> 0] /\ dataLen = [i \in Index |-> 0]
        /\ got = [i \in Index |-> <<>>]
    BY DEF Init
  <1>2. TypeInv
    <2>1. items \in Seq(ItemRecords) /\ area \in BOOLEAN /\ (area => Len(items) = 1)
      BY ReadAssumption DEF Init
    <2>2. None \in Errors
      BY DEF Errors
    <2>3. <<>> \in Seq(Fragments)
      OBVIOUS
    <2> QED BY <1>1, <2>1, <2>2, <2>3 DEF TypeInv
  <1>3. AcceptedInv /\ IteratorInv /\ BatchInv /\ CallInv
    BY <1>1 DEF AcceptedInv, IteratorInv, BatchInv, CallInv, Reading, Packing
  <1>4. CountInv
    BY <1>1, ReadAssumption DEF CountInv
  <1>5. OrderInv
    BY <1>1 DEF OrderInv, Ordered, Reading, Packing
  <1>6. \A i \in Index : ChainInv(i) /\ ItemInv(i)
    BY <1>1 DEF ChainInv, ItemInv, Reading, Packing
  <1>7. DataIsPrefix
    <2>1. \A item : Received(item, <<>>, 0)
      <3>1. Len(<<>>) + 1 - 1 = 0 /\ DOMAIN <<>> = {}
        OBVIOUS
      <3>2. Before(<<>>, Len(<<>>) + 1) = 0
        BY <3>1, TotalOfNone DEF Before
      <3> QED BY <3>1, <3>2 DEF Received
    <2> QED BY <1>1, <2>1 DEF DataIsPrefix
  <1>8. ResultIsWhole /\ NoLateSurprise
    BY <1>1 DEF ResultIsWhole, NoLateSurprise, None, NoError
  <1> QED BY <1>2, <1>3, <1>4, <1>5, <1>6, <1>7, <1>8 DEF ReadInv

LEMMA NextRead == ASSUME ReadInv, [Next]_vars PROVE ReadInv'
  <1>1. CASE Reject
    BY <1>1, RejectRead
  <1>2. CASE Accept
    BY <1>2, AcceptRead
  <1>3. CASE Refuse
    BY <1>3, RefuseRead
  <1>4. CASE Begin
    BY <1>4, BeginRead
  <1>5. CASE NextReadBatch
    BY <1>5, NextReadBatchRead
  <1>6. CASE SkipFragment
    BY <1>6, SkipFragmentRead
  <1>7. CASE Pack
    BY <1>7, PackRead
  <1>8. CASE PlanStops
    BY <1>8, PlanStopsRead
  <1>9. CASE Plan
    BY <1>9, PlanRead
  <1>10. CASE ExchangeFails
    BY <1>10, ExchangeFailsRead
  <1>11. CASE ReadGlobalCode
    BY <1>11, ReadGlobalCodeRead
  <1>12. CASE ReadCodes
    BY <1>12, ReadCodesRead
  <1>13. CASE Merge
    BY <1>13, MergeRead
  <1>14. CASE Merged
    BY <1>14, MergedRead
  <1>15. CASE Finish
    BY <1>15, FinishRead
  <1>16. CASE CtxDone
    BY <1>16, CtxDoneRead
  <1>17. CASE UNCHANGED vars
    <2>1. UNCHANGED <<items, area, pc, original, offset, batch, requestSize, responseSize,
                      asked, answer, err, progress, got, dataLen, fatal>>
      BY <1>17 DEF vars, inputVars, planVars, iteratorVars, sizeVars, resultVars, dataVars
    <2>2. ReadInv' <=> ReadInv
      BY <2>1 DEF ReadInv, TypeInv, AcceptedInv, IteratorInv, CountInv, OrderInv, BatchInv,
                  CallInv, ChainInv, ItemInv, DataIsPrefix, ResultIsWhole, NoLateSurprise,
                  Index, Fragments, Cut, IsFragment, Fragment, More, Taken, Rest, Reached,
                  FragmentCounts, CountReadFragments
    <2> QED BY <2>2
  <1> QED BY <1>1, <1>2, <1>3, <1>4, <1>5, <1>6, <1>7, <1>8, <1>9, <1>10, <1>11, <1>12,
             <1>13, <1>14, <1>15, <1>16, <1>17 DEF Next

\* The iterator, the batch, the answers and the results of readLocked agree at every
\* point at which Read or ReadArea can fail or return.
THEOREM ReadInvariant == Spec => []ReadInv
  BY InitRead, NextRead, PTL DEF Spec

-----------------------------------------------------------------------------
\* The properties

\* Every byte that Read puts into Data comes from its own address of the PLC: the
\* fragments of an item that readLocked copies follow each other from its start.
THEOREM ReceivedInOrder == Spec => []DataIsPrefix
  <1>1. ReadInv => DataIsPrefix
    BY DEF ReadInv
  <1> QED BY <1>1, ReadInvariant, PTL

\* When Read returns, an item is complete and without error, or has an error and what
\* was received of it.
THEOREM ResultsAreWhole == Spec => []ResultIsWhole
  <1>1. ReadInv => ResultIsWhole
    BY DEF ReadInv
  <1> QED BY <1>1, ReadInvariant, PTL

\* "incomplete logical item" is never returned, and a limit only before the first
\* exchange: planning, fragmenting and merging agree.
THEOREM NothingIsLate == Spec => []NoLateSurprise
  <1>1. ReadInv => NoLateSurprise
    BY DEF ReadInv
  <1> QED BY <1>1, ReadInvariant, PTL

\* Every request of nextReadBatch and its largest answer fit the negotiated PDU, and
\* their fields are wide enough.
THEOREM ReadBatchesFit == Spec => []ReadBatchFits
  <1>1. ASSUME ReadInv PROVE ReadBatchFits
    <2> SUFFICES ASSUME pc = "exchange"
                 PROVE  /\ Len(batch) \in 1..MaxItemsPerPDU
                        /\ ReadRequestSize(Len(batch)) <= PDU
                        /\ ReadResponseSize([k \in DOMAIN batch |-> batch[k].length]) <= PDU
                        /\ \A k \in DOMAIN batch :
                             LET t == items[batch[k].original].transport IN
                             /\ batch[k].address <= Max24
                             /\ batch[k].amount \in 1..MaxUint16
                             /\ (IF LengthInBits(t) THEN 8 ELSE 1) * batch[k].length
                                  <= MaxUint16
      BY DEF ReadBatchFits
    <2>1. pc \in Packing /\ batch # <<>>
      BY <1>1 DEF Packing, ReadInv, BatchInv
    <2>2. /\ Len(batch) <= MaxItemsPerPDU
          /\ ReadRequestSize(Len(batch)) <= PDU
          /\ ReadResponseSize([k \in DOMAIN batch |-> batch[k].length]) <= PDU
      BY <1>1, <2>1 DEF ReadInv, BatchInv
    <2>3. Len(batch) \in Nat \ {0} /\ MaxItemsPerPDU \in Nat
      <3>1. batch \in Seq(Fragments)
        BY <1>1 DEF ReadInv, TypeInv
      <3> QED BY <2>1, <3>1, ReadAssumption
    <2>4. Len(batch) \in 1..MaxItemsPerPDU
      BY <2>2, <2>3
    <2>5. MaxUint16 \in Nat
      BY DEF MaxUint16
    <2>6. \A k \in DOMAIN batch :
            /\ batch[k].address <= Max24
            /\ batch[k].amount \in Nat \ {0} /\ batch[k].amount <= MaxUint16
            /\ (IF LengthInBits(items[batch[k].original].transport) THEN 8 ELSE 1)
                 * batch[k].length <= MaxUint16
      BY <1>1, <2>1, BatchFacts
    <2>7. \A k \in DOMAIN batch : batch[k].amount \in 1..MaxUint16
      BY <2>5, <2>6
    <2> QED BY <2>2, <2>4, <2>6, <2>7
  <1> QED BY <1>1, ReadInvariant, PTL

\* No fragment is asked for twice or after its item has failed, and MaxFragmentsPerCall
\* bounds the fragments that are sent.
THEOREM AskedAtMostOnce == Spec => []AskedOnce
  <1>1. ASSUME ReadInv PROVE AskedOnce
    <2>1. asked \in Seq(Fragments) /\ Ordered(asked)
      BY <1>1 DEF ReadInv, TypeInv, OrderInv
    <2>2. DOMAIN asked = 1..Len(asked) /\ Len(asked) \in Nat
          /\ \A k \in DOMAIN asked : asked[k] \in Fragments
      BY <2>1
    <2>3. items \in Seq(ItemRecords)
      BY <1>1 DEF ReadInv, TypeInv
    <2>4. \A k \in DOMAIN asked :
            /\ asked[k].original \in Nat /\ asked[k].offset \in Nat
            /\ asked[k].length \in Nat \ {0}
      <3>1. \A i \in Index : i \in Nat
        BY <2>3 DEF Index
      <3> QED BY <2>2, <3>1 DEF Fragments
    <2>5. \A j, k \in DOMAIN asked : j < k => asked[j] # asked[k]
      <3> SUFFICES ASSUME NEW j \in DOMAIN asked, NEW k \in DOMAIN asked, j < k,
                          asked[j] = asked[k]
                   PROVE  FALSE
        OBVIOUS
      <3>1. Precedes(asked[j], asked[k].original, asked[k].offset)
        BY <2>1 DEF Ordered
      <3> QED BY <2>4, <3>1 DEF Precedes, End
    <2>6. IsInjective(asked)
      <3> SUFFICES ASSUME NEW j \in DOMAIN asked, NEW k \in DOMAIN asked, asked[j] = asked[k],
                          j # k
                   PROVE  FALSE
        BY DEF IsInjective
      <3>1. j < k \/ k < j
        BY <2>2
      <3> QED BY <2>5, <3>1
    <2>7. /\ Len(asked) <= MaxFragmentsPerCall
          /\ asked # <<>> => Len(asked) <= CountReadFragments
      BY <1>1 DEF ReadInv, CountInv
    <2>8. pc = "exchange" => \A k \in DOMAIN batch : err[batch[k].original] = None
      BY <1>1 DEF ReadInv, BatchInv
    <2> QED BY <2>6, <2>7, <2>8 DEF AskedOnce
  <1> QED BY <1>1, ReadInvariant, PTL

\* ReadArea returns a short count only with an error, and an error only with a short
\* count.
THEOREM AreasAreWhole == Spec => []AreaIsWhole
  <1>1. ASSUME ReadInv PROVE AreaIsWhole
    <2> SUFFICES ASSUME pc = "return", area
                 PROVE  AreaError = None <=> progress[1] = Length(items[1]) /\ progress[1] > 0
      BY DEF AreaIsWhole
    <2>1. 1 \in Index
      BY <1>1, AreaHasOneItem
    <2>2. err[1] = None <=> progress[1] = Length(items[1]) /\ Length(items[1]) > 0
      BY <1>1, <2>1 DEF ReadInv, ResultIsWhole
    <2>3. fatal # None => err[1] # None
      BY <1>1 DEF ReadInv, CallInv
    <2> QED BY <2>2, <2>3 DEF AreaError
  <1> QED BY <1>1, ReadInvariant, PTL
=============================================================================
