----------------------------- MODULE WireProofs -----------------------------
(***************************************************************************)
(* One exchange, for every batch of addresses, every memory of the PLC,    *)
(* every size and every damage.  WireInv is the inductive invariant; what  *)
(* the four properties say follows from it.                                *)
(***************************************************************************)
EXTENDS Wire, PDUSizeProofs, SequenceTheorems

-----------------------------------------------------------------------------
\* Items and their texts

Areas == {"input", "output", "marker", "db", "counter", "timer"}

\* An item as ParseAddress and its caller put it together.
ItemRecords ==
    [area : Areas, db : 0..MaxUint16, offset : Nat, bit : Nat, transport : Transports,
     count : Nat]

\* Kept folded where a range of them is mentioned.
LEMMA MaxWords == MaxUint16 \in Nat /\ Max24 \in Nat
  BY DEF MaxUint16, Max24

LEMMA TransportsAre ==
    Transports = {"bit", "byte", "word", "dword", "real", "timer", "counter"}
  BY DEF Transports, Layout

LEMMA AreasAre == DOMAIN WireArea = Areas
  BY DEF WireArea, Areas

\* The switches of parseWidth and FormatAddress.
LEMMA Letters ==
    /\ WidthTransport["X"] = "bit" /\ WidthTransport["B"] = "byte"
    /\ WidthTransport["W"] = "word" /\ WidthTransport["D"] = "dword"
    /\ WidthLetter["bit"] = "X" /\ WidthLetter["byte"] = "B" /\ WidthLetter["word"] = "W"
    /\ WidthLetter["dword"] = "D" /\ WidthLetter["real"] = "D"
    /\ AreaPrefix["input"] = "I" /\ AreaPrefix["output"] = "Q" /\ AreaPrefix["marker"] = "M"
    /\ AreaPrefix["db"] = "DB"
  BY DEF WidthTransport, WidthLetter, AreaPrefix

\* An accepted address, without the order in which the errors are looked for.
LEMMA AcceptedAddress ==
    ASSUME NEW item \in ItemRecords
    PROVE  AddressError(item) = NoError <=>
             /\ item.area = "db" => item.db # 0
             /\ item.area # "db" => item.db = 0
             /\ Indexed(item) => item.bit = 0 /\ item.transport = item.area
             /\ ~Indexed(item) =>
                  /\ item.transport \notin {"timer", "counter"}
                  /\ item.bit <= (IF item.transport = "bit" THEN 7 ELSE 0)
             /\ WireAddress(item) <= Max24
  <1>1. item.transport \in Transports /\ item.area \in DOMAIN WireArea /\ item.bit \in Nat
        /\ item.offset \in Nat
    BY AreasAre DEF ItemRecords
  <1>2. WireAddress(item) \in Nat
    BY <1>1 DEF WireAddress
  <1> QED BY <1>1, <1>2 DEF AddressError, NoError, Max24

LEMMA TextFields ==
    ASSUME NEW text \in Texts
    PROVE  /\ text.form \in {"db", "memory", "timer", "counter", "other"}
           /\ text.db \in Digits /\ text.number \in Digits
           /\ text.bit \in Digits \cup {Absent}
           /\ text.form = "db" => text.width \in Widths
           /\ text.form = "memory" =>
                /\ text.width \in Widths \cup {""} /\ text.db = 0
                /\ text.prefix \in {"I", "E", "Q", "A", "M"}
           /\ text.form \in {"timer", "counter"} => text.bit = Absent
  <1>1. 0 \in Digits
    BY DEF Digits
  <1> HIDE DEF Digits, Widths, Absent
  <1> QED BY <1>1 DEF Texts

LEMMA DigitsInRange ==
    /\ \A d \in Digits : d # TooBig => d \in Nat
    /\ \A d \in Digits, m \in Nat : InRange(d, m) => d \in 0..m
    /\ Absent \notin Digits
  BY DEF Digits, TooBig, Absent, InRange

LEMMA NamedFields ==
    ASSUME NEW text
    PROVE  LET item == Named(text)
           IN /\ item.area = AreaOf(text) /\ item.transport = TransportOf(text)
              /\ item.offset = text.number /\ item.count = 1
              /\ item.db = IF text.form = "db" THEN text.db ELSE 0
              /\ item.bit = IF text.bit = Absent THEN 0 ELSE text.bit
  <1> HIDE DEF AreaOf, TransportOf
  <1> QED BY DEF Named

\* What a text with well-formed digits names.
LEMMA NamedItem ==
    ASSUME NEW text \in Texts, ~MalformedText(text)
    PROVE  /\ Named(text) \in ItemRecords
           /\ text.form = "db" => Named(text).area = "db"
           /\ text.form \in {"timer", "counter"} =>
                /\ Named(text).area = text.form /\ Named(text).transport = text.form
                /\ Named(text).bit = 0 /\ Named(text).db = 0 /\ Named(text).offset <= Max24
           /\ text.form = "memory" => Named(text).area \in {"input", "output", "marker"}
           /\ text.form \in {"db", "memory"} =>
                Named(text).transport \in {"bit", "byte", "word", "dword"}
  <1>1. text.form \in {"db", "memory", "timer", "counter"} /\ text.number # TooBig
    BY TextFields DEF MalformedText
  <1>2. text.number \in Nat
    BY <1>1, TextFields, DigitsInRange
  <1>3. text.bit # Absent /\ InRange(text.bit, 7) => text.bit \in Nat
    <2>1. 7 \in Nat
      OBVIOUS
    <2>2. text.bit # Absent => text.bit \in Digits
      BY TextFields
    <2>3. ASSUME text.bit # Absent, InRange(text.bit, 7) PROVE text.bit \in 0..7
      BY <2>1, <2>2, <2>3, DigitsInRange
    <2> QED BY <2>3
  <1>4. (IF text.bit = Absent THEN 0 ELSE text.bit) \in Nat
    <2>1. text.form \in {"db", "memory"} /\ text.bit # Absent => InRange(text.bit, 7)
      BY TextFields DEF MalformedText, Widths
    <2>2. text.form \in {"timer", "counter"} => text.bit = Absent
      BY TextFields
    <2> QED BY <1>1, <1>3, <2>1, <2>2
  <1>5. (IF text.form = "db" THEN text.db ELSE 0) \in 0..MaxUint16
    <2>1. text.form = "db" => InRange(text.db, MaxUint16)
      BY DEF MalformedText
    <2>2. text.form = "db" => text.db \in 0..MaxUint16
      BY <2>1, TextFields, MaxWords, DigitsInRange
    <2> QED BY <2>2, MaxWords
  <1>6. text.form \in {"db", "memory"} => TransportOf(text) \in {"bit", "byte", "word", "dword"}
    BY TextFields, Letters, ZenonT(60) DEF TransportOf, Widths, MalformedText
  <1>7. /\ text.form = "db" => AreaOf(text) = "db"
        /\ text.form = "memory" => AreaOf(text) \in {"input", "output", "marker"}
        /\ text.form \in {"timer", "counter"} =>
             AreaOf(text) = text.form /\ TransportOf(text) = text.form
    BY TextFields DEF AreaOf, TransportOf
  <1>8. AreaOf(text) \in Areas /\ TransportOf(text) \in Transports /\ 1 \in Nat
    BY <1>1, <1>6, <1>7, TransportsAre DEF Areas
  <1>9. Named(text) \in ItemRecords
    BY <1>2, <1>4, <1>5, <1>8 DEF Named, ItemRecords
  <1>10. text.form \in {"timer", "counter"} => text.bit = Absent /\ text.number <= Max24
    <2>1. text.form \in {"timer", "counter"} => InRange(text.number, Max24)
      BY DEF MalformedText
    <2> QED BY <2>1, TextFields DEF InRange
  <1> QED BY <1>6, <1>7, <1>9, <1>10, NamedFields

\* The item that the text of an item names.
Plain(item) ==
    [item EXCEPT !.transport = IF @ = "real" THEN "dword" ELSE @, !.count = 1]

LEMMA PlainItem ==
    ASSUME NEW item \in ItemRecords
    PROVE  /\ Plain(item) \in ItemRecords
           /\ AddressError(item) = NoError => AddressError(Plain(item)) = NoError
           /\ Plain(item) = [area |-> item.area, db |-> item.db, offset |-> item.offset,
                             bit |-> item.bit,
                             transport |-> IF item.transport = "real" THEN "dword"
                                           ELSE item.transport,
                             count |-> 1]
  <1>1. Plain(item) = [area |-> item.area, db |-> item.db, offset |-> item.offset,
                       bit |-> item.bit,
                       transport |-> IF item.transport = "real" THEN "dword"
                                     ELSE item.transport,
                       count |-> 1]
    <2> DEFINE t == IF item.transport = "real" THEN "dword" ELSE item.transport
    <2>1. Plain(item) = [item EXCEPT !.transport = t, !.count = 1]
      BY DEF Plain
    <2> HIDE DEF t
    <2>2. item = [area |-> item.area, db |-> item.db, offset |-> item.offset,
                  bit |-> item.bit, transport |-> item.transport, count |-> item.count]
      BY DEF ItemRecords
    <2>3. Plain(item) = [area |-> item.area, db |-> item.db, offset |-> item.offset,
                         bit |-> item.bit, transport |-> t, count |-> 1]
      BY <2>1, <2>2
    <2> QED BY <2>3 DEF t
  <1>2. Plain(item) \in ItemRecords
    BY <1>1, TransportsAre DEF ItemRecords
  <1>4. WireAddress(Plain(item)) = WireAddress(item) /\ (Indexed(Plain(item)) <=> Indexed(item))
    BY <1>1 DEF WireAddress, Indexed
  <1>5. ASSUME AddressError(item) = NoError PROVE AddressError(Plain(item)) = NoError
    <2> DEFINE plain == Plain(item)
    <2>1. /\ plain.area = item.area /\ plain.db = item.db /\ plain.bit = item.bit
          /\ plain.transport = IF item.transport = "real" THEN "dword" ELSE item.transport
      BY <1>1
    <2>2. WireAddress(plain) = WireAddress(item) /\ (Indexed(plain) <=> Indexed(item))
      BY <1>4
    <2>3. plain \in ItemRecords
      BY <1>2
    <2> HIDE DEF plain
    <2>4. AddressError(plain) = NoError
      <3>1. /\ item.area = "db" => item.db # 0
            /\ item.area # "db" => item.db = 0
            /\ Indexed(item) => item.bit = 0 /\ item.transport = item.area
            /\ ~Indexed(item) =>
                 /\ item.transport \notin {"timer", "counter"}
                 /\ item.bit <= (IF item.transport = "bit" THEN 7 ELSE 0)
            /\ WireAddress(item) <= Max24
        BY <1>5, AcceptedAddress
      <3>2. Indexed(item) => item.transport # "real"
        BY <3>1 DEF Indexed
      <3>3. /\ plain.area = "db" => plain.db # 0
            /\ plain.area # "db" => plain.db = 0
            /\ Indexed(plain) => plain.bit = 0 /\ plain.transport = plain.area
            /\ ~Indexed(plain) =>
                 /\ plain.transport \notin {"timer", "counter"}
                 /\ plain.bit <= (IF plain.transport = "bit" THEN 7 ELSE 0)
            /\ WireAddress(plain) <= Max24
        BY <2>1, <2>2, <3>1, <3>2
      <3> QED BY <2>3, <3>3, AcceptedAddress
    <2> QED BY <2>4 DEF plain
  <1> QED BY <1>1, <1>2, <1>5

\* The text of an item has well-formed digits and names the item.
LEMMA TextOfItem ==
    ASSUME NEW item \in ItemRecords, AddressError(item) = NoError
    PROVE  LET text == FormatAddress(item)
           IN ParseError(text) = NoError /\ Named(text) = Plain(item)
  <1> DEFINE text == FormatAddress(item)
  <1>1. item.offset \in Nat /\ item.bit \in Nat /\ item.db \in Nat /\ item.db <= MaxUint16
        /\ item.area \in Areas /\ item.transport \in Transports
    BY MaxWords DEF ItemRecords
  <1>2. /\ item.area = "db" => item.db # 0
        /\ item.area # "db" => item.db = 0
        /\ Indexed(item) => item.bit = 0 /\ item.transport = item.area
        /\ ~Indexed(item) =>
             /\ item.transport \notin {"timer", "counter"}
             /\ item.bit <= (IF item.transport = "bit" THEN 7 ELSE 0)
        /\ WireAddress(item) <= Max24
    BY AcceptedAddress
  <1>3. \A d \in Nat : d # TooBig /\ d # Absent /\ \A m : InRange(d, m) <=> d <= m
    BY DEF TooBig, Absent, InRange
  <1>4. CASE Indexed(item)
    <2>1. /\ text.form = item.area /\ text.number = item.offset /\ text.bit = Absent
          /\ item.area \in {"timer", "counter"}
      BY <1>4 DEF FormatAddress, Text, Indexed
    <2> HIDE DEF text
    <2>2. item.offset <= Max24
      BY <1>2, <1>4 DEF WireAddress
    <2>3. ~MalformedText(text)
      BY <1>1, <1>3, <2>1, <2>2 DEF MalformedText
    <2>4. AreaOf(text) = item.area /\ TransportOf(text) = item.area
      BY <2>1 DEF AreaOf, TransportOf
    <2>5. Named(text) = Plain(item)
      BY <1>2, <1>4, <2>1, <2>4, PlainItem DEF Named
    <2>6. ParseError(text) = NoError
      BY <2>1, <2>3 DEF ParseError
    <2> QED BY <2>5, <2>6 DEF text
  <1>5. CASE ~Indexed(item)
    <2>1. /\ item.area \in {"input", "output", "marker", "db"}
          /\ item.transport \in {"bit", "byte", "word", "dword", "real"}
      BY <1>1, <1>2, <1>5, TransportsAre DEF Areas, Indexed
    <2>2. /\ text.form = IF item.area = "db" THEN "db" ELSE "memory"
          /\ text.prefix = AreaPrefix[item.area] /\ text.db = item.db
          /\ text.width = WidthLetter[item.transport] /\ text.number = item.offset
          /\ text.bit = IF item.transport = "bit" THEN item.bit ELSE Absent
      BY <2>1 DEF FormatAddress, FormatInBytes, Text
    <2> HIDE DEF text
    <2>3. AreaOf(text) = item.area
      BY <2>1, <2>2, Letters DEF AreaOf
    <2>4. TransportOf(text) = IF item.transport = "real" THEN "dword" ELSE item.transport
      BY <2>1, <2>2, Letters DEF TransportOf
    <2>5. ~MalformedText(text)
      <3>1. text.form = "db" => InRange(text.db, MaxUint16) /\ text.db # 0
        BY <1>1, <1>2, <1>3, <2>1, <2>2
      <3>2. text.number # TooBig
        BY <1>1, <1>3, <2>2
      <3>3. item.transport = "bit" => text.width = "X" /\ text.bit # Absent /\ InRange(text.bit, 7)
        BY <1>1, <1>2, <1>3, <1>5, <2>2, Letters
      <3>4. item.transport # "bit" => text.width \in {"B", "W", "D"} /\ text.bit = Absent
        BY <2>1, <2>2, Letters
      <3> QED BY <2>2, <3>1, <3>2, <3>3, <3>4 DEF MalformedText
    <2>6. (IF text.bit = Absent THEN 0 ELSE text.bit) = item.bit
      BY <1>1, <1>2, <1>3, <1>5, <2>2
    <2>7. (IF text.form = "db" THEN text.db ELSE 0) = item.db
      BY <1>2, <2>2
    <2>8. Named(text) = Plain(item)
      BY <2>2, <2>3, <2>4, <2>6, <2>7, PlainItem DEF Named
    <2>9. ParseError(text) = NoError
      BY <2>2, <2>5, <2>8, PlainItem DEF ParseError
    <2> QED BY <2>8, <2>9 DEF text
  <1> QED BY <1>4, <1>5

LEMMA ItemsSurvive ==
    ASSUME NEW item \in ItemRecords
    PROVE  ItemSurvivesText(item)
  BY TextOfItem DEF ItemSurvivesText, Plain

LEMMA TextsAreCanonicalized ==
    ASSUME NEW text \in Texts
    PROVE  TextIsCanonicalized(text)
  <1> SUFFICES ASSUME ParseError(text) = NoError PROVE TextIsCanonicalized(text)
    BY DEF TextIsCanonicalized
  <1> DEFINE item == Named(text)
             canonical == FormatAddress(item)
  <1>1. ~MalformedText(text)
    BY DEF ParseError, NoError
  <1>2. /\ item \in ItemRecords /\ item.count = 1 /\ item.transport # "real"
        /\ text.form \in {"timer", "counter"} =>
             /\ item.area = text.form /\ item.transport = text.form /\ item.bit = 0
             /\ item.db = 0 /\ item.offset <= Max24
    <2>1. text.form \in {"db", "memory", "timer", "counter"}
      BY <1>1, TextFields DEF MalformedText
    <2> QED BY <1>1, <2>1, NamedItem, NamedFields
  <1> HIDE DEF item
  <1>3. AddressError(item) = NoError
    <2>1. CASE text.form \in {"timer", "counter"}
      <3>1. Indexed(item) /\ WireAddress(item) = item.offset
        BY <1>2, <2>1 DEF Indexed, WireAddress
      <3> QED BY <1>2, <2>1, <3>1, AcceptedAddress
    <2>2. CASE text.form \notin {"timer", "counter"}
      BY <1>1, <2>2 DEF ParseError, item
    <2> QED BY <2>1, <2>2
  <1>4. Plain(item) = item
    BY <1>2, PlainItem DEF ItemRecords
  <1>5. ParseError(canonical) = NoError /\ Named(canonical) = item
    BY <1>2, <1>3, <1>4, TextOfItem
  <1> QED BY <1>3, <1>5 DEF TextIsCanonicalized, item

-----------------------------------------------------------------------------
\* Parts laid end to end

Lens(ss) == [k \in DOMAIN ss |-> Len(ss[k])]
\* How much lies before part k + 1.
Starts(ss) == Totals(Lens(ss), Len(ss))

\* s consists of the first k parts.
MadeOf(s, k, ss) ==
    /\ Len(s) = Starts(ss)[k]
    /\ \A i \in 1..k : \A j \in 1..Len(ss[i]) : s[Starts(ss)[i - 1] + j] = ss[i][j]

LEMMA StartsAre ==
    ASSUME NEW E, NEW ss \in Seq(Seq(E))
    PROVE  /\ Starts(ss)[0] = 0
           /\ \A k \in 1..Len(ss) : Starts(ss)[k] = Starts(ss)[k - 1] + Len(ss[k])
           /\ \A k \in 0..Len(ss) : Starts(ss)[k] \in Nat
           /\ \A k \in 0..Len(ss) : \A i \in 0..k : Starts(ss)[i] <= Starts(ss)[k]
  <1> DEFINE n == Len(ss)
             t == Starts(ss)
  <1>1. n \in Nat /\ DOMAIN ss = 1..n /\ \A k \in 1..n : ss[k] \in Seq(E) /\ Len(ss[k]) \in Nat
    OBVIOUS
  <1>2. Numbers(Lens(ss), n) /\ \A k \in 1..n : Lens(ss)[k] = Len(ss[k])
    BY <1>1 DEF Numbers, Lens
  <1>3. t[0] = 0 /\ \A k \in 1..n : t[k] = t[k - 1] + Len(ss[k])
    BY <1>1, <1>2, TotalsStep DEF Starts
  <1> HIDE DEF t
  <1> DEFINE S == {k \in 0..n : t[k] \in Nat /\ \A i \in 0..k : t[i] \in Nat /\ t[i] <= t[k]}
  <1>4. 0 \in S
    BY <1>1, <1>3
  <1>5. ASSUME NEW k \in 1..n, k - 1 \in S PROVE k \in S
    <2>1. t[k - 1] \in Nat /\ \A i \in 0..(k - 1) : t[i] \in Nat /\ t[i] <= t[k - 1]
      BY <1>5
    <2>2. t[k] = t[k - 1] + Len(ss[k]) /\ Len(ss[k]) \in Nat
      BY <1>1, <1>3
    <2>3. t[k] \in Nat /\ t[k - 1] <= t[k]
      BY <2>1, <2>2
    <2>4. ASSUME NEW i \in 0..k PROVE t[i] \in Nat /\ t[i] <= t[k]
      <3>1. CASE i = k BY <2>3, <3>1
      <3>2. CASE i # k
        <4>1. i \in 0..(k - 1) /\ t[i] \in Nat
          BY <3>2, <2>1
        <4> QED BY <2>1, <2>3, <4>1
      <3> QED BY <3>1, <3>2
    <2> QED BY <2>3, <2>4
  <1>6. \A k \in 0..n : k \in S
    <2> HIDE DEF S
    <2> QED BY <1>1, <1>4, <1>5, UpTo
  <1> QED BY <1>3, <1>6 DEF t

LEMMA InFront ==
    \A x, l, y, z \in Nat : \A j \in 1..l : x + l <= y => x + j \in 1..(y + z) /\ x + j <= y
  OBVIOUS

\* FlattenSeq lays the parts end to end.
LEMMA FlattenLayout ==
    ASSUME NEW E, NEW ss \in Seq(Seq(E)), Len(ss) >= 1
    PROVE  FlattenSeq(ss) \in Seq(E) /\ MadeOf(FlattenSeq(ss), Len(ss), ss)
  <1> DEFINE n == Len(ss)
             V == Seq(E)
             F == [x \in (1..n) \X V |-> IF x[1] = 1 THEN ss[1] ELSE x[2] \o ss[x[1]]]
             t == Starts(ss)
  <1>1. n \in Nat /\ n >= 1 /\ DOMAIN ss = 1..n /\ \A k \in 1..n : ss[k] \in V
    OBVIOUS
  <1>2. PICK g \in [0..n -> V] : Unfolds(g, n, <<>>, F)
    <2>1. F \in [(1..n) \X V -> V]
      <3>1. ASSUME NEW x \in (1..n) \X V PROVE (IF x[1] = 1 THEN ss[1] ELSE x[2] \o ss[x[1]]) \in V
        <4>1. x[1] \in 1..n /\ x[2] \in V /\ ss[x[1]] \in V /\ ss[1] \in V
          BY <1>1
        <4> QED BY <4>1
      <3> QED BY <3>1
    <2>2. <<>> \in V
      OBVIOUS
    <2> HIDE DEF F, V
    <2> QED BY <1>1, <2>1, <2>2, Recursion
  <1>3. \A k \in 1..n : g[k] = IF k = 1 THEN ss[k] ELSE g[k - 1] \o ss[k]
    <2> SUFFICES ASSUME NEW k \in 1..n PROVE g[k] = IF k = 1 THEN ss[k] ELSE g[k - 1] \o ss[k]
      OBVIOUS
    <2>0. k \in 0..n /\ k # 0 /\ k - 1 \in 0..n
      BY <1>1
    <2>1. g[k] = F[<<k, g[k - 1]>>] /\ g[k - 1] \in V
      <3> HIDE DEF F, V, n
      <3> QED BY <1>2, <2>0 DEF Unfolds
    <2>2. <<k, g[k - 1]>> \in (1..n) \X V
      BY <2>1
    <2> HIDE DEF V
    <2> QED BY <2>1, <2>2
  <1> HIDE DEF F
  <1> DEFINE h == [k \in 1..n |-> g[k]]
             Flat(f) == f = [i \in 1..n |-> IF i = 1 THEN ss[i] ELSE f[i - 1] \o ss[i]]
             f0 == CHOOSE f : Flat(f)
  <1>4. Flat(h)
    <2>1. \A k \in 1..n : h[k] = IF k = 1 THEN ss[k] ELSE h[k - 1] \o ss[k]
      BY <1>3
    <2> HIDE DEF V
    <2> QED BY <2>1
  <1>5. Flat(f0)
    <2> HIDE DEF Flat, h
    <2> QED BY <1>4
  <1>6. FlattenSeq(ss) = f0[n]
    BY <1>1 DEF FlattenSeq
  <1>7. \A k \in 1..n : f0[k] = IF k = 1 THEN ss[k] ELSE f0[k - 1] \o ss[k]
    <2> HIDE DEF f0, V
    <2> QED BY <1>5
  <1> HIDE DEF f0, Flat, h
  <1>8. /\ t[0] = 0 /\ \A k \in 1..n : t[k] = t[k - 1] + Len(ss[k])
        /\ \A k \in 0..n : t[k] \in Nat /\ \A i \in 0..k : t[i] <= t[k]
    BY StartsAre
  <1> HIDE DEF t, n, V
  <1> DEFINE Made(k) ==
               /\ f0[k] \in V /\ Len(f0[k]) = t[k]
               /\ \A i \in 1..k : \A j \in 1..Len(ss[i]) : f0[k][t[i - 1] + j] = ss[i][j]
             S == {k \in 0..n : k > 0 => Made(k)}
  <1>9. 0 \in S
    BY <1>1
  <1>10. ASSUME NEW k \in 1..n, k - 1 \in S PROVE k \in S
    <2>1. CASE k = 1
      <3>1. f0[1] = ss[1] /\ t[1] = Len(ss[1]) /\ ss[1] \in V /\ Len(ss[1]) \in Nat
        BY <1>1, <1>7, <1>8 DEF V
      <3>2. \A i \in 1..1 : \A j \in 1..Len(ss[i]) : f0[1][t[i - 1] + j] = ss[i][j]
        BY <1>8, <3>1
      <3> QED BY <1>1, <2>1, <3>1, <3>2
    <2>2. CASE k > 1
      <3>0. k \in 1..n /\ k # 1 /\ k - 1 \in 1..n
        BY <1>1, <2>2
      <3>1. f0[k] = f0[k - 1] \o ss[k] /\ ss[k] \in V
        BY <1>1, <1>7, <3>0, Zenon
      <3>2. Made(k - 1)
        BY <1>10, <2>2
      <3> DEFINE a == f0[k - 1]
                 b == ss[k]
      <3>3. a \in V /\ b \in V /\ Len(a) = t[k - 1] /\ t[k - 1] \in Nat
            /\ t[k] = t[k - 1] + Len(b)
        BY <1>8, <3>0, <3>1, <3>2
      <3>9. Len(b) \in Nat /\ a \in Seq(E) /\ b \in Seq(E)
        BY <3>3 DEF V
      <3> HIDE DEF a, b
      <3>4. /\ f0[k] \in V /\ Len(f0[k]) = Len(a) + Len(b)
            /\ \A i \in 1..(Len(a) + Len(b)) :
                 f0[k][i] = IF i <= Len(a) THEN a[i] ELSE b[i - Len(a)]
        <4>1. f0[k] = a \o b
          BY <3>1 DEF a, b
        <4>2. /\ a \o b \in Seq(E) /\ Len(a \o b) = Len(a) + Len(b)
              /\ \A i \in 1..(Len(a) + Len(b)) :
                   (a \o b)[i] = IF i <= Len(a) THEN a[i] ELSE b[i - Len(a)]
          BY <3>9, ConcatProperties, Zenon
        <4> QED BY <4>1, <4>2, Zenon DEF V
      <3>5. ASSUME NEW i \in 1..k, NEW j \in 1..Len(ss[i])
            PROVE  f0[k][t[i - 1] + j] = ss[i][j]
        <4>1. CASE i = k
          <5>1. t[k - 1] + j \in 1..(Len(a) + Len(b)) /\ ~(t[k - 1] + j <= Len(a))
                /\ (t[k - 1] + j) - Len(a) = j
            BY <3>3, <3>9, <4>1 DEF b
          <5> QED BY <3>4, <4>1, <5>1 DEF b
        <4>2. CASE i # k
          <5>1. i \in 1..(k - 1) /\ i \in 0..n /\ i - 1 \in 0..n
            BY <4>2, <1>1
          <5>2. t[i - 1] \in Nat /\ t[i] = t[i - 1] + Len(ss[i]) /\ t[i] <= t[k - 1]
                /\ Len(ss[i]) \in Nat
            <6>1. k - 1 \in 0..n /\ i \in 0..(k - 1) /\ i \in 1..n
              BY <1>1, <5>1
            <6>2. Len(ss[i]) \in Nat
              BY <1>1, <6>1 DEF V
            <6> QED BY <1>8, <5>1, <6>1, <6>2
          <5>3. t[i - 1] + j \in 1..(Len(a) + Len(b)) /\ t[i - 1] + j <= Len(a)
            <6>1. Len(a) = t[k - 1] /\ t[k - 1] \in Nat /\ Len(b) \in Nat
              BY <3>3, <3>9
            <6>2. t[i - 1] + Len(ss[i]) <= Len(a)
              BY <5>2, <6>1
            <6> QED BY <5>2, <6>1, <6>2, InFront
          <5>4. a[t[i - 1] + j] = ss[i][j]
            BY <3>2, <5>1 DEF a
          <5> QED BY <3>4, <5>3, <5>4
        <4> QED BY <4>1, <4>2
      <3> QED BY <1>1, <3>3, <3>4, <3>5
    <2> QED BY <1>1, <2>1, <2>2
  <1>11. Made(n)
    <2>1. n \in S
      <3> HIDE DEF S
      <3>1. \A k \in 0..n : k \in S
        BY <1>1, <1>9, <1>10, UpTo
      <3> QED BY <1>1, <3>1
    <2> QED BY <1>1, <2>1
  <1> QED BY <1>6, <1>11 DEF MadeOf, n, t, V

\* Every position lies in one of the parts.
LEMMA EveryPositionInPart ==
    ASSUME NEW E, NEW ss \in Seq(Seq(E)), NEW p \in 1..Starts(ss)[Len(ss)]
    PROVE  \E k \in 1..Len(ss) : \E j \in 1..Len(ss[k]) : p = Starts(ss)[k - 1] + j
  <1> DEFINE n == Len(ss)
             t == Starts(ss)
             S == {k \in 0..n : p <= t[k]}
  <1>1. /\ n \in Nat /\ t[0] = 0 /\ \A k \in 1..n : t[k] = t[k - 1] + Len(ss[k])
        /\ \A k \in 0..n : t[k] \in Nat
    BY StartsAre
  <1> HIDE DEF t
  <1>2. n \in S /\ S \in SUBSET Nat /\ S # {}
    BY <1>1 DEF t
  <1>3. PICK m \in S : \A k \in S : m <= k
    <2> HIDE DEF S
    <2> QED BY <1>2, LeastNatural
  <1>4. m \in 1..n /\ m - 1 \in 0..n
    BY <1>1, <1>3 DEF t
  <1>5. t[m - 1] < p
    <2>1. m - 1 \notin S
      BY <1>3, <1>4
    <2> QED BY <1>1, <1>4, <2>1, SMTT(30) DEF t
  <1> DEFINE j == p - t[m - 1]
  <1>6. j \in 1..Len(ss[m]) /\ p = t[m - 1] + j
    <2>1. p \in Nat /\ t[m - 1] \in Nat /\ t[m] = t[m - 1] + Len(ss[m]) /\ p <= t[m]
          /\ Len(ss[m]) \in Nat
      BY <1>1, <1>3, <1>4 DEF t
    <2> QED BY <1>5, <2>1
  <1> QED BY <1>4, <1>6 DEF t

LEMMA FlattenUnique ==
    ASSUME NEW E, NEW ss \in Seq(Seq(E)), Len(ss) >= 1,
           NEW s \in Seq(E), MadeOf(s, Len(ss), ss)
    PROVE  s = FlattenSeq(ss)
  <1> DEFINE f == FlattenSeq(ss)
  <1>1. f \in Seq(E) /\ MadeOf(f, Len(ss), ss)
    BY FlattenLayout
  <1> HIDE DEF f
  <1>2. Len(s) = Len(f) /\ Len(s) = Starts(ss)[Len(ss)]
    BY <1>1 DEF MadeOf
  <1>3. ASSUME NEW p \in 1..Len(s) PROVE s[p] = f[p]
    <2>0. p \in 1..Starts(ss)[Len(ss)]
      BY <1>2
    <2>1. PICK k \in 1..Len(ss) : \E j \in 1..Len(ss[k]) : p = Starts(ss)[k - 1] + j
      BY <2>0, EveryPositionInPart
    <2>2. PICK j \in 1..Len(ss[k]) : p = Starts(ss)[k - 1] + j
      BY <2>1
    <2> QED BY <1>1, <2>2 DEF MadeOf
  <1> QED BY <1>1, <1>2, <1>3, SeqEqual DEF f

-----------------------------------------------------------------------------
\* Numbers of two bytes, and headers

LEMMA WordBytes ==
    /\ \A n \in Nat : n <= MaxUint16 => Hi(n) \in Byte /\ Lo(n) \in Byte /\ Hi(n) * 256 + Lo(n) = n
    /\ \A a, b \in Byte : Hi(a * 256 + b) = a /\ Lo(a * 256 + b) = b
  <1>1. ASSUME NEW n \in Nat, n <= MaxUint16
        PROVE  Hi(n) \in Byte /\ Lo(n) \in Byte /\ Hi(n) * 256 + Lo(n) = n
    BY <1>1 DEF Hi, Lo, Byte, MaxUint16
  <1>2. ASSUME NEW a \in Byte, NEW b \in Byte
        PROVE  Hi(a * 256 + b) = a /\ Lo(a * 256 + b) = b
    BY DEF Hi, Lo, Byte
  <1> QED BY <1>1, <1>2

\* The part of s from m to e is the sequence a.
LEMMA IsSlice ==
    ASSUME NEW E, NEW s \in Seq(E), NEW a \in Seq(E), NEW m \in Nat, NEW e \in Int,
           m >= 1, e = (m - 1) + Len(a), e <= Len(s), \A i \in 1..Len(a) : s[(m - 1) + i] = a[i]
    PROVE  SubSeq(s, m, e) = a
  <1> DEFINE x == SubSeq(s, m, e)
  <1>1. Len(a) \in Nat /\ Len(s) \in Nat /\ m \in Int
    OBVIOUS
  <1>2. \A i \in m..e : s[i] \in E
    <2> SUFFICES ASSUME NEW i \in m..e PROVE s[i] \in E
      OBVIOUS
    <2>1. i \in 1..Len(s)
      BY <1>1
    <2> QED BY <2>1, ElementOfSeq
  <1>3. /\ x \in Seq(E) /\ Len(x) = IF m <= e THEN e - m + 1 ELSE 0
        /\ \A i \in 1..(e - m + 1) : x[i] = s[m + i - 1]
    BY <1>1, <1>2, SubSeqProperties
  <1> HIDE DEF x
  <1>4. Len(x) = Len(a)
    BY <1>1, <1>3
  <1>5. ASSUME NEW i \in 1..Len(x) PROVE x[i] = a[i]
    <2>1. i \in 1..(e - m + 1) /\ m + i - 1 = (m - 1) + i /\ i \in 1..Len(a)
      BY <1>1, <1>4
    <2>2. x[i] = s[m + i - 1]
      BY <1>3, <2>1
    <2> QED BY <2>1, <2>2
  <1>6. x = a
    BY <1>3, <1>4, <1>5, SeqEqual
  <1> QED BY <1>6 DEF x

\* A header and two parts.
Joins(s, h, a, b) ==
    /\ Len(s) = Len(h) + Len(a) + Len(b)
    /\ \A i \in 1..Len(h) : s[i] = h[i]
    /\ \A i \in 1..Len(a) : s[Len(h) + i] = a[i]
    /\ \A i \in 1..Len(b) : s[Len(h) + Len(a) + i] = b[i]
    /\ SubSeq(s, Len(h) + 1, Len(h) + Len(a)) = a
    /\ SubSeq(s, Len(h) + Len(a) + 1, Len(s)) = b

LEMMA ThreeParts ==
    ASSUME NEW E, NEW h \in Seq(E), NEW a \in Seq(E), NEW b \in Seq(E)
    PROVE  h \o a \o b \in Seq(E) /\ Joins(h \o a \o b, h, a, b)
  <1> DEFINE g == h \o a
             s == g \o b
  <1>1. Len(h) \in Nat /\ Len(a) \in Nat /\ Len(b) \in Nat
    OBVIOUS
  <1>2. /\ g \in Seq(E) /\ Len(g) = Len(h) + Len(a)
        /\ \A i \in 1..(Len(h) + Len(a)) : g[i] = IF i <= Len(h) THEN h[i] ELSE a[i - Len(h)]
    BY ConcatProperties, Zenon
  <1> HIDE DEF g
  <1>3. /\ s \in Seq(E) /\ Len(s) = Len(g) + Len(b)
        /\ \A i \in 1..(Len(g) + Len(b)) : s[i] = IF i <= Len(g) THEN g[i] ELSE b[i - Len(g)]
    <2>1. g \in Seq(E)
      BY <1>2
    <2> QED BY <2>1, ConcatProperties, Zenon
  <1> HIDE DEF s
  <1>4. ASSUME NEW i \in 1..Len(h) PROVE s[i] = h[i]
    <2>1. i \in 1..(Len(h) + Len(a)) /\ i \in 1..(Len(g) + Len(b)) /\ i <= Len(g) /\ i <= Len(h)
      BY <1>1, <1>2
    <2> QED BY <1>2, <1>3, <2>1
  <1>5. ASSUME NEW i \in 1..Len(a) PROVE s[Len(h) + i] = a[i]
    <2> DEFINE p == Len(h) + i
    <2>1. p \in 1..(Len(h) + Len(a)) /\ p \in 1..(Len(g) + Len(b)) /\ p <= Len(g)
          /\ ~(p <= Len(h)) /\ p - Len(h) = i
      BY <1>1, <1>2
    <2> HIDE DEF p
    <2>2. s[p] = a[i]
      BY <1>2, <1>3, <2>1
    <2> QED BY <2>2 DEF p
  <1>6. ASSUME NEW i \in 1..Len(b) PROVE s[Len(h) + Len(a) + i] = b[i]
    <2> DEFINE p == Len(h) + Len(a) + i
    <2>1. p \in 1..(Len(g) + Len(b)) /\ ~(p <= Len(g)) /\ p - Len(g) = i
      BY <1>1, <1>2
    <2> HIDE DEF p
    <2>2. s[p] = b[i]
      BY <1>3, <2>1
    <2> QED BY <2>2 DEF p
  <1>7. Len(s) = Len(h) + Len(a) + Len(b) /\ \A i \in 1..Len(s) : s[i] \in E
    BY <1>1, <1>2, <1>3
  <1>8. SubSeq(s, Len(h) + 1, Len(h) + Len(a)) = a
    <2> DEFINE m == Len(h) + 1
               e == Len(h) + Len(a)
    <2>1. m \in Nat /\ e \in Int /\ m >= 1 /\ e = (m - 1) + Len(a) /\ e <= Len(s)
          /\ m - 1 = Len(h)
      BY <1>1, <1>7
    <2>2. \A i \in 1..Len(a) : s[(m - 1) + i] = a[i]
      BY <1>5, <2>1
    <2> HIDE DEF m, e
    <2>3. SubSeq(s, m, e) = a
      BY <1>3, <2>1, <2>2, IsSlice
    <2> QED BY <2>3 DEF m, e
  <1>9. SubSeq(s, Len(h) + Len(a) + 1, Len(s)) = b
    <2> DEFINE m == Len(h) + Len(a) + 1
               e == Len(s)
    <2>1. m \in Nat /\ e \in Int /\ m >= 1 /\ e = (m - 1) + Len(b) /\ e <= Len(s)
          /\ m - 1 = Len(h) + Len(a)
      BY <1>1, <1>7
    <2>2. \A i \in 1..Len(b) : s[(m - 1) + i] = b[i]
      BY <1>6, <2>1
    <2> HIDE DEF m, e
    <2>3. SubSeq(s, m, e) = b
      BY <1>3, <2>1, <2>2, IsSlice
    <2> QED BY <2>3 DEF m, e
  <1>10. s \in Seq(E) /\ Joins(s, h, a, b)
    BY <1>3, <1>4, <1>5, <1>6, <1>7, <1>8, <1>9 DEF Joins
  <1> QED BY <1>10 DEF s, g

LEMMA FourBytes ==
    ASSUME NEW q \in Seq(Byte), Len(q) >= 4
    PROVE  SubSeq(q, 1, 4) = <<q[1], q[2], q[3], q[4]>>
  <1> DEFINE a == <<q[1], q[2], q[3], q[4]>>
  <1>1. q[1] \in Byte /\ q[2] \in Byte /\ q[3] \in Byte /\ q[4] \in Byte
    OBVIOUS
  <1>2. a \in Seq(Byte) /\ Len(a) = 4 /\ \A i \in 1..4 : q[(1 - 1) + i] = a[i]
    BY <1>1
  <1> HIDE DEF a
  <1>3. 1 \in Nat /\ 4 \in Int /\ 4 = (1 - 1) + Len(a) /\ 4 <= Len(q) /\ 1 >= 1
    BY <1>2
  <1>4. SubSeq(q, 1, 4) = a
    BY <1>2, <1>3, IsSlice
  <1> QED BY <1>4 DEF a

\* A frame carries the payload it was made of.
LEMMA FrameCarries ==
    ASSUME NEW payload \in Seq(Byte), 7 + Len(payload) <= MaxFrameBytes
    PROVE  LET f == WrapData(payload)
           IN /\ f \in Seq(Byte) /\ Len(f) = 7 + Len(payload)
              /\ ~ReadFrameFails(f) /\ Frame(f) = f /\ ~UnwrapFails(f) /\ Payload(f) = payload
  <1> DEFINE l == 7 + Len(payload)
             h == <<3, 0, Hi(l), Lo(l), 2, 240, 128>>
             f == WrapData(payload)
  <1>1. l \in Nat /\ l <= MaxUint16 /\ Len(payload) \in Nat /\ MaxFrameBytes \in Nat
    BY WireAssumption, MaxWords
  <1>2. f = h \o payload
    BY DEF WrapData, DataHeaderSize
  <1> HIDE DEF l
  <1>3. Hi(l) \in Byte /\ Lo(l) \in Byte /\ Hi(l) * 256 + Lo(l) = l
    BY <1>1, WordBytes
  <1>4. 3 \in Byte /\ 0 \in Byte /\ 2 \in Byte /\ 240 \in Byte /\ 128 \in Byte
    BY DEF Byte
  <1>5. /\ h \in Seq(Byte) /\ Len(h) = 7 /\ h[1] = 3 /\ h[2] = 0 /\ h[3] = Hi(l) /\ h[4] = Lo(l)
        /\ h[5] = 2 /\ h[6] = 240 /\ h[7] = 128
    BY <1>3, <1>4
  <1> HIDE DEF h, f
  <1>6. /\ f \in Seq(Byte) /\ Len(f) = l
        /\ \A i \in 1..7 : f[i] = h[i]
        /\ \A i \in 1..Len(payload) : f[7 + i] = payload[i]
    <2>1. /\ h \o payload \in Seq(Byte) /\ Len(h \o payload) = Len(h) + Len(payload)
          /\ \A i \in 1..(Len(h) + Len(payload)) :
               (h \o payload)[i] = IF i <= Len(h) THEN h[i] ELSE payload[i - Len(h)]
      <3>1. h \in Seq(Byte)
        BY <1>5
      <3> QED BY <3>1, ConcatProperties, Zenon
    <2>2. Len(f) = l
      BY <1>2, <1>5, <2>1 DEF l
    <2>3. ASSUME NEW i \in 1..7 PROVE f[i] = h[i]
      <3>1. i \in 1..(Len(h) + Len(payload)) /\ i <= Len(h)
        BY <1>1, <1>5
      <3> QED BY <1>2, <2>1, <3>1
    <2>4. ASSUME NEW i \in 1..Len(payload) PROVE f[7 + i] = payload[i]
      <3> DEFINE p == 7 + i
      <3>1. p \in 1..(Len(h) + Len(payload)) /\ ~(p <= Len(h)) /\ p - Len(h) = i
        BY <1>1, <1>5
      <3> HIDE DEF p
      <3>2. f[p] = payload[i]
        BY <1>2, <2>1, <3>1
      <3> QED BY <3>2 DEF p
    <2> QED BY <1>2, <2>1, <2>2, <2>3, <2>4
  <1>7. /\ f[1] = 3 /\ f[2] = 0 /\ f[3] = Hi(l) /\ f[4] = Lo(l) /\ f[5] = 2 /\ f[6] = 240
        /\ f[7] = 128
    BY <1>5, <1>6
  <1>8. At16(f, 3) = l
    BY <1>3, <1>7 DEF At16
  <1>9. ~ReadFrameFails(f) /\ ~UnwrapFails(f)
    BY <1>1, <1>6, <1>7, <1>8 DEF ReadFrameFails, UnwrapFails, DataHeaderSize, l
  <1>10. Frame(f) = f
    <2>1. SubSeq(f, 1, l) = f
      <3>1. 1 \in Nat /\ l \in Int /\ l = (1 - 1) + Len(f) /\ l <= Len(f)
            /\ \A i \in 1..Len(f) : f[(1 - 1) + i] = f[i]
        BY <1>1, <1>6
      <3> QED BY <1>6, <3>1, IsSlice
    <2> QED BY <1>8, <2>1 DEF Frame
  <1>11. Payload(f) = payload
    <2>1. SubSeq(f, 8, l) = payload
      <3>1. 8 \in Nat /\ l \in Int /\ l = (8 - 1) + Len(payload) /\ l <= Len(f)
            /\ \A i \in 1..Len(payload) : f[(8 - 1) + i] = payload[i]
        BY <1>1, <1>6 DEF l
      <3> QED BY <1>6, <3>1, IsSlice
    <2> QED BY <1>6, <2>1 DEF Payload, DataHeaderSize
  <1> QED BY <1>6, <1>9, <1>10, <1>11 DEF f, l

\* The header of a request, as the PLC takes it apart.
LEMMA JobCarries ==
    ASSUME NEW a \in Seq(Byte), NEW b \in Seq(Byte), Len(a) <= MaxUint16, Len(b) <= MaxUint16
    PROVE  LET q == Job(a, b)
           IN /\ q \in Seq(Byte) /\ Len(q) = 10 + Len(a) + Len(b)
              /\ SubSeq(q, 1, 4) = <<50, 1, 0, 0>> /\ At16(q, 5) = Reference
              /\ At16(q, 7) = Len(a) /\ At16(q, 9) = Len(b)
              /\ JobParametersOf(q) = a /\ JobBodyOf(q) = b
  <1> DEFINE h == <<50, 1, 0, 0, Hi(Reference), Lo(Reference), Hi(Len(a)), Lo(Len(a)),
                    Hi(Len(b)), Lo(Len(b))>>
             q == Job(a, b)
  <1>1. Len(a) \in Nat /\ Len(b) \in Nat /\ Reference \in Nat /\ Reference <= MaxUint16
    BY WireAssumption, MaxWords
  <1>2. q = h \o a \o b
    BY DEF Job
  <1>3. /\ Hi(Reference) \in Byte /\ Lo(Reference) \in Byte
        /\ Hi(Reference) * 256 + Lo(Reference) = Reference
        /\ Hi(Len(a)) \in Byte /\ Lo(Len(a)) \in Byte /\ Hi(Len(a)) * 256 + Lo(Len(a)) = Len(a)
        /\ Hi(Len(b)) \in Byte /\ Lo(Len(b)) \in Byte /\ Hi(Len(b)) * 256 + Lo(Len(b)) = Len(b)
    BY <1>1, WordBytes
  <1>4. 50 \in Byte /\ 1 \in Byte /\ 0 \in Byte
    BY DEF Byte
  <1>5. /\ h \in Seq(Byte) /\ Len(h) = 10 /\ h[1] = 50 /\ h[2] = 1 /\ h[3] = 0 /\ h[4] = 0
        /\ h[5] = Hi(Reference) /\ h[6] = Lo(Reference) /\ h[7] = Hi(Len(a)) /\ h[8] = Lo(Len(a))
        /\ h[9] = Hi(Len(b)) /\ h[10] = Lo(Len(b))
    BY <1>3, <1>4
  <1> HIDE DEF h, q
  <1>6. /\ q \in Seq(Byte) /\ Len(q) = 10 + Len(a) + Len(b)
        /\ \A i \in 1..10 : q[i] = h[i]
        /\ SubSeq(q, 11, 10 + Len(a)) = a
        /\ SubSeq(q, 10 + Len(a) + 1, Len(q)) = b
    <2>1. /\ q \in Seq(Byte) /\ Len(q) = Len(h) + Len(a) + Len(b)
          /\ \A i \in 1..Len(h) : q[i] = h[i]
          /\ SubSeq(q, Len(h) + 1, Len(h) + Len(a)) = a
          /\ SubSeq(q, Len(h) + Len(a) + 1, Len(q)) = b
      <3>1. h \in Seq(Byte)
        BY <1>5
      <3>2. q \in Seq(Byte) /\ Joins(q, h, a, b)
        BY <1>2, <3>1, ThreeParts
      <3> QED BY <3>2 DEF Joins
    <2>2. Len(h) = 10 /\ Len(h) + 1 = 11
      BY <1>5
    <2> QED BY <2>1, <2>2
  <1>7. /\ q[1] = 50 /\ q[2] = 1 /\ q[3] = 0 /\ q[4] = 0
        /\ q[5] = Hi(Reference) /\ q[6] = Lo(Reference) /\ q[7] = Hi(Len(a)) /\ q[8] = Lo(Len(a))
        /\ q[9] = Hi(Len(b)) /\ q[10] = Lo(Len(b))
    BY <1>5, <1>6
  <1>8. At16(q, 5) = Reference /\ At16(q, 7) = Len(a) /\ At16(q, 9) = Len(b)
    BY <1>3, <1>7 DEF At16
  <1>9. SubSeq(q, 1, 4) = <<50, 1, 0, 0>>
    <2>1. Len(q) >= 4
      BY <1>1, <1>6
    <2> QED BY <1>6, <1>7, <2>1, FourBytes
  <1>10. JobParametersOf(q) = a /\ JobBodyOf(q) = b
    <2>1. 11 + Len(a) = 10 + Len(a) + 1
      BY <1>1
    <2> QED BY <1>6, <1>8, <2>1 DEF JobParametersOf, JobBodyOf
  <1> QED BY <1>6, <1>8, <1>9, <1>10, Zenon DEF q

\* The header of an answer, as the client takes it apart.
AckPayload(a, b) ==
    <<50, 3, 0, 0, Hi(Reference), Lo(Reference), Hi(Len(a)), Lo(Len(a)), Hi(Len(b)),
      Lo(Len(b)), 0, 0>> \o a \o b

LEMMA AckCarries ==
    ASSUME NEW a \in Seq(Byte), NEW b \in Seq(Byte), Len(a) <= MaxUint16, Len(b) <= MaxUint16
    PROVE  LET q == AckPayload(a, b)
           IN /\ Ack(Reference, a, b) = WrapData(q)
              /\ q \in Seq(Byte) /\ Len(q) = 12 + Len(a) + Len(b)
              /\ ~AckFails(q) /\ GlobalCode(q) = 0
              /\ AckParameters(q) = a /\ AckData(q) = b
  <1> DEFINE h == <<50, 3, 0, 0, Hi(Reference), Lo(Reference), Hi(Len(a)), Lo(Len(a)),
                    Hi(Len(b)), Lo(Len(b)), 0, 0>>
             q == AckPayload(a, b)
  <1>1. Len(a) \in Nat /\ Len(b) \in Nat /\ Reference \in Nat /\ Reference <= MaxUint16
    BY WireAssumption, MaxWords
  <1>2. q = h \o a \o b /\ Ack(Reference, a, b) = WrapData(q)
    BY DEF AckPayload, Ack
  <1>3. /\ Hi(Reference) \in Byte /\ Lo(Reference) \in Byte
        /\ Hi(Reference) * 256 + Lo(Reference) = Reference
        /\ Hi(Len(a)) \in Byte /\ Lo(Len(a)) \in Byte /\ Hi(Len(a)) * 256 + Lo(Len(a)) = Len(a)
        /\ Hi(Len(b)) \in Byte /\ Lo(Len(b)) \in Byte /\ Hi(Len(b)) * 256 + Lo(Len(b)) = Len(b)
    BY <1>1, WordBytes
  <1>4. 50 \in Byte /\ 3 \in Byte /\ 0 \in Byte
    BY DEF Byte
  <1>5. /\ h \in Seq(Byte) /\ Len(h) = 12 /\ h[1] = 50 /\ h[2] = 3 /\ h[3] = 0 /\ h[4] = 0
        /\ h[5] = Hi(Reference) /\ h[6] = Lo(Reference) /\ h[7] = Hi(Len(a)) /\ h[8] = Lo(Len(a))
        /\ h[9] = Hi(Len(b)) /\ h[10] = Lo(Len(b)) /\ h[11] = 0 /\ h[12] = 0
    BY <1>3, <1>4
  <1> HIDE DEF h, q
  <1>6. /\ q \in Seq(Byte) /\ Len(q) = 12 + Len(a) + Len(b)
        /\ \A i \in 1..12 : q[i] = h[i]
        /\ SubSeq(q, 13, 12 + Len(a)) = a
        /\ SubSeq(q, 12 + Len(a) + 1, Len(q)) = b
    <2>1. /\ q \in Seq(Byte) /\ Len(q) = Len(h) + Len(a) + Len(b)
          /\ \A i \in 1..Len(h) : q[i] = h[i]
          /\ SubSeq(q, Len(h) + 1, Len(h) + Len(a)) = a
          /\ SubSeq(q, Len(h) + Len(a) + 1, Len(q)) = b
      <3>1. h \in Seq(Byte)
        BY <1>5
      <3>2. q \in Seq(Byte) /\ Joins(q, h, a, b)
        BY <1>2, <3>1, ThreeParts
      <3> QED BY <3>2 DEF Joins
    <2>2. Len(h) = 12 /\ Len(h) + 1 = 13
      BY <1>5
    <2> QED BY <2>1, <2>2
  <1>7. /\ q[1] = 50 /\ q[2] = 3 /\ q[3] = 0 /\ q[4] = 0
        /\ q[5] = Hi(Reference) /\ q[6] = Lo(Reference) /\ q[7] = Hi(Len(a)) /\ q[8] = Lo(Len(a))
        /\ q[9] = Hi(Len(b)) /\ q[10] = Lo(Len(b)) /\ q[11] = 0 /\ q[12] = 0
    BY <1>5, <1>6
  <1>8. At16(q, 5) = Reference /\ At16(q, 7) = Len(a) /\ At16(q, 9) = Len(b) /\ At16(q, 11) = 0
    BY <1>3, <1>7 DEF At16
  <1>9. SubSeq(q, 1, 4) = <<50, 3, 0, 0>>
    <2>1. Len(q) >= 4
      BY <1>1, <1>6
    <2> QED BY <1>6, <1>7, <2>1, FourBytes
  <1>10. ~AckFails(q)
    <2> DEFINE l == Len(q)
               m == Len(a)
               n == Len(b)
    <2>1. m \in Nat /\ n \in Nat /\ l = 12 + m + n
      BY <1>1, <1>6
    <2> HIDE DEF l, m, n
    <2>2. ~(l < 12) /\ ~(m > l - 12) /\ n = l - 12 - m
      BY <2>1
    <2>3. ~(Len(q) < 12) /\ ~(Len(a) > Len(q) - 12) /\ Len(b) = Len(q) - 12 - Len(a)
      BY <2>2, Zenon DEF l, m, n
    <2> QED BY <1>8, <1>9, <2>3, Zenon DEF AckFails, AckHeaderSize
  <1>11. AckParameters(q) = a /\ AckData(q) = b /\ GlobalCode(q) = 0
    <2>1. 13 + Len(a) = 12 + Len(a) + 1
      BY <1>1
    <2> QED BY <1>6, <1>8, <2>1 DEF AckParameters, AckData, GlobalCode
  <1> QED BY <1>2, <1>6, <1>10, <1>11, Zenon DEF q

-----------------------------------------------------------------------------
\* One item on the wire

\* A descriptor the builder accepts and the PLC understands.
GoodDescriptor(p) ==
    /\ p.wordLength \in PLCWords /\ p.responseTransport = PLCTransport(p.wordLength)
    /\ p.amount \in Nat /\ 1 <= p.amount /\ p.amount <= MaxUint16
    /\ p.wordLength = 1 => p.amount = 1
    /\ p.db \in Nat /\ p.db <= MaxUint16 /\ p.area \in Byte
    /\ p.address \in Nat /\ p.address <= Max24
    /\ p.dataBytes = p.amount * PLCWidth(p.wordLength)
    /\ (p.lengthInBits <=> PLCTransport(p.wordLength) = 4)
    /\ EncodedLength(p) <= MaxUint16

\* What the PLC makes of it.
Seen(p) ==
    [wordLength |-> p.wordLength, amount |-> p.amount, db |-> p.db, area |-> p.area,
     address |-> p.address, dataBytes |-> p.dataBytes, transport |-> p.responseTransport,
     length |-> EncodedLength(p)]

LEMMA WordLayouts ==
    ASSUME NEW w \in PLCWords
    PROVE  PLCWidth(w) \in {1, 2, 4} /\ PLCTransport(w) \in {3, 4, 7, 9} /\ w \in Byte
           /\ (w = 1 => PLCWidth(w) = 1)
  BY DEF PLCWords, PLCWidth, PLCTransport, Byte

LEMMA DescriptorLength ==
    ASSUME NEW p, GoodDescriptor(p)
    PROVE  /\ p.dataBytes \in Nat /\ 1 <= p.dataBytes
           /\ EncodedLength(p) \in Nat /\ p.responseTransport \in Byte
           /\ EncodedLength(p) = IF p.wordLength = 1 THEN 1
                                 ELSE IF PLCTransport(p.wordLength) = 4 THEN p.dataBytes * 8
                                 ELSE p.dataBytes
  <1> DEFINE w == PLCWidth(p.wordLength)
             r == PLCTransport(p.wordLength)
  <1>1. /\ w \in {1, 2, 4} /\ r \in {3, 4, 7, 9} /\ p.amount \in Nat /\ 1 <= p.amount
        /\ p.dataBytes = p.amount * w /\ p.responseTransport = r
        /\ (p.lengthInBits <=> r = 4) /\ (p.wordLength = 1 => p.amount = 1)
    BY WordLayouts DEF GoodDescriptor
  <1> HIDE DEF w, r
  <1>2. p.dataBytes \in Nat /\ 1 <= p.dataBytes
    BY <1>1
  <1>3. p.responseTransport \in Byte
    BY <1>1 DEF Byte
  <1>4. EncodedLength(p) = IF p.wordLength = 1 THEN 1
                           ELSE IF r = 4 THEN p.dataBytes * 8 ELSE p.dataBytes
    BY <1>1 DEF EncodedLength
  <1> QED BY <1>2, <1>3, <1>4 DEF r

\* The three bytes of an address, joined again.
Rejoined(x) == (x \div 65536) * 65536 + (((x \div 256) % 256) * 256 + (x % 256))

LEMMA ThreeDigits == \A x \in Nat : Rejoined(x) = x
  <1> SUFFICES ASSUME NEW x \in Nat PROVE Rejoined(x) = x
    OBVIOUS
  <1> DEFINE q == x \div 256
             r == x % 256
             d == q \div 256
             m == q % 256
  <1>1. q \in Nat /\ r \in Nat /\ r < 256 /\ x = q * 256 + r
    OBVIOUS
  <1>2. d \in Nat /\ m \in Nat /\ m < 256 /\ q = d * 256 + m
    <2> HIDE DEF q
    <2> QED BY <1>1
  <1> HIDE DEF q, r, d, m
  <1>3. x \div 65536 = d
    <2>1. x = d * 65536 + (m * 256 + r) /\ 0 <= m * 256 + r /\ m * 256 + r < 65536
      BY <1>1, <1>2
    <2> QED BY <1>1, <1>2, <2>1
  <1>4. d * 65536 + (m * 256 + r) = x
    BY <1>1, <1>2
  <1> QED BY <1>3, <1>4 DEF m, q, r, Rejoined

\* writeItemSpec against parseVariableItems.
LEMMA SpecUnderstood ==
    ASSUME NEW p, GoodDescriptor(p), NEW parameters, NEW i \in Nat,
           \A j \in 1..12 : parameters[(12 * i - 10) + j] = ItemSpec(p)[j]
    PROVE  PLCItem(parameters, i) = Seen(p) /\ ~SpecFails(parameters, i)
  <1> DEFINE o == 12 * i - 10
             a == parameters
             s == ItemSpec(p)
  <1>1. /\ s[1] = 18 /\ s[2] = 10 /\ s[3] = 16 /\ s[4] = p.wordLength
        /\ s[5] = Hi(p.amount) /\ s[6] = Lo(p.amount) /\ s[7] = Hi(p.db) /\ s[8] = Lo(p.db)
        /\ s[9] = p.area /\ s[10] = p.address \div 65536
        /\ s[11] = (p.address \div 256) % 256 /\ s[12] = p.address % 256
    BY DEF ItemSpec
  <1>2. /\ a[o + 1] = s[1] /\ a[o + 2] = s[2] /\ a[o + 3] = s[3] /\ a[o + 4] = s[4]
        /\ a[o + 5] = s[5] /\ a[o + 6] = s[6] /\ a[o + 7] = s[7] /\ a[o + 8] = s[8]
        /\ a[o + 9] = s[9] /\ a[o + 10] = s[10] /\ a[o + 11] = s[11] /\ a[o + 12] = s[12]
    OBVIOUS
  <1>3. o + 5 + 1 = o + 6 /\ o + 7 + 1 = o + 8 /\ o + 11 + 1 = o + 12
    OBVIOUS
  <1> HIDE DEF o, s
  <1>4. At16(a, o + 5) = p.amount /\ At16(a, o + 7) = p.db
    BY <1>1, <1>2, <1>3, WordBytes DEF At16, GoodDescriptor
  <1>5. a[o + 10] * 65536 + At16(a, o + 11) = p.address
    <2>1. p.address \in Nat
      BY DEF GoodDescriptor
    <2>2. Rejoined(p.address) = p.address
      BY <2>1, ThreeDigits
    <2>3. a[o + 10] * 65536 + At16(a, o + 11) = Rejoined(p.address)
      BY <1>1, <1>2, <1>3 DEF At16, Rejoined
    <2> QED BY <2>2, <2>3
  <1>6. /\ p.wordLength \in PLCWords /\ p.responseTransport = PLCTransport(p.wordLength)
        /\ p.dataBytes = p.amount * PLCWidth(p.wordLength)
        /\ p.wordLength = 1 => p.amount = 1
        /\ EncodedLength(p) <= MaxUint16 /\ EncodedLength(p) \in Nat
        /\ EncodedLength(p) = IF p.wordLength = 1 THEN 1
                              ELSE IF PLCTransport(p.wordLength) = 4 THEN p.dataBytes * 8
                              ELSE p.dataBytes
    BY DescriptorLength DEF GoodDescriptor
  <1>7. /\ a[o + 1] = 18 /\ a[o + 2] = 10 /\ a[o + 3] = 16 /\ a[o + 4] = p.wordLength
        /\ a[o + 9] = p.area
    BY <1>1, <1>2
  <1>8. PLCItem(a, i) = Seen(p)
    BY <1>4, <1>5, <1>6, <1>7 DEF PLCItem, Seen, o
  <1>9. /\ Seen(p).wordLength = p.wordLength /\ Seen(p).amount = p.amount
        /\ Seen(p).length = EncodedLength(p)
    BY DEF Seen
  <1>10. ~SpecFails(a, i)
    BY <1>6, <1>7, <1>8, <1>9, MaxWords DEF SpecFails, o
  <1> QED BY <1>8, <1>10

LEMMA SpecIsBytes ==
    ASSUME NEW p, GoodDescriptor(p)
    PROVE  ItemSpec(p) \in Seq(Byte) /\ Len(ItemSpec(p)) = 12
  <1>1. /\ p.address \div 65536 \in Byte /\ (p.address \div 256) % 256 \in Byte
        /\ p.address % 256 \in Byte
    <2>1. p.address \in Nat /\ p.address <= 16777215
      BY DEF GoodDescriptor, Max24
    <2> QED BY <2>1 DEF Byte
  <1>2. 18 \in Byte /\ 10 \in Byte /\ 16 \in Byte /\ p.wordLength \in Byte
    BY DEF Byte, GoodDescriptor, PLCWords
  <1>3. Hi(p.amount) \in Byte /\ Lo(p.amount) \in Byte /\ Hi(p.db) \in Byte /\ Lo(p.db) \in Byte
        /\ p.area \in Byte
    BY WordBytes DEF GoodDescriptor
  <1> QED BY <1>1, <1>2, <1>3 DEF ItemSpec

\* layoutFor and the PLC's own table agree.
LEMMA LayoutsAgree ==
    ASSUME NEW t \in Transports
    PROVE  LET w == Layout[t].wordLength
           IN /\ w \in PLCWords /\ Layout[t].responseTransport = PLCTransport(w)
              /\ Width(t) = PLCWidth(w) /\ (LengthInBits(t) <=> PLCTransport(w) = 4)
              /\ w = 1 <=> t = "bit"
              /\ w \in {28, 29} <=> t \in {"timer", "counter"}
  <1> DEFINE Agree(x) ==
        LET w == Layout[x].wordLength
        IN /\ w \in PLCWords /\ Layout[x].responseTransport = PLCTransport(w)
           /\ Width(x) = PLCWidth(w) /\ (LengthInBits(x) <=> PLCTransport(w) = 4)
           /\ w = 1 <=> x = "bit"
           /\ w \in {28, 29} <=> x \in {"timer", "counter"}
  <1>1. Agree("bit")
    <2>1. Layout["bit"].wordLength = 1 /\ Layout["bit"].responseTransport = 3
          /\ Width("bit") = 1 /\ LengthInBits("bit") = FALSE
      BY DEF Layout, Width, LengthInBits
    <2> QED BY <2>1 DEF PLCWords, PLCTransport, PLCWidth
  <1>2. Agree("byte")
    <2>1. Layout["byte"].wordLength = 2 /\ Layout["byte"].responseTransport = 4
          /\ Width("byte") = 1 /\ LengthInBits("byte") = TRUE
      BY DEF Layout, Width, LengthInBits
    <2> QED BY <2>1 DEF PLCWords, PLCTransport, PLCWidth
  <1>3. Agree("word")
    <2>1. Layout["word"].wordLength = 4 /\ Layout["word"].responseTransport = 4
          /\ Width("word") = 2 /\ LengthInBits("word") = TRUE
      BY DEF Layout, Width, LengthInBits
    <2> QED BY <2>1 DEF PLCWords, PLCTransport, PLCWidth
  <1>4. Agree("dword")
    <2>1. Layout["dword"].wordLength = 6 /\ Layout["dword"].responseTransport = 4
          /\ Width("dword") = 4 /\ LengthInBits("dword") = TRUE
      BY DEF Layout, Width, LengthInBits
    <2> QED BY <2>1 DEF PLCWords, PLCTransport, PLCWidth
  <1>5. Agree("real")
    <2>1. Layout["real"].wordLength = 8 /\ Layout["real"].responseTransport = 7
          /\ Width("real") = 4 /\ LengthInBits("real") = FALSE
      BY DEF Layout, Width, LengthInBits
    <2> QED BY <2>1 DEF PLCWords, PLCTransport, PLCWidth
  <1>6. Agree("timer")
    <2>1. Layout["timer"].wordLength = 29 /\ Layout["timer"].responseTransport = 9
          /\ Width("timer") = 2 /\ LengthInBits("timer") = FALSE
      BY DEF Layout, Width, LengthInBits
    <2> QED BY <2>1 DEF PLCWords, PLCTransport, PLCWidth
  <1>7. Agree("counter")
    <2>1. Layout["counter"].wordLength = 28 /\ Layout["counter"].responseTransport = 9
          /\ Width("counter") = 2 /\ LengthInBits("counter") = FALSE
      BY DEF Layout, Width, LengthInBits
    <2> QED BY <2>1 DEF PLCWords, PLCTransport, PLCWidth
  <1>8. t \in {"bit", "byte", "word", "dword", "real", "timer", "counter"}
    BY TransportsAre
  <1> HIDE DEF Agree
  <1>9. Agree(t)
    BY <1>1, <1>2, <1>3, <1>4, <1>5, <1>6, <1>7, <1>8
  <1> QED BY <1>9 DEF Agree

LEMMA AreaCodes ==
    ASSUME NEW a \in Areas
    PROVE  WireArea[a] \in Byte
  <1>1. WireArea["input"] = 129 /\ WireArea["output"] = 130 /\ WireArea["marker"] = 131
        /\ WireArea["db"] = 132 /\ WireArea["counter"] = 28 /\ WireArea["timer"] = 29
    BY DEF WireArea
  <1>2. 129 \in Byte /\ 130 \in Byte /\ 131 \in Byte /\ 132 \in Byte /\ 28 \in Byte /\ 29 \in Byte
    BY DEF Byte
  <1> QED BY <1>1, <1>2 DEF Areas

\* An item that passed the validation, of a length the wire can express.
GoodItem(item) ==
    /\ item \in ItemRecords /\ ReadItemError(item, MaxItemBytes) = NoError
    /\ item.count <= MaxUint16 /\ EncodedLength(ProtocolItem(item)) <= MaxUint16

LEMMA ItemDescriptor ==
    ASSUME NEW item, GoodItem(item)
    PROVE  LET p == ProtocolItem(item)
           IN /\ GoodDescriptor(p)
              /\ p.dataBytes = Length(item) /\ p.address = WireAddress(item)
              /\ p.wordLength = 1 <=> item.transport = "bit"
              /\ p.wordLength \in {28, 29} <=> Indexed(item)
              /\ p.area = WireArea[item.area] /\ p.db = item.db
              /\ p.responseTransport = Layout[item.transport].responseTransport
              /\ p.lengthInBits = LengthInBits(item.transport) /\ p.amount = item.count
              /\ item.transport = "bit" => item.bit <= 7 /\ Length(item) = 1
              /\ item.transport # "bit" => item.bit = 0
  <1> DEFINE p == ProtocolItem(item)
             t == item.transport
             w == Layout[t].wordLength
  <1>1. /\ item \in ItemRecords /\ item.count \in Nat /\ item.db \in Nat /\ item.db <= MaxUint16
        /\ item.bit \in Nat /\ item.offset \in Nat /\ item.area \in Areas /\ t \in Transports
    BY MaxWords DEF GoodItem, ItemRecords
  <1>2. /\ AddressError(item) = NoError /\ item.count # 0
        /\ t = "bit" => item.count = 1
    BY DEF GoodItem, ReadItemError, NoError
  <1>3. /\ Indexed(item) => item.bit = 0 /\ t = item.area
        /\ ~Indexed(item) =>
             /\ t \notin {"timer", "counter"}
             /\ item.bit <= (IF t = "bit" THEN 7 ELSE 0)
        /\ WireAddress(item) <= Max24
    BY <1>1, <1>2, AcceptedAddress
  <1>4. Indexed(item) <=> t \in {"timer", "counter"}
    BY <1>3 DEF Indexed
  <1>5. /\ p.wordLength = w /\ p.responseTransport = Layout[t].responseTransport
        /\ p.amount = item.count /\ p.db = item.db /\ p.area = WireArea[item.area]
        /\ p.address = WireAddress(item) /\ p.dataBytes = Length(item)
        /\ p.lengthInBits = LengthInBits(t) /\ Length(item) = item.count * Width(t)
        /\ EncodedLength(p) <= MaxUint16
    BY DEF ProtocolItem, Length, GoodItem
  <1>6. /\ w \in PLCWords /\ Layout[t].responseTransport = PLCTransport(w)
        /\ Width(t) = PLCWidth(w) /\ (LengthInBits(t) <=> PLCTransport(w) = 4)
        /\ w = 1 <=> t = "bit"
        /\ w \in {28, 29} <=> t \in {"timer", "counter"}
    BY <1>1, LayoutsAgree
  <1>7. WireAddress(item) \in Nat
    BY <1>1 DEF WireAddress
  <1>8. WireArea[item.area] \in Byte
    BY <1>1, AreaCodes
  <1> HIDE DEF p, t, w
  <1>9. GoodDescriptor(p)
    BY <1>1, <1>2, <1>3, <1>5, <1>6, <1>7, <1>8 DEF GoodDescriptor, GoodItem
  <1>10. /\ t = "bit" => item.bit <= 7 /\ Length(item) = 1
         /\ t # "bit" => item.bit = 0
    <2>1. t = "bit" => Width(t) = 1
      BY <1>6, WordLayouts
    <2> QED BY <1>1, <1>2, <1>3, <1>4, <1>5, <2>1
  <1> QED BY <1>4, <1>5, <1>6, <1>9, <1>10, Zenon DEF p, t, w

-----------------------------------------------------------------------------
\* Data blocks: a header of four bytes, a value and its padding

Padding(padded) == IF padded THEN <<0>> ELSE <<>>
Block(code, transport, length, value, padded) ==
    DataHeader(code, transport, length) \o value \o Padding(padded)
BlockEnd(o, value, padded) == o + 4 + Len(value) + (IF padded THEN 1 ELSE 0)

\* The body holds such a block behind index o.
BlockAt(body, o, code, transport, length, value, padded) ==
    /\ BlockEnd(o, value, padded) <= Len(body)
    /\ body[o + 1] = code /\ body[o + 2] = transport /\ At16(body, o + 3) = length
    /\ SubSeq(body, o + 5, o + 4 + Len(value)) = value
    /\ padded => body[(o + 4 + Len(value)) + 1] = 0

LEMMA BlockParts ==
    ASSUME NEW code \in Byte, NEW transport \in Byte, NEW length \in Nat, length <= MaxUint16,
           NEW value \in Seq(Byte), NEW padded \in BOOLEAN
    PROVE  LET b == Block(code, transport, length, value, padded)
           IN /\ b \in Seq(Byte) /\ Len(b) = BlockEnd(0, value, padded)
              /\ b[1] = code /\ b[2] = transport /\ b[3] * 256 + b[4] = length
              /\ \A j \in 1..Len(value) : b[4 + j] = value[j]
              /\ padded => b[4 + Len(value) + 1] = 0
  <1> DEFINE h == DataHeader(code, transport, length)
             z == Padding(padded)
             b == h \o value \o z
  <1>1. Hi(length) \in Byte /\ Lo(length) \in Byte /\ Hi(length) * 256 + Lo(length) = length
    BY WordBytes
  <1>2. /\ h \in Seq(Byte) /\ Len(h) = 4 /\ h[1] = code /\ h[2] = transport /\ h[3] = Hi(length)
        /\ h[4] = Lo(length)
    BY <1>1 DEF DataHeader
  <1>3. /\ z \in Seq(Byte) /\ Len(z) = (IF padded THEN 1 ELSE 0) /\ (padded => z[1] = 0)
    <2>1. 0 \in Byte
      BY DEF Byte
    <2> QED BY <2>1 DEF Padding
  <1> HIDE DEF h, z
  <1>4. b \in Seq(Byte) /\ Joins(b, h, value, z)
    BY <1>2, <1>3, ThreeParts
  <1>5. b = Block(code, transport, length, value, padded)
    BY DEF Block, h, z
  <1> HIDE DEF b
  <1>6. /\ Len(b) = Len(h) + Len(value) + Len(z)
        /\ \A i \in 1..Len(h) : b[i] = h[i]
        /\ \A i \in 1..Len(value) : b[Len(h) + i] = value[i]
        /\ \A i \in 1..Len(z) : b[Len(h) + Len(value) + i] = z[i]
    BY <1>4 DEF Joins
  <1>7. b[1] = code /\ b[2] = transport /\ b[3] = Hi(length) /\ b[4] = Lo(length)
    BY <1>2, <1>6
  <1>8. \A j \in 1..Len(value) : b[4 + j] = value[j]
    BY <1>2, <1>6
  <1>9. padded => b[4 + Len(value) + 1] = 0
    BY <1>2, <1>3, <1>6
  <1>10. Len(b) = BlockEnd(0, value, padded)
    <2>1. Len(value) \in Nat
      OBVIOUS
    <2> QED BY <1>2, <1>3, <1>6, <2>1 DEF BlockEnd
  <1> QED BY <1>1, <1>4, <1>5, <1>7, <1>8, <1>9, <1>10

\* A part that is such a block is found in the body.
LEMMA BlockInBody ==
    ASSUME NEW ss \in Seq(Seq(Byte)), NEW i \in 1..Len(ss), NEW body \in Seq(Byte),
           MadeOf(body, Len(ss), ss),
           NEW code \in Byte, NEW transport \in Byte, NEW length \in Nat, length <= MaxUint16,
           NEW value \in Seq(Byte), NEW padded \in BOOLEAN,
           ss[i] = Block(code, transport, length, value, padded)
    PROVE  LET o == Starts(ss)[i - 1]
           IN /\ BlockAt(body, o, code, transport, length, value, padded)
              /\ Starts(ss)[i] = BlockEnd(o, value, padded)
  <1> DEFINE b == ss[i]
             o == Starts(ss)[i - 1]
             l == Len(value)
             z == IF padded THEN 1 ELSE 0
  <1>1. /\ b \in Seq(Byte) /\ Len(b) = BlockEnd(0, value, padded)
        /\ b[1] = code /\ b[2] = transport /\ b[3] * 256 + b[4] = length
        /\ \A j \in 1..l : b[4 + j] = value[j]
        /\ padded => b[4 + l + 1] = 0
    BY BlockParts
  <1>2. Len(b) = 4 + l + z
    BY <1>1 DEF BlockEnd
  <1>3. /\ o \in Nat /\ l \in Nat /\ Starts(ss)[i] = o + Len(b) /\ Starts(ss)[i] <= Len(body)
        /\ Starts(ss)[i] \in Nat /\ z \in {0, 1} /\ (padded => z = 1)
    <2>1. i \in 0..Len(ss) /\ i - 1 \in 0..Len(ss) /\ Len(ss) \in 0..Len(ss) /\ i \in 0..Len(ss)
      OBVIOUS
    <2>2. Starts(ss)[i] <= Starts(ss)[Len(ss)]
      BY <2>1, StartsAre
    <2> QED BY <2>1, <2>2, StartsAre DEF MadeOf
  <1>4. \A j \in 1..Len(b) : body[o + j] = b[j]
    BY DEF MadeOf
  <1> HIDE DEF b, o, l, z
  <1>5. Starts(ss)[i] = BlockEnd(o, value, padded) /\ BlockEnd(o, value, padded) <= Len(body)
    BY <1>2, <1>3 DEF BlockEnd, l, z
  <1>6. body[o + 1] = code /\ body[o + 2] = transport /\ At16(body, o + 3) = length
    <2>1. 1 \in 1..Len(b) /\ 2 \in 1..Len(b) /\ 3 \in 1..Len(b) /\ 4 \in 1..Len(b)
          /\ o + 3 + 1 = o + 4
      BY <1>2, <1>3
    <2>2. body[o + 1] = b[1] /\ body[o + 2] = b[2] /\ body[o + 3] = b[3] /\ body[o + 4] = b[4]
      BY <1>4, <2>1
    <2> QED BY <1>1, <2>1, <2>2 DEF At16
  <1>7. padded => body[(o + 4 + l) + 1] = 0
    <2> SUFFICES ASSUME padded PROVE body[(o + 4 + l) + 1] = 0
      OBVIOUS
    <2> DEFINE j == 4 + l + 1
    <2>a. b[j] = 0
      BY <1>1
    <2>b. z = 1 /\ Len(b) = 4 + l + z /\ l \in Nat /\ o \in Nat
      BY <1>2, <1>3
    <2>1. j \in 1..Len(b) /\ (o + 4 + l) + 1 = o + j /\ b[j] = 0
      BY <2>a, <2>b
    <2> HIDE DEF j
    <2>2. body[o + j] = 0
      BY <1>4, <2>1
    <2> QED BY <2>1, <2>2
  <1>8. SubSeq(body, o + 5, o + 4 + l) = value
    <2> DEFINE m == o + 5
               e == o + 4 + l
    <2>1. m \in Nat /\ e \in Int /\ m >= 1 /\ e = (m - 1) + Len(value) /\ e <= Len(body)
      BY <1>2, <1>3 DEF l
    <2>2. ASSUME NEW j \in 1..Len(value) PROVE body[(m - 1) + j] = value[j]
      <3> DEFINE k == 4 + j
      <3>a. j \in 1..l /\ l \in Nat /\ o \in Nat /\ z \in {0, 1} /\ Len(b) = 4 + l + z
        BY <1>2, <1>3 DEF l
      <3>b. b[k] = value[j]
        BY <1>1, <3>a
      <3>1. k \in 1..Len(b) /\ (m - 1) + j = o + k /\ b[k] = value[j]
        BY <3>a, <3>b
      <3> HIDE DEF k, m
      <3>2. body[o + k] = value[j]
        BY <1>4, <3>1
      <3> QED BY <3>1, <3>2
    <2> HIDE DEF m, e
    <2>3. SubSeq(body, m, e) = value
      BY <2>1, <2>2, IsSlice
    <2> QED BY <2>3 DEF m, e
  <1>9. BlockAt(body, o, code, transport, length, value, padded)
    BY <1>5, <1>6, <1>7, <1>8 DEF BlockAt, l
  <1> QED BY <1>5, <1>9 DEF o


-----------------------------------------------------------------------------
\* The call: its texts and its items

CallInv ==
    /\ texts \in Seq(Texts) /\ texts # <<>> /\ items \in Seq(ItemRecords) /\ write \in BOOLEAN
    /\ pc \notin {"parse", "rejected"} => Len(items) >= 1

LEMMA ParsedItems ==
    ASSUME CallInv, Parse
    PROVE  items' \in Seq(ItemRecords) /\ (pc' \notin {"parse", "rejected"} => Len(items') >= 1)
  <1>1. PICK n \in Counts, real \in BOOLEAN :
          LET Retyped(item) ==
               [item EXCEPT !.count = n,
                            !.transport = IF real /\ @ = "dword" THEN "real" ELSE @]
          IN IF \E i \in DOMAIN texts : ParseError(texts[i]) # NoError
              THEN pc' = "rejected" /\ UNCHANGED items
              ELSE pc' = "build" /\ items' = [i \in DOMAIN texts |-> Retyped(Named(texts[i]))]
    BY DEF Parse
  <1> DEFINE Retyped(item) ==
               [item EXCEPT !.count = n,
                            !.transport = IF real /\ @ = "dword" THEN "real" ELSE @]
             N == Len(texts)
  <1>2. n \in Nat /\ items \in Seq(ItemRecords) /\ texts \in Seq(Texts)
        /\ N \in Nat /\ N >= 1 /\ DOMAIN texts = 1..N
    BY WireAssumption DEF CallInv
  <1>3. CASE \E i \in DOMAIN texts : ParseError(texts[i]) # NoError
    BY <1>1, <1>2, <1>3
  <1>4. CASE \A i \in DOMAIN texts : ParseError(texts[i]) = NoError
    <2>1. items' = [i \in 1..N |-> Retyped(Named(texts[i]))]
      BY <1>1, <1>2, <1>4
    <2>2. ASSUME NEW i \in 1..N PROVE Retyped(Named(texts[i])) \in ItemRecords
      <3>1. texts[i] \in Texts /\ ~MalformedText(texts[i])
        BY <1>2, <1>4 DEF ParseError, NoError
      <3> DEFINE item == Named(texts[i])
      <3>2. item \in ItemRecords
        BY <3>1, NamedItem
      <3> HIDE DEF item
      <3>3. "real" \in Transports /\ item.transport \in Transports
        BY <3>2, TransportsAre DEF ItemRecords
      <3>4. [item EXCEPT !.count = n,
                         !.transport = IF real /\ item.transport = "dword" THEN "real"
                                       ELSE item.transport] \in ItemRecords
        BY <1>2, <3>2, <3>3 DEF ItemRecords
      <3> QED BY <3>4 DEF item
    <2> HIDE DEF Retyped, N
    <2>3. items' \in [1..N -> ItemRecords]
      BY <2>1, <2>2
    <2> QED BY <1>2, <2>3
  <1> QED BY <1>3, <1>4

LEMMA CallKept ==
    ASSUME CallInv, [Next]_vars
    PROVE  CallInv'
  <1>1. CASE Parse
    <2>1. texts' = texts /\ write' = write
      BY <1>1 DEF Parse
    <2> QED BY <1>1, <2>1, ParsedItems DEF CallInv
  <1>2. CASE Build
    BY <1>2 DEF CallInv, Build
  <1>3. CASE Serve
    BY <1>3 DEF CallInv, Serve, callVars
  <1>4. CASE DamageReply
    BY <1>4 DEF CallInv, DamageReply, callVars
  <1>5. CASE Receive
    BY <1>5 DEF CallInv, Receive, callVars
  <1>6. CASE UNCHANGED vars
    BY <1>6 DEF CallInv, vars, callVars
  <1> QED BY <1>1, <1>2, <1>3, <1>4, <1>5, <1>6 DEF Next

LEMMA CallStarts == Init => CallInv
  <1> SUFFICES ASSUME Init PROVE CallInv
    OBVIOUS
  <1>0. TextBatches \subseteq Seq(Texts) \ {<<>>}
    BY WireAssumption
  <1>1. texts \in Seq(Texts) /\ texts # <<>>
    BY <1>0 DEF Init
  <1> QED BY <1>1 DEF Init, CallInv

\* The texts and the items of the call stay what ParseAddress and its caller can make.
THEOREM WireCall == Spec => []CallInv
  <1> QED BY CallStarts, CallKept, PTL DEF Spec

\* For every batch of texts the expressions let through and every count: what
\* ParseAddress accepts, FormatAddress writes in a form that parses back to the same
\* item, and every item that Read accepts survives the way through its text.
THEOREM WireAddressText == Spec => []AddressTextIsSound
  <1>1. CallInv => AddressTextIsSound
    <2> SUFFICES ASSUME CallInv PROVE AddressTextIsSound
      OBVIOUS
    <2>1. /\ \A i \in DOMAIN texts : texts[i] \in Texts
          /\ \A i \in DOMAIN items : items[i] \in ItemRecords
      BY DEF CallInv
    <2> QED BY <2>1, TextsAreCanonicalized, ItemsSurvive DEF AddressTextIsSound
  <1> QED BY <1>1, WireCall, PTL


-----------------------------------------------------------------------------
\* A request, as the PLC understands it

\* The descriptors of one exchange.
GoodBatch(ps, n) ==
    /\ n \in Nat /\ 1 <= n /\ n <= CompatibilityMaxItemsPerPDU
    /\ DOMAIN ps = 1..n /\ Len(ps) = n /\ \A i \in 1..n : GoodDescriptor(ps[i])

Specs(ps, n) == [i \in 1..n |-> ItemSpec(ps[i])]

LEMMA SpecsLaid ==
    ASSUME NEW n, NEW ps, GoodBatch(ps, n)
    PROVE  /\ FlattenSeq(Specs(ps, n)) \in Seq(Byte) /\ Len(FlattenSeq(Specs(ps, n))) = 12 * n
           /\ \A i \in 1..n : \A j \in 1..12 :
                FlattenSeq(Specs(ps, n))[12 * (i - 1) + j] = ItemSpec(ps[i])[j]
  <1> DEFINE ss == Specs(ps, n)
             f == FlattenSeq(ss)
             S == {k \in 0..n : Starts(ss)[k] = 12 * k}
  <1>1. n \in Nat /\ 1 <= n /\ \A i \in 1..n : GoodDescriptor(ps[i])
    BY DEF GoodBatch
  <1>2. \A i \in 1..n : ItemSpec(ps[i]) \in Seq(Byte) /\ Len(ItemSpec(ps[i])) = 12
    BY <1>1, SpecIsBytes
  <1>3. ss \in [1..n -> Seq(Byte)] /\ \A i \in 1..n : ss[i] = ItemSpec(ps[i])
    BY <1>2 DEF Specs
  <1> HIDE DEF ss
  <1>4. ss \in Seq(Seq(Byte)) /\ Len(ss) = n
    BY <1>1, <1>3
  <1>5. f \in Seq(Byte) /\ MadeOf(f, n, ss)
    BY <1>1, <1>4, FlattenLayout
  <1> HIDE DEF f
  <1>6. Starts(ss)[0] = 0 /\ \A k \in 1..n : Starts(ss)[k] = Starts(ss)[k - 1] + 12
    <2>1. Starts(ss)[0] = 0 /\ \A k \in 1..n : Starts(ss)[k] = Starts(ss)[k - 1] + Len(ss[k])
      BY <1>4, StartsAre
    <2>2. \A k \in 1..n : Len(ss[k]) = 12
      BY <1>2, <1>3
    <2> QED BY <2>1, <2>2
  <1>7. 0 \in S
    BY <1>1, <1>6
  <1>8. ASSUME NEW k \in 1..n, k - 1 \in S PROVE k \in S
    BY <1>1, <1>6, <1>8
  <1> HIDE DEF S
  <1>9. \A k \in 0..n : k \in S
    BY <1>1, <1>7, <1>8, UpTo
  <1>10. \A k \in 0..n : Starts(ss)[k] = 12 * k
    BY <1>9 DEF S
  <1>11. Len(f) = 12 * n
    BY <1>1, <1>5, <1>10 DEF MadeOf
  <1>12. ASSUME NEW i \in 1..n, NEW j \in 1..12 PROVE f[12 * (i - 1) + j] = ItemSpec(ps[i])[j]
    <2>1. i - 1 \in 0..n /\ Len(ss[i]) = 12
      BY <1>1, <1>2, <1>3
    <2>2. f[Starts(ss)[i - 1] + j] = ss[i][j]
      BY <1>5, <2>1 DEF MadeOf
    <2> QED BY <1>3, <1>10, <2>1, <2>2
  <1> QED BY <1>5, <1>11, <1>12 DEF f, ss

LEMMA RequestParameters ==
    ASSUME NEW n, NEW ps, GoodBatch(ps, n), NEW function \in {4, 5}
    PROVE  LET a == JobParameters(function, ps)
           IN /\ a \in Seq(Byte) /\ Len(a) = 2 + 12 * n /\ a[1] = function /\ a[2] = n
              /\ \A i \in 1..n : PLCItem(a, i) = Seen(ps[i]) /\ ~SpecFails(a, i)
  <1> DEFINE h == <<function, n>>
             f == FlattenSeq(Specs(ps, n))
             a == h \o f
  <1>1. n \in Nat /\ 1 <= n /\ n <= 20 /\ DOMAIN ps = 1..n /\ Len(ps) = n
        /\ \A i \in 1..n : GoodDescriptor(ps[i])
    BY DEF GoodBatch, CompatibilityMaxItemsPerPDU
  <1>2. JobParameters(function, ps) = a
    BY <1>1 DEF JobParameters, Specs
  <1>3. function \in Byte /\ n \in Byte
    BY <1>1, BytesAreNumbers
  <1>4. h \in Seq(Byte) /\ Len(h) = 2 /\ h[1] = function /\ h[2] = n
    BY <1>3
  <1>5. /\ f \in Seq(Byte) /\ Len(f) = 12 * n
        /\ \A i \in 1..n : \A j \in 1..12 : f[12 * (i - 1) + j] = ItemSpec(ps[i])[j]
    BY SpecsLaid
  <1> HIDE DEF h, f
  <1>6. /\ a \in Seq(Byte) /\ Len(a) = Len(h) + Len(f)
        /\ \A k \in 1..(Len(h) + Len(f)) : a[k] = IF k <= Len(h) THEN h[k] ELSE f[k - Len(h)]
    BY <1>4, <1>5, ConcatProperties
  <1> HIDE DEF a
  <1>7. Len(a) = 2 + 12 * n /\ a[1] = function /\ a[2] = n
    BY <1>1, <1>4, <1>5, <1>6
  <1>8. \A k \in 1..(12 * n) : a[2 + k] = f[k]
    <2> SUFFICES ASSUME NEW k \in 1..(12 * n) PROVE a[2 + k] = f[k]
      OBVIOUS
    <2>1. 2 + k \in 1..(Len(h) + Len(f)) /\ ~(2 + k <= Len(h)) /\ (2 + k) - Len(h) = k
      BY <1>1, <1>4, <1>5
    <2> QED BY <1>6, <2>1
  <1>9. ASSUME NEW i \in 1..n PROVE PLCItem(a, i) = Seen(ps[i]) /\ ~SpecFails(a, i)
    <2>1. ASSUME NEW j \in 1..12 PROVE a[(12 * i - 10) + j] = ItemSpec(ps[i])[j]
      <3>1. 12 * (i - 1) + j \in 1..(12 * n) /\ 2 + (12 * (i - 1) + j) = (12 * i - 10) + j
        BY <1>1
      <3> QED BY <1>5, <1>8, <3>1
    <2>2. GoodDescriptor(ps[i]) /\ i \in Nat
      BY <1>1
    <2> QED BY <2>1, <2>2, SpecUnderstood
  <1> QED BY <1>2, <1>6, <1>7, <1>9

\* parseJob and parseVariableItems accept a request and find in it what was meant.
LEMMA RequestUnderstood ==
    ASSUME NEW n, NEW ps, GoodBatch(ps, n), NEW function \in {4, 5},
           NEW body \in Seq(Byte), Len(body) <= MaxUint16, function = 4 => Len(body) = 0
    PROVE  LET q == Job(JobParameters(function, ps), body)
           IN /\ q \in Seq(Byte) /\ Len(q) = 12 + 12 * n + Len(body)
              /\ ~PLCRejects(q) /\ At16(q, 5) = Reference
              /\ JobParametersOf(q)[1] = function /\ JobBodyOf(q) = body
              /\ PLCItems(q) = [i \in 1..n |-> Seen(ps[i])]
  <1> DEFINE a == JobParameters(function, ps)
             q == Job(a, body)
  <1>1. /\ a \in Seq(Byte) /\ Len(a) = 2 + 12 * n /\ a[1] = function /\ a[2] = n
        /\ \A i \in 1..n : PLCItem(a, i) = Seen(ps[i]) /\ ~SpecFails(a, i)
    BY RequestParameters
  <1>2. n \in Nat /\ 1 <= n /\ n <= 20 /\ Len(body) \in Nat
    BY DEF GoodBatch, CompatibilityMaxItemsPerPDU
  <1>3. Len(a) \in Nat /\ Len(a) <= MaxUint16
    BY <1>1, <1>2 DEF MaxUint16
  <1> HIDE DEF a
  <1>4. /\ q \in Seq(Byte) /\ Len(q) = 10 + Len(a) + Len(body)
        /\ SubSeq(q, 1, 4) = <<50, 1, 0, 0>> /\ At16(q, 5) = Reference
        /\ At16(q, 7) = Len(a) /\ At16(q, 9) = Len(body)
        /\ JobParametersOf(q) = a /\ JobBodyOf(q) = body
    BY <1>1, <1>3, JobCarries
  <1> HIDE DEF q
  <1>5. Len(q) = 12 + 12 * n + Len(body)
    BY <1>1, <1>2, <1>4
  <1>6. Reference # 0
    BY WireAssumption
  <1>7. /\ Len(a) <= Len(q) - 10 /\ Len(body) = Len(q) - 10 - Len(a)
        /\ ~(Len(q) < 10) /\ ~(Len(a) < 2) /\ n # 0
        /\ (function = 4 => Len(q) = 10 + Len(a))
    <2>1. Len(a) = 2 + 12 * n /\ Len(q) = 10 + Len(a) + Len(body) /\ Len(q) \in Int
      BY <1>1, <1>4
    <2> QED BY <1>2, <1>3, <2>1
  <1>8. ~PLCRejects(q)
    <2>1. \A i \in 1..a[2] : ~SpecFails(a, i)
      BY <1>1
    <2>2. ~(Len(a) > Len(q) - 10)
      BY <1>3, <1>5, <1>2, <1>7
    <2> QED BY <1>1, <1>4, <1>6, <1>7, <2>1, <2>2 DEF PLCRejects
  <1>9. PLCItems(q) = [i \in 1..n |-> Seen(ps[i])]
    BY <1>1, <1>4 DEF PLCItems
  <1> QED BY <1>1, <1>4, <1>5, <1>8, <1>9 DEF q, a


-----------------------------------------------------------------------------
\* A body of data blocks, one for each item

\* r[i] has the code, transport, length and value of block i.
PaddedAt(r, n, i) == i # n /\ Len(r[i].value) % 2 # 0
Blocks(r, n) ==
    [i \in 1..n |-> Block(r[i].code, r[i].transport, r[i].length, r[i].value, PaddedAt(r, n, i))]
GoodBlocks(r, n) ==
    /\ n \in Nat /\ 1 <= n
    /\ \A i \in 1..n :
         /\ r[i].code \in Byte /\ r[i].transport \in Byte /\ r[i].value \in Seq(Byte)
         /\ r[i].length \in Nat /\ r[i].length <= MaxUint16
ValueLens(r, n) == [i \in 1..n |-> Len(r[i].value)]

LEMMA BlocksLaid ==
    ASSUME NEW n, NEW r, GoodBlocks(r, n)
    PROVE  LET b == FlattenSeq(Blocks(r, n))
               t == Starts(Blocks(r, n))
           IN /\ b \in Seq(Byte) /\ Blocks(r, n) \in Seq(Seq(Byte)) /\ Len(Blocks(r, n)) = n
              /\ t[0] = 0 /\ t[n] = Len(b) /\ \A i \in 0..n : t[i] \in Nat /\ t[i] <= Len(b)
              /\ \A i \in 1..n :
                   /\ BlockAt(b, t[i - 1], r[i].code, r[i].transport, r[i].length, r[i].value,
                              PaddedAt(r, n, i))
                   /\ t[i] = BlockEnd(t[i - 1], r[i].value, PaddedAt(r, n, i))
              /\ Len(b) = ItemsDataSize(ValueLens(r, n))
  <1> DEFINE ss == Blocks(r, n)
             b == FlattenSeq(ss)
             t == Starts(ss)
             Part(i) == Block(r[i].code, r[i].transport, r[i].length, r[i].value, PaddedAt(r, n, i))
             lens == ValueLens(r, n)
  <1>1. n \in Nat /\ 1 <= n
    BY DEF GoodBlocks
  <1>2. ASSUME NEW i \in 1..n
        PROVE  /\ r[i].code \in Byte /\ r[i].transport \in Byte /\ r[i].value \in Seq(Byte)
               /\ r[i].length \in Nat /\ r[i].length <= MaxUint16
               /\ PaddedAt(r, n, i) \in BOOLEAN
    BY DEF GoodBlocks, PaddedAt
  <1>3. ASSUME NEW i \in 1..n
        PROVE  Part(i) \in Seq(Byte) /\ Len(Part(i)) = BlockEnd(0, r[i].value, PaddedAt(r, n, i))
    <2> DEFINE c == r[i].code
               x == r[i].transport
               l == r[i].length
               v == r[i].value
               z == PaddedAt(r, n, i)
    <2>1. c \in Byte /\ x \in Byte /\ v \in Seq(Byte) /\ l \in Nat /\ l <= MaxUint16 /\ z \in BOOLEAN
      BY <1>2
    <2> HIDE DEF c, x, l, v, z
    <2>2. Block(c, x, l, v, z) \in Seq(Byte) /\ Len(Block(c, x, l, v, z)) = BlockEnd(0, v, z)
      BY <2>1, BlockParts
    <2> QED BY <2>2 DEF c, x, l, v, z
  <1>0. ss = [i \in 1..n |-> Part(i)]
    BY DEF Blocks
  <1> HIDE DEF Part, ss
  <1>4. ss \in [1..n -> Seq(Byte)] /\ \A i \in 1..n : ss[i] = Part(i)
    BY <1>0, <1>3
  <1>5. ss \in Seq(Seq(Byte)) /\ Len(ss) = n /\ DOMAIN ss = 1..n
    BY <1>1, <1>4
  <1>6. b \in Seq(Byte) /\ MadeOf(b, n, ss)
    BY <1>1, <1>5, FlattenLayout
  <1> HIDE DEF b
  <1>7. t[0] = 0 /\ t[n] = Len(b) /\ \A i \in 0..n : t[i] \in Nat /\ t[i] <= Len(b)
    <2>1. t[n] = Len(b) /\ n \in 0..n
      BY <1>1, <1>6 DEF MadeOf
    <2> QED BY <1>5, <2>1, StartsAre
  <1>8. ASSUME NEW i \in 1..n
        PROVE  /\ BlockAt(b, t[i - 1], r[i].code, r[i].transport, r[i].length, r[i].value,
                          PaddedAt(r, n, i))
               /\ t[i] = BlockEnd(t[i - 1], r[i].value, PaddedAt(r, n, i))
    <2>1. ss[i] = Block(r[i].code, r[i].transport, r[i].length, r[i].value, PaddedAt(r, n, i))
      BY <1>4 DEF Part
    <2>2. i \in 1..Len(ss) /\ MadeOf(b, Len(ss), ss)
      BY <1>5, <1>6
    <2> HIDE DEF t
    <2> QED BY <1>2, <1>5, <1>6, <2>1, <2>2, BlockInBody DEF t
  <1>9. Len(b) = ItemsDataSize(lens)
    <2>1. lens \in Seq(Int) /\ Len(lens) = n /\ DOMAIN lens = 1..n
          /\ \A i \in 1..n : lens[i] = Len(r[i].value)
      <3>1. \A i \in 1..n : Len(r[i].value) \in Int
        BY <1>2
      <3>2. lens \in [1..n -> Int]
        BY <3>1 DEF ValueLens
      <3>3. \A i \in 1..n : lens[i] = Len(r[i].value)
        BY DEF ValueLens
      <3> HIDE DEF lens
      <3> QED BY <1>1, <3>2, <3>3
    <2> HIDE DEF lens
    <2>2. ASSUME NEW i \in 1..n PROVE Len(ss[i]) = ItemDataHeaderSize + Padded(lens, i)
      <3> DEFINE l == Len(r[i].value)
                 z == IF PaddedAt(r, n, i) THEN 1 ELSE 0
      <3>1. Len(ss[i]) = 0 + 4 + l + z
        BY <1>3, <1>4 DEF BlockEnd
      <3>2. Padded(lens, i) = l + z
        BY <2>1 DEF Padded, PaddedAt
      <3>3. l \in Nat /\ z \in Nat
        BY <1>2
      <3> HIDE DEF l, z
      <3> QED BY <3>1, <3>2, <3>3 DEF ItemDataHeaderSize
    <2>3. Lens(ss) = Sizes(lens)
      BY <1>5, <2>1, <2>2 DEF Lens, Sizes
    <2>4. t[n] = ItemsDataSize(lens)
      BY <1>5, <2>1, <2>3 DEF Starts, ItemsDataSize, Total, Sizes
    <2> QED BY <1>7, <2>4
  <1> QED BY <1>5, <1>6, <1>7, <1>8, <1>9 DEF b, ss

-----------------------------------------------------------------------------
\* The loops over the blocks of a body

\* The loop of ParseReadResponse has a value for every number of rounds.
Reads(ps, body, m, t) ==
    t = [k \in 0..m |-> IF k = 0 THEN [offset |-> 0, items |-> <<>>, fails |-> FALSE]
                        ELSE ReadItemResult(t[k - 1], k, ps, body)]

ReadRounds(L, n, ps, body) ==
    /\ L[0] = [offset |-> 0, items |-> <<>>, fails |-> FALSE]
    /\ \A k \in 1..n : L[k] = ReadItemResult(L[k - 1], k, ps, body)

LEMMA ReadsOn ==
    ASSUME NEW n \in Nat, NEW ps, NEW body, Len(ps) = n
    PROVE  ReadRounds(ReadLoop(ps, body), n, ps, body)
  <1> DEFINE S == {m \in 0..n : \E t : Reads(ps, body, m, t)}
             Round(acc, k) == ReadItemResult(acc, k, ps, body)
             start == [offset |-> 0, items |-> <<>>, fails |-> FALSE]
  <1> HIDE DEF Round, start
  <1>1. \A m, t : Reads(ps, body, m, t) <=>
                 t = [k \in 0..m |-> IF k = 0 THEN start ELSE Round(t[k - 1], k)]
    BY DEF Reads, Round, start
  <1>2. 0 \in S
    <2> DEFINE t == [k \in 0..0 |-> start]
    <2>1. t = [k \in 0..0 |-> IF k = 0 THEN start ELSE Round(t[k - 1], k)]
      OBVIOUS
    <2>2. Reads(ps, body, 0, t)
      BY <1>1, <2>1
    <2> QED BY <2>2
  <1>3. ASSUME NEW m \in 1..n, m - 1 \in S PROVE m \in S
    <2>1. PICK t : Reads(ps, body, m - 1, t)
      BY <1>3
    <2> DEFINE u == [k \in 0..m |-> IF k = m THEN Round(t[m - 1], m) ELSE t[k]]
    <2>2. t = [k \in 0..(m - 1) |-> IF k = 0 THEN start ELSE Round(t[k - 1], k)]
      BY <1>1, <2>1
    <2>3. \A k \in 0..(m - 1) : t[k] = IF k = 0 THEN start ELSE Round(t[k - 1], k)
      BY <2>2
    <2>4. \A k \in 0..m : u[k] = IF k = 0 THEN start ELSE Round(u[k - 1], k)
      <3> SUFFICES ASSUME NEW k \in 0..m
                   PROVE  u[k] = IF k = 0 THEN start ELSE Round(u[k - 1], k)
        OBVIOUS
      <3>1. CASE k = m
        <4>1. m - 1 \in 0..m /\ m - 1 # m /\ k # 0
          BY <3>1
        <4>2. u[k - 1] = t[m - 1] /\ u[k] = Round(t[m - 1], m)
          BY <3>1, <4>1
        <4> QED BY <3>1, <4>1, <4>2
      <3>2. CASE k # m
        <4>1. k \in 0..(m - 1) /\ u[k] = t[k]
          BY <3>2
        <4>2. k # 0 => k - 1 \in 0..m /\ k - 1 # m /\ u[k - 1] = t[k - 1]
          BY <3>2
        <4> QED BY <2>3, <4>1, <4>2
      <3> QED BY <3>1, <3>2
    <2>5. u = [k \in 0..m |-> u[k]]
      OBVIOUS
    <2> HIDE DEF u
    <2>6. u = [k \in 0..m |-> IF k = 0 THEN start ELSE Round(u[k - 1], k)]
      BY <2>4, <2>5
    <2>7. Reads(ps, body, m, u)
      BY <1>1, <2>6
    <2> QED BY <2>7
  <1> HIDE DEF S
  <1>4. n \in S
    <2>1. \A k \in 0..n : k \in S
      BY <1>2, <1>3, UpTo
    <2> QED BY <2>1
  <1> DEFINE f == CHOOSE t : Reads(ps, body, n, t)
  <1>5. Reads(ps, body, n, f)
    BY <1>4 DEF S
  <1>6. ReadLoop(ps, body) = f
    BY DEF ReadLoop, Reads
  <1> HIDE DEF f
  <1>7. f[0] = start /\ \A k \in 1..n : f[k] = Round(f[k - 1], k)
    BY <1>1, <1>5
  <1> QED BY <1>6, <1>7 DEF Round, start, ReadRounds

\* The loop of handleWrite has a value for every number of rounds.
Writes(vs, body, code, m, t) ==
    t = [k \in 0..m |-> IF k = 0 THEN [offset |-> 0, memory |-> memory, codes |-> <<>>, fails |-> FALSE]
                        ELSE PLCWriteRound(t[k - 1], k, vs, body, code)]

WriteRounds(L, n, vs, body, code) ==
    /\ L[0] = [offset |-> 0, memory |-> memory, codes |-> <<>>, fails |-> FALSE]
    /\ \A k \in 1..n : L[k] = PLCWriteRound(L[k - 1], k, vs, body, code)

LEMMA WritesOn ==
    ASSUME NEW n \in Nat, NEW vs, NEW body, NEW code, Len(vs) = n
    PROVE  WriteRounds(WriteLoop(vs, body, code), n, vs, body, code)
  <1> DEFINE S == {m \in 0..n : \E t : Writes(vs, body, code, m, t)}
             Round(acc, k) == PLCWriteRound(acc, k, vs, body, code)
             start == [offset |-> 0, memory |-> memory, codes |-> <<>>, fails |-> FALSE]
  <1> HIDE DEF Round, start
  <1>1. \A m, t : Writes(vs, body, code, m, t) <=>
                 t = [k \in 0..m |-> IF k = 0 THEN start ELSE Round(t[k - 1], k)]
    BY DEF Writes, Round, start
  <1>2. 0 \in S
    <2> DEFINE t == [k \in 0..0 |-> start]
    <2>1. t = [k \in 0..0 |-> IF k = 0 THEN start ELSE Round(t[k - 1], k)]
      OBVIOUS
    <2>2. Writes(vs, body, code, 0, t)
      BY <1>1, <2>1
    <2> QED BY <2>2
  <1>3. ASSUME NEW m \in 1..n, m - 1 \in S PROVE m \in S
    <2>1. PICK t : Writes(vs, body, code, m - 1, t)
      BY <1>3
    <2> DEFINE u == [k \in 0..m |-> IF k = m THEN Round(t[m - 1], m) ELSE t[k]]
    <2>2. t = [k \in 0..(m - 1) |-> IF k = 0 THEN start ELSE Round(t[k - 1], k)]
      BY <1>1, <2>1
    <2>3. \A k \in 0..(m - 1) : t[k] = IF k = 0 THEN start ELSE Round(t[k - 1], k)
      BY <2>2
    <2>4. \A k \in 0..m : u[k] = IF k = 0 THEN start ELSE Round(u[k - 1], k)
      <3> SUFFICES ASSUME NEW k \in 0..m
                   PROVE  u[k] = IF k = 0 THEN start ELSE Round(u[k - 1], k)
        OBVIOUS
      <3>1. CASE k = m
        <4>1. m - 1 \in 0..m /\ m - 1 # m /\ k # 0
          BY <3>1
        <4>2. u[k - 1] = t[m - 1] /\ u[k] = Round(t[m - 1], m)
          BY <3>1, <4>1
        <4> QED BY <3>1, <4>1, <4>2
      <3>2. CASE k # m
        <4>1. k \in 0..(m - 1) /\ u[k] = t[k]
          BY <3>2
        <4>2. k # 0 => k - 1 \in 0..m /\ k - 1 # m /\ u[k - 1] = t[k - 1]
          BY <3>2
        <4> QED BY <2>3, <4>1, <4>2
      <3> QED BY <3>1, <3>2
    <2>5. u = [k \in 0..m |-> u[k]]
      OBVIOUS
    <2> HIDE DEF u
    <2>6. u = [k \in 0..m |-> IF k = 0 THEN start ELSE Round(u[k - 1], k)]
      BY <2>4, <2>5
    <2>7. Writes(vs, body, code, m, u)
      BY <1>1, <2>6
    <2> QED BY <2>7
  <1> HIDE DEF S
  <1>4. n \in S
    <2>1. \A k \in 0..n : k \in S
      BY <1>2, <1>3, UpTo
    <2> QED BY <2>1
  <1> DEFINE f == CHOOSE t : Writes(vs, body, code, n, t)
  <1>5. Writes(vs, body, code, n, f)
    BY <1>4 DEF S
  <1>6. WriteLoop(vs, body, code) = f
    BY DEF WriteLoop, Writes
  <1> HIDE DEF f
  <1>7. f[0] = start /\ \A k \in 1..n : f[k] = Round(f[k - 1], k)
    BY <1>1, <1>5
  <1> QED BY <1>6, <1>7 DEF Round, start, WriteRounds


\* One round over a block as it should be.
BlockReady(acc, i, vs, body, value, padded) ==
    /\ body \in Seq(Byte) /\ value \in Seq(Byte) /\ padded \in BOOLEAN
    /\ padded <=> i # Len(vs) /\ vs[i].dataBytes % 2 # 0
    /\ Len(value) = vs[i].dataBytes /\ acc.offset \in Nat /\ acc.fails = FALSE
    /\ BlockAt(body, acc.offset, 0, vs[i].transport, vs[i].length, value, padded)
BlockTaken(next, acc, i, vs, code, value, padded) ==
    /\ next.offset = BlockEnd(acc.offset, value, padded) /\ next.fails = FALSE
    /\ next.codes = Append(acc.codes, CodeFor(i, code))
    /\ next.memory = IF CodeFor(i, code) = 255 THEN PLCWriteItem(acc.memory, vs[i], value)
                                               ELSE acc.memory

LEMMA WriteRoundTaken ==
    ASSUME NEW vs, NEW i, NEW acc, NEW body, NEW code, NEW value, NEW padded,
           BlockReady(acc, i, vs, body, value, padded)
    PROVE  BlockTaken(PLCWriteRound(acc, i, vs, body, code), acc, i, vs, code, value, padded)
  <1> DEFINE o == acc.offset
             l == vs[i].dataBytes
             v == vs[i]
             end == o + 4 + l
             Pads == i # Len(vs) /\ l % 2 # 0
             bad == \/ acc.fails \/ Len(body) - o < 4
                    \/ body[o + 1] # 0 \/ body[o + 2] # v.transport \/ At16(body, o + 3) # v.length
                    \/ end > Len(body)
             taken == [offset |-> IF Pads THEN end + 1 ELSE end,
                       memory |-> IF CodeFor(i, code) = 255
                                    THEN PLCWriteItem(acc.memory, v, SubSeq(body, o + 5, end))
                                    ELSE acc.memory,
                       codes |-> Append(acc.codes, CodeFor(i, code)),
                       fails |-> Pads /\ (end >= Len(body) \/ body[end + 1] # 0)]
  <1>1. PLCWriteRound(acc, i, vs, body, code) =
          IF bad THEN [offset |-> o, memory |-> acc.memory, codes |-> acc.codes, fails |-> TRUE]
                 ELSE taken
    BY DEF PLCWriteRound
  <1>2. l \in Nat /\ o \in Nat /\ Len(body) \in Nat /\ (padded <=> Pads) /\ l = Len(value)
        /\ acc.fails = FALSE
    <2>1. Len(value) \in Nat /\ Len(body) \in Nat
      BY DEF BlockReady
    <2> QED BY <2>1 DEF BlockReady
  <1>3. /\ o + 4 + l + (IF padded THEN 1 ELSE 0) <= Len(body)
        /\ body[o + 1] = 0 /\ body[o + 2] = v.transport /\ At16(body, o + 3) = v.length
        /\ SubSeq(body, o + 5, end) = value /\ (padded => body[end + 1] = 0)
    BY DEF BlockAt, BlockEnd, BlockReady
  <1> HIDE DEF o, l, v, Pads
  <1>4. ~bad
    <2>1. ~(Len(body) - o < 4) /\ ~(end > Len(body))
      BY <1>2, <1>3
    <2> QED BY <1>2, <1>3, <2>1
  <1>5. Pads => ~(end >= Len(body)) /\ body[end + 1] = 0
    BY <1>2, <1>3
  <1>6. (IF Pads THEN end + 1 ELSE end) = BlockEnd(o, value, padded)
    BY <1>2 DEF BlockEnd, l
  <1> HIDE DEF bad, end
  <1>7. PLCWriteRound(acc, i, vs, body, code) = taken
    BY <1>1, <1>4
  <1>8. taken.fails = FALSE /\ taken.offset = BlockEnd(o, value, padded)
    BY <1>5, <1>6
  <1>9. /\ taken.codes = Append(acc.codes, CodeFor(i, code))
        /\ taken.memory = IF CodeFor(i, code) = 255 THEN PLCWriteItem(acc.memory, v, value)
                                                    ELSE acc.memory
    BY <1>3
  <1> QED BY <1>7, <1>8, <1>9 DEF o, v, BlockTaken

WriteBlocks(ps, bytes, n) ==
    [i \in 1..n |-> [code |-> 0, transport |-> ps[i].responseTransport,
                     length |-> EncodedLength(ps[i]), value |-> bytes[i]]]
GoodData(ps, bytes, n) ==
    \A i \in 1..n : bytes[i] \in Seq(Byte) /\ Len(bytes[i]) = ps[i].dataBytes

LEMMA WriteBodyBlocks ==
    ASSUME NEW n, NEW ps, GoodBatch(ps, n), NEW bytes, GoodData(ps, bytes, n)
    PROVE  LET r == WriteBlocks(ps, bytes, n)
           IN GoodBlocks(r, n) /\ WriteBody(ps, bytes) = FlattenSeq(Blocks(r, n))
  <1> DEFINE r == WriteBlocks(ps, bytes, n)
  <1>1. n \in Nat /\ 1 <= n /\ DOMAIN ps = 1..n /\ Len(ps) = n
    BY DEF GoodBatch
  <1>2. 0 \in Byte
    BY DEF Byte
  <1>3. ASSUME NEW i \in 1..n
        PROVE  /\ r[i].code = 0 /\ r[i].transport = ps[i].responseTransport
               /\ r[i].length = EncodedLength(ps[i]) /\ r[i].value = bytes[i]
    BY DEF WriteBlocks
  <1> HIDE DEF r
  <1>4. ASSUME NEW i \in 1..n
        PROVE  /\ r[i].code \in Byte /\ r[i].transport \in Byte /\ r[i].value \in Seq(Byte)
               /\ r[i].length \in Nat /\ r[i].length <= MaxUint16
    <2>1. GoodDescriptor(ps[i])
      BY DEF GoodBatch
    <2>2. EncodedLength(ps[i]) \in Nat /\ ps[i].responseTransport \in Byte
          /\ EncodedLength(ps[i]) <= MaxUint16
      BY <2>1, DescriptorLength DEF GoodDescriptor
    <2>3. bytes[i] \in Seq(Byte)
      BY DEF GoodData
    <2> QED BY <1>2, <1>3, <2>2, <2>3
  <1>5. GoodBlocks(r, n)
    BY <1>1, <1>4 DEF GoodBlocks
  <1>6. ASSUME NEW i \in 1..n
        PROVE  DataHeader(0, ps[i].responseTransport, EncodedLength(ps[i]))
                 \o bytes[i] \o Pad(i, Len(ps), Len(bytes[i]))
               = Block(r[i].code, r[i].transport, r[i].length, r[i].value, PaddedAt(r, n, i))
    <2>1. Pad(i, Len(ps), Len(bytes[i])) = Padding(PaddedAt(r, n, i))
      BY <1>1, <1>3 DEF Pad, Padding, PaddedAt
    <2> QED BY <1>3, <2>1 DEF Block
  <1>7. WriteBody(ps, bytes) = FlattenSeq(Blocks(r, n))
    BY <1>1, <1>6, Zenon DEF WriteBody, Blocks
  <1> QED BY <1>5, <1>7 DEF r


\* The PLC's view of the batch.
SeenBatch(ps, n) == [i \in 1..n |-> Seen(ps[i])]

\* handleWrite takes every block of a request to the item it belongs to.
WriteTaken(L, all, vs, bytes, code, n) ==
    /\ L[0].memory = memory
    /\ \A k \in 1..n :
         L[k].memory = IF CodeFor(k, code) = 255
                         THEN PLCWriteItem(L[k - 1].memory, vs[k], bytes[k])
                         ELSE L[k - 1].memory
    /\ all.memory = L[n].memory
    /\ all.codes \in Seq(Byte) /\ Len(all.codes) = n
    /\ \A i \in 1..n : all.codes[i] = CodeFor(i, code)

LEMMA WriteServed ==
    ASSUME NEW n, NEW ps, GoodBatch(ps, n), NEW bytes, GoodData(ps, bytes, n), NEW code \in Byte,
           NEW vs, vs = SeenBatch(ps, n), NEW body, body = WriteBody(ps, bytes)
    PROVE  /\ ~PLCWriteFails(vs, body, code)
           /\ WriteTaken(WriteLoop(vs, body, code), PLCWrite(vs, body, code), vs, bytes, code, n)
  <1> DEFINE L == WriteLoop(vs, body, code)
             r == WriteBlocks(ps, bytes, n)
             t == Starts(Blocks(r, n))
             Good(k) == /\ L[k].offset = t[k] /\ L[k].fails = FALSE
                        /\ L[k].codes \in Seq(Byte) /\ Len(L[k].codes) = k
                        /\ \A i \in 1..k : L[k].codes[i] = CodeFor(i, code)
             S == {k \in 0..n : Good(k)}
  <1>1. n \in Nat /\ 1 <= n /\ \A i \in 1..n : GoodDescriptor(ps[i])
    BY DEF GoodBatch
  <1>2. Len(vs) = n
    BY <1>1 DEF SeenBatch
  <1>3. ASSUME NEW i \in 1..n
        PROVE  /\ vs[i] = Seen(ps[i]) /\ vs[i].dataBytes = ps[i].dataBytes
               /\ vs[i].transport = ps[i].responseTransport /\ vs[i].length = EncodedLength(ps[i])
    BY DEF SeenBatch, Seen
  <1>4. ASSUME NEW i \in 1..n
        PROVE  /\ r[i].code = 0 /\ r[i].transport = ps[i].responseTransport
               /\ r[i].length = EncodedLength(ps[i]) /\ r[i].value = bytes[i]
    BY DEF WriteBlocks
  <1>5. GoodBlocks(r, n) /\ body = FlattenSeq(Blocks(r, n))
    BY WriteBodyBlocks
  <1> HIDE DEF r
  <1>6. /\ body \in Seq(Byte) /\ t[0] = 0 /\ t[n] = Len(body) /\ \A i \in 0..n : t[i] \in Nat
        /\ \A i \in 1..n :
             /\ BlockAt(body, t[i - 1], r[i].code, r[i].transport, r[i].length, r[i].value,
                        PaddedAt(r, n, i))
             /\ t[i] = BlockEnd(t[i - 1], r[i].value, PaddedAt(r, n, i))
    <2> DEFINE b == FlattenSeq(Blocks(r, n))
    <2>1. GoodBlocks(r, n)
      BY <1>5
    <2>2. /\ b \in Seq(Byte) /\ t[0] = 0 /\ t[n] = Len(b) /\ \A i \in 0..n : t[i] \in Nat
          /\ \A i \in 1..n :
               /\ BlockAt(b, t[i - 1], r[i].code, r[i].transport, r[i].length, r[i].value,
                          PaddedAt(r, n, i))
               /\ t[i] = BlockEnd(t[i - 1], r[i].value, PaddedAt(r, n, i))
      BY <2>1, BlocksLaid, Zenon
    <2>3. body = b
      BY <1>5
    <2> HIDE DEF b, t
    <2> QED BY <2>2, <2>3
  <1>7. /\ L[0] = [offset |-> 0, memory |-> memory, codes |-> <<>>, fails |-> FALSE]
        /\ \A k \in 1..n : L[k] = PLCWriteRound(L[k - 1], k, vs, body, code)
    <2>1. n \in Nat
      BY <1>1
    <2>2. WriteRounds(L, n, vs, body, code)
      BY <1>2, <2>1, WritesOn
    <2> QED BY <2>2 DEF WriteRounds
  <1> HIDE DEF L, t
  <1>8. ASSUME NEW k \in 1..n, Good(k - 1)
        PROVE  /\ L[k].offset = t[k] /\ L[k].fails = FALSE
               /\ L[k].codes = Append(L[k - 1].codes, CodeFor(k, code))
               /\ L[k].memory = IF CodeFor(k, code) = 255
                                   THEN PLCWriteItem(L[k - 1].memory, vs[k], bytes[k])
                                   ELSE L[k - 1].memory
    <2> DEFINE acc == L[k - 1]
               value == bytes[k]
               padded == PaddedAt(r, n, k)
               next == PLCWriteRound(acc, k, vs, body, code)
    <2>1. value \in Seq(Byte) /\ Len(value) = vs[k].dataBytes
      BY <1>3 DEF GoodData
    <2>2. padded \in BOOLEAN /\ (padded <=> k # Len(vs) /\ vs[k].dataBytes % 2 # 0)
      BY <1>2, <1>4, <2>1 DEF PaddedAt
    <2>3. k - 1 \in 0..n /\ acc.offset = t[k - 1] /\ acc.fails = FALSE
      BY <1>1, <1>8
    <2>4. acc.offset \in Nat
      BY <1>6, <2>3
    <2>5. BlockAt(body, acc.offset, 0, vs[k].transport, vs[k].length, value, padded)
      BY <1>3, <1>4, <1>6, <2>3
    <2>9. body \in Seq(Byte)
      BY <1>6
    <2> HIDE DEF acc, value, padded
    <2>10. BlockReady(acc, k, vs, body, value, padded)
      BY <2>1, <2>2, <2>3, <2>4, <2>5, <2>9, Zenon DEF BlockReady
    <2>6. BlockTaken(next, acc, k, vs, code, value, padded)
      BY <2>10, WriteRoundTaken
    <2>7. L[k] = next
      BY <1>7 DEF acc
    <2>8. BlockEnd(acc.offset, value, padded) = t[k]
      BY <1>4, <1>6, <2>3 DEF value, padded
    <2> HIDE DEF next
    <2> QED BY <2>6, <2>7, <2>8 DEF acc, value, BlockTaken
  <1>9. 0 \in S
    <2>1. /\ L[0].offset = 0 /\ L[0].fails = FALSE /\ L[0].codes = <<>>
      BY <1>7
    <2>2. L[0].codes \in Seq(Byte) /\ Len(L[0].codes) = 0
      BY <2>1
    <2>3. 0 \in 0..n /\ t[0] = 0 /\ \A i \in 1..0 : L[0].codes[i] = CodeFor(i, code)
      BY <1>1, <1>6
    <2> QED BY <2>1, <2>2, <2>3
  <1>10. ASSUME NEW k \in 1..n, k - 1 \in S PROVE k \in S
    <2>1. Good(k - 1) /\ k \in 0..n
      BY <1>1, <1>10
    <2>2. /\ L[k].offset = t[k] /\ L[k].fails = FALSE
          /\ L[k].codes = Append(L[k - 1].codes, CodeFor(k, code))
      BY <1>8, <2>1
    <2> DEFINE s == L[k - 1].codes
               c == CodeFor(k, code)
    <2>3. s \in Seq(Byte) /\ Len(s) = k - 1 /\ \A i \in 1..(k - 1) : s[i] = CodeFor(i, code)
      BY <2>1
    <2>4. c \in Byte
      <3>1. 255 \in Byte
        BY DEF Byte
      <3> QED BY <3>1 DEF CodeFor
    <2>5. L[k].codes = Append(s, c)
      BY <2>2
    <2> HIDE DEF s
    <2>6. /\ Append(s, c) \in Seq(Byte) /\ Len(Append(s, c)) = k
          /\ \A i \in 1..(k - 1) : Append(s, c)[i] = s[i]
          /\ Append(s, c)[k] = c
      <3>1. (k - 1) + 1 = k
        BY <1>1
      <3>2. c \in Byte => /\ Append(s, c) \in Seq(Byte) /\ Len(Append(s, c)) = Len(s) + 1
               /\ \A i \in 1..Len(s) : Append(s, c)[i] = s[i]
               /\ Append(s, c)[Len(s) + 1] = c
        BY <2>3, AppendProperties
      <3> QED BY <2>3, <2>4, <3>1, <3>2
    <2>7. \A i \in 1..k : L[k].codes[i] = CodeFor(i, code)
      <3> SUFFICES ASSUME NEW i \in 1..k PROVE L[k].codes[i] = CodeFor(i, code)
        OBVIOUS
      <3>1. i = k \/ i \in 1..(k - 1)
        BY <1>1
      <3> QED BY <2>3, <2>5, <2>6, <3>1
    <2>8. Good(k)
      BY <2>2, <2>5, <2>6, <2>7
    <2> QED BY <2>1, <2>8
  <1>11. \A k \in 0..n : Good(k)
    <2> HIDE DEF S
    <2>1. \A k \in 0..n : k \in S
      BY <1>1, <1>9, <1>10, UpTo
    <2> QED BY <2>1 DEF S
  <1>12. ASSUME NEW k \in 1..n
         PROVE  L[k].memory = IF CodeFor(k, code) = 255
                                   THEN PLCWriteItem(L[k - 1].memory, vs[k], bytes[k])
                                   ELSE L[k - 1].memory
    <2>1. k - 1 \in 0..n
      BY <1>1
    <2>2. Good(k - 1)
      BY <1>11, <2>1
    <2> HIDE DEF Good
    <2> QED BY <1>8, <2>2
  <1>13. Good(n) /\ PLCWrite(vs, body, code) = L[n]
    <2>1. n \in 0..n
      BY <1>1
    <2> QED BY <1>2, <1>11, <2>1 DEF PLCWrite, L
  <1>14. ~PLCWriteFails(vs, body, code)
    BY <1>6, <1>13 DEF PLCWriteFails
  <1>15. L[0].memory = memory
    BY <1>7
  <1>16. WriteTaken(L, PLCWrite(vs, body, code), vs, bytes, code, n)
    BY <1>12, <1>13, <1>15 DEF WriteTaken
  <1> QED BY <1>14, <1>16 DEF L


\* One round over an item's block: refused, or with the item's value.
Refused(b) == b.code # 255 /\ b.transport = 0 /\ b.length \in {0, 4} /\ b.value = <<>>
Delivered(b, p) ==
    /\ b.code = 255 /\ b.transport = p.responseTransport /\ b.length = EncodedLength(p)
    /\ Len(b.value) = p.dataBytes
ReadReady(acc, i, ps, body, b, padded) ==
    /\ body \in Seq(Byte) /\ b.value \in Seq(Byte) /\ padded \in BOOLEAN
    /\ acc.offset \in Nat /\ acc.fails = FALSE
    /\ BlockAt(body, acc.offset, b.code, b.transport, b.length, b.value, padded)
    /\ \/ Refused(b) /\ padded = FALSE
       \/ Delivered(b, ps[i]) /\ (padded <=> i # Len(ps) /\ ps[i].dataBytes % 2 # 0)
ReadTaken(next, acc, b, padded) ==
    /\ next.offset = BlockEnd(acc.offset, b.value, padded) /\ next.fails = FALSE
    /\ next.items = Append(acc.items, [code |-> b.code, data |-> b.value])

LEMMA ReadRoundTaken ==
    ASSUME NEW ps, NEW i, NEW acc, NEW body, NEW b, NEW padded,
           ReadReady(acc, i, ps, body, b, padded)
    PROVE  ReadTaken(ReadItemResult(acc, i, ps, body), acc, b, padded)
  <1> DEFINE o == acc.offset
             p == ps[i]
             code == body[o + 1]
             length == At16(body, o + 3)
             end == o + 4 + p.dataBytes
             Pads == i # Len(ps) /\ p.dataBytes % 2 # 0
             Failed == [offset |-> o, items |-> acc.items, fails |-> TRUE]
             Consumed(next, value) ==
               [offset |-> next, items |-> Append(acc.items, [code |-> code, data |-> value]),
                fails |-> FALSE]
             short == acc.fails \/ Len(body) - o < ItemDataHeaderSize
             odd == \/ body[o + 2] # p.responseTransport \/ length # EncodedLength(p)
                    \/ end > Len(body)
                    \/ Pads /\ PaddingFails(body, end)
             next == ReadItemResult(acc, i, ps, body)
             l == Len(b.value)
             z == IF padded THEN 1 ELSE 0
             m == Len(body)
  <1>1. next =
          IF short THEN Failed
          ELSE IF code # 255
            THEN IF body[o + 2] # 0 \/ length \notin {0, 4} THEN Failed ELSE Consumed(o + 4, <<>>)
          ELSE IF odd THEN Failed
          ELSE Consumed(IF Pads THEN end + 1 ELSE end, SubSeq(body, o + 5, end))
    BY DEF ReadItemResult
  <1>0. o \in Nat /\ m \in Nat /\ l \in Nat /\ acc.fails = FALSE
    BY DEF ReadReady
  <1>2. o \in Nat /\ m \in Nat /\ l \in Nat /\ z \in {0, 1} /\ o + 4 + l + z <= m
        /\ (padded => z = 1) /\ (~padded => z = 0)
    BY <1>0 DEF ReadReady, BlockAt, BlockEnd
  <1>3. /\ code = b.code /\ body[o + 2] = b.transport /\ length = b.length
        /\ SubSeq(body, o + 5, o + 4 + l) = b.value
        /\ (padded => body[(o + 4 + l) + 1] = 0)
    BY DEF ReadReady, BlockAt
  <1>4. ~short
    <2> HIDE DEF o, l, z, m
    <2>1. ~(m - o < 4)
      BY <1>2
    <2> QED BY <1>0, <2>1 DEF ItemDataHeaderSize, m
  <1>10. BlockEnd(o, b.value, padded) = o + 4 + l + z
    BY DEF BlockEnd
  <1> HIDE DEF o, p, code, length, Pads, Failed, short, l, z, m
  <1>5. CASE Refused(b) /\ padded = FALSE
    <2>1. next = Consumed(o + 4, <<>>)
      BY <1>1, <1>3, <1>4, <1>5 DEF Refused
    <2>0. l = 0 /\ z = 0
      BY <1>2, <1>5 DEF Refused, l
    <2>2. BlockEnd(o, b.value, padded) = o + 4
      BY <1>2, <1>10, <2>0
    <2> QED BY <1>3, <1>5, <2>1, <2>2 DEF Refused, ReadTaken, o
  <1>6. CASE Delivered(b, p) /\ (padded <=> Pads)
    <2>1. p.dataBytes = l /\ code = 255
      BY <1>3, <1>6 DEF Delivered, l
    <2>2. end = o + 4 + l
      BY <2>1
    <2> HIDE DEF end
    <2>3. ~(end > m) /\ (Pads => ~(end >= m))
      BY <1>2, <1>6, <2>2
    <2>8. Pads => body[end + 1] = 0
      BY <1>3, <1>6, <2>2
    <2>4. ~odd
      BY <1>3, <1>6, <2>3, <2>8 DEF Delivered, PaddingFails, m
    <2>5. next = Consumed(IF Pads THEN end + 1 ELSE end, SubSeq(body, o + 5, end))
      <3> HIDE DEF odd, end, Consumed
      <3> QED BY <1>1, <1>4, <2>1, <2>4
    <2>6. (IF Pads THEN end + 1 ELSE end) = BlockEnd(o, b.value, padded)
      BY <1>2, <1>6, <1>10, <2>2
    <2>7. SubSeq(body, o + 5, end) = b.value
      BY <1>3, <2>2
    <2> HIDE DEF end
    <2> DEFINE w == IF Pads THEN end + 1 ELSE end
    <2>9. next = Consumed(w, b.value) /\ w = BlockEnd(o, b.value, padded)
      BY <2>5, <2>6, <2>7
    <2> HIDE DEF w, next
    <2>11. ReadTaken(next, acc, b, padded)
      BY <1>3, <2>9 DEF ReadTaken, o
    <2> QED BY <2>11 DEF next
  <1>7. \/ Refused(b) /\ padded = FALSE
        \/ Delivered(b, p) /\ (padded <=> Pads)
    BY DEF ReadReady, p, Pads
  <1> QED BY <1>5, <1>6, <1>7

\* The blocks of an answer with the items of a batch.
GoodAnswer(ps, r, n) ==
    /\ GoodBlocks(r, n)
    /\ \A i \in 1..n : Refused(r[i]) \/ Delivered(r[i], ps[i])

\* ParseReadResponse takes every block of an answer to the item it belongs to.
AnswerTaken(all, body, r, n) ==
    /\ all.fails = FALSE /\ all.offset = Len(body) /\ Len(all.items) = n
    /\ \A i \in 1..n : all.items[i].code = r[i].code /\ all.items[i].data = r[i].value

LEMMA AnswerRead ==
    ASSUME NEW n, NEW ps, GoodBatch(ps, n), NEW r, GoodAnswer(ps, r, n)
    PROVE  AnswerTaken(ReadLoop(ps, FlattenSeq(Blocks(r, n)))[n], FlattenSeq(Blocks(r, n)), r, n)
  <1> DEFINE body == FlattenSeq(Blocks(r, n))
             L == ReadLoop(ps, body)
             t == Starts(Blocks(r, n))
             R(i) == [code |-> r[i].code, data |-> r[i].value]
             E == [code : Byte, data : Seq(Byte)]
             Good(k) == /\ L[k].offset = t[k] /\ L[k].fails = FALSE
                        /\ L[k].items \in Seq(E) /\ Len(L[k].items) = k
                        /\ \A i \in 1..k : L[k].items[i] = R(i)
             S == {k \in 0..n : Good(k)}
  <1>1. n \in Nat /\ 1 <= n /\ Len(ps) = n
    BY DEF GoodBatch
  <1>2. ASSUME NEW i \in 1..n
        PROVE  /\ r[i].code \in Byte /\ r[i].value \in Seq(Byte)
               /\ Refused(r[i]) \/ Delivered(r[i], ps[i])
               /\ R(i) \in E
    BY DEF GoodAnswer, GoodBlocks
  <1>3. /\ body \in Seq(Byte) /\ t[0] = 0 /\ t[n] = Len(body) /\ \A i \in 0..n : t[i] \in Nat
        /\ \A i \in 1..n :
             /\ BlockAt(body, t[i - 1], r[i].code, r[i].transport, r[i].length, r[i].value,
                        PaddedAt(r, n, i))
             /\ t[i] = BlockEnd(t[i - 1], r[i].value, PaddedAt(r, n, i))
    <2>1. GoodBlocks(r, n)
      BY DEF GoodAnswer
    <2> QED BY <2>1, BlocksLaid, Zenon
  <1> HIDE DEF body
  <1>4. /\ L[0] = [offset |-> 0, items |-> <<>>, fails |-> FALSE]
        /\ \A k \in 1..n : L[k] = ReadItemResult(L[k - 1], k, ps, body)
    <2>1. n \in Nat
      BY <1>1
    <2>2. ReadRounds(L, n, ps, body)
      BY <1>1, <2>1, ReadsOn
    <2> QED BY <2>2 DEF ReadRounds
  <1> HIDE DEF L, t, R, E
  <1>5. ASSUME NEW k \in 1..n, Good(k - 1)
        PROVE  L[k].offset = t[k] /\ L[k].fails = FALSE /\ L[k].items = Append(L[k - 1].items, R(k))
    <2> DEFINE acc == L[k - 1]
               b == r[k]
               padded == PaddedAt(r, n, k)
               next == ReadItemResult(acc, k, ps, body)
    <2>1. k - 1 \in 0..n /\ acc.offset = t[k - 1] /\ acc.fails = FALSE
      BY <1>1, <1>5
    <2>2. acc.offset \in Nat /\ body \in Seq(Byte) /\ b.value \in Seq(Byte) /\ padded \in BOOLEAN
      BY <1>2, <1>3, <2>1 DEF PaddedAt
    <2>3. BlockAt(body, acc.offset, b.code, b.transport, b.length, b.value, padded)
      BY <1>3, <2>1
    <2>4. \/ Refused(b) /\ padded = FALSE
          \/ Delivered(b, ps[k]) /\ (padded <=> k # Len(ps) /\ ps[k].dataBytes % 2 # 0)
      <3>1. CASE Refused(b)
        <4>1. Len(b.value) = 0 /\ 0 % 2 = 0
          BY <3>1 DEF Refused
        <4> QED BY <3>1, <4>1 DEF PaddedAt
      <3>2. CASE Delivered(b, ps[k])
        BY <1>1, <3>2 DEF Delivered, PaddedAt
      <3> QED BY <1>2, <3>1, <3>2
    <2> HIDE DEF acc, b, padded
    <2>5. ReadReady(acc, k, ps, body, b, padded)
      BY <2>1, <2>2, <2>3, <2>4, Zenon DEF ReadReady
    <2>6. ReadTaken(next, acc, b, padded)
      BY <2>5, ReadRoundTaken
    <2>7. L[k] = next
      BY <1>4 DEF acc
    <2>8. BlockEnd(acc.offset, b.value, padded) = t[k]
      BY <1>3, <2>1 DEF b, padded
    <2> HIDE DEF next
    <2> QED BY <2>6, <2>7, <2>8 DEF acc, b, ReadTaken, R
  <1>6. 0 \in S
    <2>1. L[0].offset = 0 /\ L[0].fails = FALSE /\ L[0].items = <<>>
      BY <1>4
    <2>2. L[0].items \in Seq(E) /\ Len(L[0].items) = 0
      BY <2>1
    <2>3. 0 \in 0..n /\ t[0] = 0 /\ \A i \in 1..0 : L[0].items[i] = R(i)
      BY <1>1, <1>3
    <2> QED BY <2>1, <2>2, <2>3
  <1>7. ASSUME NEW k \in 1..n, k - 1 \in S PROVE k \in S
    <2>1. Good(k - 1) /\ k \in 0..n
      BY <1>1, <1>7
    <2>2. L[k].offset = t[k] /\ L[k].fails = FALSE /\ L[k].items = Append(L[k - 1].items, R(k))
      BY <1>5, <2>1
    <2> DEFINE s == L[k - 1].items
               c == R(k)
    <2>3. s \in Seq(E) /\ Len(s) = k - 1 /\ \A i \in 1..(k - 1) : s[i] = R(i)
      BY <2>1
    <2>4. c \in E
      BY <1>2
    <2>5. L[k].items = Append(s, c)
      BY <2>2
    <2> HIDE DEF s
    <2>6. /\ Append(s, c) \in Seq(E) /\ Len(Append(s, c)) = k
          /\ \A i \in 1..(k - 1) : Append(s, c)[i] = s[i]
          /\ Append(s, c)[k] = c
      <3>1. (k - 1) + 1 = k
        BY <1>1
      <3>2. c \in E => /\ Append(s, c) \in Seq(E) /\ Len(Append(s, c)) = Len(s) + 1
               /\ \A i \in 1..Len(s) : Append(s, c)[i] = s[i]
               /\ Append(s, c)[Len(s) + 1] = c
        BY <2>3, AppendProperties
      <3> QED BY <2>3, <2>4, <3>1, <3>2
    <2>7. \A i \in 1..k : L[k].items[i] = R(i)
      <3> SUFFICES ASSUME NEW i \in 1..k PROVE L[k].items[i] = R(i)
        OBVIOUS
      <3>1. i = k \/ i \in 1..(k - 1)
        BY <1>1
      <3> QED BY <2>3, <2>5, <2>6, <3>1
    <2>8. Good(k)
      BY <2>2, <2>5, <2>6, <2>7
    <2> QED BY <2>1, <2>8
  <1>8. Good(n)
    <2> HIDE DEF S
    <2>1. \A k \in 0..n : k \in S
      BY <1>1, <1>6, <1>7, UpTo
    <2>2. n \in 0..n
      BY <1>1
    <2> QED BY <2>1, <2>2 DEF S
  <1>9. /\ L[n].fails = FALSE /\ L[n].offset = Len(body) /\ Len(L[n].items) = n
        /\ \A i \in 1..n : L[n].items[i] = R(i)
    BY <1>3, <1>8
  <1>10. \A i \in 1..n : R(i).code = r[i].code /\ R(i).data = r[i].value
    BY DEF R
  <1> QED BY <1>9, <1>10 DEF L, body, AnswerTaken


\* Items without their data make an answer smaller.
LEMMA SmallerData ==
    ASSUME NEW n \in Nat, NEW a \in [1..n -> Nat], NEW b \in [1..n -> Nat],
           \A i \in 1..n : a[i] = b[i] \/ a[i] = 0
    PROVE  ItemsDataSize(a) <= ItemsDataSize(b) /\ ItemsDataSize(a) \in Int
           /\ ItemsDataSize(b) \in Int
  <1> DEFINE x == Totals(Sizes(a), n)
             y == Totals(Sizes(b), n)
             S == {k \in 0..n : x[k] \in Int /\ y[k] \in Int /\ x[k] <= y[k]}
  <1>1. a \in Seq(Int) /\ b \in Seq(Int) /\ Len(a) = n /\ Len(b) = n
        /\ DOMAIN a = 1..n /\ DOMAIN b = 1..n
    OBVIOUS
  <1>2. Numbers(Sizes(a), n) /\ Numbers(Sizes(b), n)
        /\ ItemsDataSize(a) = x[n] /\ ItemsDataSize(b) = y[n]
    BY <1>1, SizesAreNumbers DEF Total
  <1>3. ASSUME NEW k \in 1..n
        PROVE Sizes(a)[k] <= Sizes(b)[k] /\ Sizes(a)[k] \in Int /\ Sizes(b)[k] \in Int
    <2>1. Sizes(a)[k] = 4 + (a[k] + (IF k # n /\ a[k] % 2 # 0 THEN 1 ELSE 0))
      BY <1>1 DEF Sizes, Padded, ItemDataHeaderSize
    <2>2. Sizes(b)[k] = 4 + (b[k] + (IF k # n /\ b[k] % 2 # 0 THEN 1 ELSE 0))
      BY <1>1 DEF Sizes, Padded, ItemDataHeaderSize
    <2> DEFINE p == a[k]
               q == b[k]
               c == IF k # n /\ p % 2 # 0 THEN 1 ELSE 0
               d == IF k # n /\ q % 2 # 0 THEN 1 ELSE 0
    <2>3. p \in Nat /\ q \in Nat /\ (p = q \/ p = 0)
      OBVIOUS
    <2>4. c \in 0..1 /\ d \in 0..1 /\ (p = q => c = d) /\ (p = 0 => c = 0)
      <3> HIDE DEF p, q
      <3>1. 0 % 2 = 0
        OBVIOUS
      <3> QED BY <2>3, <3>1
    <2>5. Sizes(a)[k] = 4 + (p + c) /\ Sizes(b)[k] = 4 + (q + d)
      BY <2>1, <2>2
    <2> HIDE DEF p, q, c, d
    <2> QED BY <2>3, <2>4, <2>5
  <1>4. /\ x[0] = 0 /\ \A k \in 1..n : x[k] = x[k - 1] + Sizes(a)[k]
        /\ y[0] = 0 /\ \A k \in 1..n : y[k] = y[k - 1] + Sizes(b)[k]
    BY <1>2, TotalsStep
  <1> HIDE DEF x, y
  <1>5. 0 \in S
    BY <1>4
  <1>6. ASSUME NEW k \in 1..n, k - 1 \in S PROVE k \in S
    <2>1. x[k - 1] \in Int /\ y[k - 1] \in Int /\ x[k - 1] <= y[k - 1] /\ k \in 0..n
      BY <1>6
    <2>2. x[k] = x[k - 1] + Sizes(a)[k] /\ y[k] = y[k - 1] + Sizes(b)[k]
      BY <1>4
    <2>3. Sizes(a)[k] <= Sizes(b)[k] /\ Sizes(a)[k] \in Int /\ Sizes(b)[k] \in Int
      BY <1>3
    <2>4. x[k] \in Int /\ y[k] \in Int /\ x[k] <= y[k]
      <3> DEFINE u == x[k - 1]
                 v == y[k - 1]
                 c == Sizes(a)[k]
                 d == Sizes(b)[k]
      <3>1. /\ u \in Int /\ v \in Int /\ c \in Int /\ d \in Int /\ u <= v /\ c <= d
            /\ x[k] = u + c /\ y[k] = v + d
        BY <2>1, <2>2, <2>3, Zenon
      <3> HIDE DEF u, v, c, d
      <3>2. u + c \in Int /\ v + d \in Int /\ u + c <= v + d
        BY <3>1
      <3> QED BY <3>1, <3>2, Zenon
    <2> QED BY <2>1, <2>4, Zenon
  <1>7. n \in S
    <2> HIDE DEF S
    <2>1. \A k \in 0..n : k \in S
      BY <1>5, <1>6, UpTo
    <2> QED BY <2>1
  <1> QED BY <1>2, <1>7

-----------------------------------------------------------------------------
\* The answer to a read

\* What readItem takes from memory m.
ReadValue(m, v) ==
    IF v.wordLength = 1 THEN <<BitOf(Cell(m, PLCKey(v, 1)), v.address % 8)>>
    ELSE [k \in 1..v.dataBytes |-> Cell(m, PLCKey(v, k))]

LEMMA BitsOfBytes ==
    ASSUME NEW x \in Byte, NEW k \in 0..7
    PROVE  BitOf(x, k) \in {0, 1}
  <1>1. Mask[k + 1] \in Nat /\ Mask[k + 1] > 0 /\ x \in Nat
    <2>1. k = 0 \/ k = 1 \/ k = 2 \/ k = 3 \/ k = 4 \/ k = 5 \/ k = 6 \/ k = 7
      OBVIOUS
    <2> QED BY <2>1, MaskValues, BytesAreNumbers
  <1> DEFINE q == x \div Mask[k + 1]
  <1>2. q \in Int
    BY <1>1
  <1> HIDE DEF q
  <1>3. q % 2 \in {0, 1}
    BY <1>2
  <1> QED BY <1>3 DEF BitOf, q

LEMMA ValueRead ==
    ASSUME NEW m, IsMemory(m), NEW p, GoodDescriptor(p)
    PROVE  ReadValue(m, Seen(p)) \in Seq(Byte) /\ Len(ReadValue(m, Seen(p))) = p.dataBytes
  <1> DEFINE v == Seen(p)
  <1>1. v.wordLength = p.wordLength /\ v.dataBytes = p.dataBytes /\ v.address = p.address
    BY DEF Seen
  <1>2. p.dataBytes \in Nat /\ p.address \in Nat /\ (p.wordLength = 1 => p.dataBytes = 1)
    <2>1. p.wordLength = 1 => PLCWidth(p.wordLength) = 1
      BY DEF PLCWidth
    <2> QED BY <2>1, DescriptorLength DEF GoodDescriptor
  <1>3. \A key : Cell(m, key) \in Byte
    <2>1. 0 \in Byte
      BY DEF Byte
    <2> QED BY <2>1 DEF Cell, IsMemory
  <1> HIDE DEF v
  <1>4. CASE p.wordLength = 1
    <2> DEFINE c == Cell(m, PLCKey(v, 1))
               b == BitOf(c, v.address % 8)
    <2>1. c \in Byte /\ v.address % 8 \in 0..7
      BY <1>1, <1>2, <1>3
    <2>2. b \in {0, 1}
      BY <2>1, BitsOfBytes
    <2>3. b \in Byte
      BY <2>2 DEF Byte
    <2> HIDE DEF b
    <2>4. <<b>> \in Seq(Byte) /\ Len(<<b>>) = 1
      BY <2>3
    <2> QED BY <1>1, <1>2, <1>4, <2>4 DEF ReadValue, b, v
  <1>5. CASE p.wordLength # 1
    <2> DEFINE f == [k \in 1..v.dataBytes |-> Cell(m, PLCKey(v, k))]
    <2>1. f \in [1..v.dataBytes -> Byte]
      BY <1>3
    <2> HIDE DEF f
    <2>2. f \in Seq(Byte) /\ Len(f) = v.dataBytes
      BY <1>1, <1>2, <2>1
    <2> QED BY <1>1, <1>5, <2>2 DEF ReadValue, f, v
  <1> QED BY <1>4, <1>5

\* The blocks of handleRead, when it gives the first item the code.
ReadBlocks(m, ps, code, n) ==
    [i \in 1..n |->
        IF i = 1 /\ code # 255 THEN [code |-> code, transport |-> 0, length |-> 4, value |-> <<>>]
        ELSE [code |-> 255, transport |-> ps[i].responseTransport,
              length |-> EncodedLength(ps[i]), value |-> ReadValue(m, Seen(ps[i]))]]

LEMMA ReadServed ==
    ASSUME NEW n, NEW ps, GoodBatch(ps, n), NEW code \in Byte, IsMemory(memory)
    PROVE  LET r == ReadBlocks(memory, ps, code, n)
           IN /\ GoodAnswer(ps, r, n)
              /\ PLCRead(SeenBatch(ps, n), code) = FlattenSeq(Blocks(r, n))
              /\ \A i \in 1..n : r[i].code = CodeFor(i, code)
  <1> DEFINE r == ReadBlocks(memory, ps, code, n)
             vs == SeenBatch(ps, n)
  <1>1. n \in Nat /\ 1 <= n /\ \A i \in 1..n : GoodDescriptor(ps[i])
    BY DEF GoodBatch
  <1>2. Len(vs) = n /\ DOMAIN vs = 1..n
    BY <1>1 DEF SeenBatch
  <1>3. ASSUME NEW i \in 1..n
        PROVE  /\ vs[i] = Seen(ps[i]) /\ vs[i].dataBytes = ps[i].dataBytes
               /\ vs[i].transport = ps[i].responseTransport /\ vs[i].length = EncodedLength(ps[i])
    BY DEF SeenBatch, Seen
  <1>4. ASSUME NEW i \in 1..n, i = 1, code # 255
        PROVE  /\ r[i].code = code /\ r[i].transport = 0 /\ r[i].length = 4 /\ r[i].value = <<>>
               /\ Refused(r[i])
    BY <1>4 DEF ReadBlocks, Refused
  <1>5. ASSUME NEW i \in 1..n, ~(i = 1 /\ code # 255)
        PROVE  /\ r[i].code = 255 /\ r[i].transport = ps[i].responseTransport
               /\ r[i].length = EncodedLength(ps[i]) /\ r[i].value = PLCReadItem(vs[i])
               /\ r[i].value \in Seq(Byte) /\ Delivered(r[i], ps[i])
    <2>1. PLCReadItem(vs[i]) = ReadValue(memory, Seen(ps[i]))
      BY <1>3 DEF PLCReadItem, ReadValue
    <2>2. /\ r[i].code = 255 /\ r[i].transport = ps[i].responseTransport
          /\ r[i].length = EncodedLength(ps[i]) /\ r[i].value = ReadValue(memory, Seen(ps[i]))
      BY <1>5 DEF ReadBlocks
    <2>3. /\ ReadValue(memory, Seen(ps[i])) \in Seq(Byte)
          /\ Len(ReadValue(memory, Seen(ps[i]))) = ps[i].dataBytes
      BY <1>1, ValueRead
    <2> QED BY <2>1, <2>2, <2>3 DEF Delivered
  <1> HIDE DEF r, vs
  <1>6. 0 \in Byte /\ 255 \in Byte /\ 4 \in Nat /\ 4 <= MaxUint16 /\ <<>> \in Seq(Byte)
    BY DEF Byte, MaxUint16
  <1>7. ASSUME NEW i \in 1..n
        PROVE  /\ r[i].code \in Byte /\ r[i].transport \in Byte /\ r[i].value \in Seq(Byte)
               /\ r[i].length \in Nat /\ r[i].length <= MaxUint16
    <2>1. /\ EncodedLength(ps[i]) \in Nat /\ ps[i].responseTransport \in Byte
          /\ EncodedLength(ps[i]) <= MaxUint16
      BY <1>1, DescriptorLength DEF GoodDescriptor
    <2>2. CASE i = 1 /\ code # 255
      BY <1>4, <1>6, <2>2, ZenonT(60)
    <2>3. CASE ~(i = 1 /\ code # 255)
      BY <1>5, <1>6, <2>1, <2>3
    <2> QED BY <2>2, <2>3
  <1>8. GoodAnswer(ps, r, n)
    <2>1. GoodBlocks(r, n)
      BY <1>1, <1>7 DEF GoodBlocks
    <2>2. \A i \in 1..n : Refused(r[i]) \/ Delivered(r[i], ps[i])
      BY <1>4, <1>5
    <2> QED BY <2>1, <2>2 DEF GoodAnswer
  <1> DEFINE Part(i) ==
        IF i = 1 /\ code # 255 THEN DataHeader(code, 0, 4)
        ELSE DataHeader(255, vs[i].transport, vs[i].length) \o PLCReadItem(vs[i])
             \o (IF i # Len(vs) /\ vs[i].dataBytes % 2 # 0 THEN <<0>> ELSE <<>>)
  <1>9. ASSUME NEW i \in 1..n
        PROVE  Part(i)
               = Block(r[i].code, r[i].transport, r[i].length, r[i].value, PaddedAt(r, n, i))
    <2>1. CASE i = 1 /\ code # 255
      <3> DEFINE h == DataHeader(code, 0, 4)
      <3>1. r[i].code = code /\ r[i].transport = 0 /\ r[i].length = 4 /\ r[i].value = <<>>
        BY <1>4, <2>1
      <3>2. h \in Seq(Byte)
        <4>1. Hi(4) \in Byte /\ Lo(4) \in Byte
          BY <1>6, WordBytes
        <4> QED BY <1>6, <4>1 DEF DataHeader
      <3>3. Padding(PaddedAt(r, n, i)) = <<>>
        <4>1. Len(<<>>) = 0 /\ 0 % 2 = 0
          OBVIOUS
        <4> QED BY <3>1, <4>1 DEF Padding, PaddedAt
      <3> HIDE DEF h
      <3>4. h \o <<>> \o <<>> = h
        <4>1. h \o <<>> = h
          BY <3>2, ConcatEmptySeq
        <4> QED BY <4>1
      <3>5. Block(r[i].code, r[i].transport, r[i].length, r[i].value, PaddedAt(r, n, i)) =
              h \o <<>> \o <<>>
        BY <3>1, <3>3 DEF Block, h
      <3>6. Part(i) = h
        BY <2>1 DEF h
      <3> QED BY <3>4, <3>5, <3>6
    <2>2. CASE ~(i = 1 /\ code # 255)
      <3>1. /\ r[i].code = 255 /\ r[i].transport = vs[i].transport /\ r[i].length = vs[i].length
            /\ r[i].value = PLCReadItem(vs[i]) /\ Len(r[i].value) = vs[i].dataBytes
        BY <1>3, <1>5, <2>2 DEF Delivered
      <3>2. (IF i # Len(vs) /\ vs[i].dataBytes % 2 # 0 THEN <<0>> ELSE <<>>)
              = Padding(PaddedAt(r, n, i))
        BY <1>2, <3>1 DEF Padding, PaddedAt
      <3>3. Part(i) = DataHeader(255, vs[i].transport, vs[i].length) \o PLCReadItem(vs[i])
             \o (IF i # Len(vs) /\ vs[i].dataBytes % 2 # 0 THEN <<0>> ELSE <<>>)
        BY <2>2
      <3> HIDE DEF Part
      <3> QED BY <3>1, <3>2, <3>3, Zenon DEF Block
    <2> QED BY <2>1, <2>2
  <1>10. PLCRead(vs, code) = FlattenSeq(Blocks(r, n))
    <2>1. PLCRead(vs, code) = FlattenSeq([i \in 1..n |-> Part(i)])
      BY <1>2 DEF PLCRead
    <2> HIDE DEF Part
    <2> QED BY <1>9, <2>1, Zenon DEF Blocks
  <1>11. \A i \in 1..n : r[i].code = CodeFor(i, code)
    BY <1>4, <1>5 DEF CodeFor
  <1> QED BY <1>8, <1>10, <1>11 DEF r, vs


-----------------------------------------------------------------------------
\* What the planner has checked

\* No item is larger than all of them together.
LEMMA PartOfData ==
    ASSUME NEW n \in Nat, NEW lens \in [1..n -> Nat]
    PROVE  ItemsDataSize(lens) \in Nat /\ \A i \in 1..n : lens[i] <= ItemsDataSize(lens)
  <1> DEFINE x == Totals(Sizes(lens), n)
  <1>1. lens \in Seq(Int) /\ Len(lens) = n /\ DOMAIN lens = 1..n
    OBVIOUS
  <1>2. Numbers(Sizes(lens), n) /\ ItemsDataSize(lens) = x[n]
    BY <1>1, SizesAreNumbers DEF Total
  <1>3. ASSUME NEW k \in 1..n PROVE Sizes(lens)[k] \in Nat /\ lens[k] <= Sizes(lens)[k]
    <2> DEFINE c == IF k # n /\ lens[k] % 2 # 0 THEN 1 ELSE 0
    <2>1. Sizes(lens)[k] = 4 + (lens[k] + c)
      BY <1>1 DEF Sizes, Padded, ItemDataHeaderSize
    <2>2. lens[k] \in Nat /\ c \in {0, 1}
      OBVIOUS
    <2> HIDE DEF c
    <2> QED BY <2>1, <2>2
  <1>4. x[0] = 0 /\ \A k \in 1..n : x[k] = x[k - 1] + Sizes(lens)[k]
    BY <1>2, TotalsStep
  <1> HIDE DEF x
  <1> DEFINE S == {k \in 0..n : x[k] \in Nat /\ \A i \in 1..k : lens[i] <= x[k]}
  <1>5. 0 \in S
    BY <1>4
  <1>6. ASSUME NEW k \in 1..n, k - 1 \in S PROVE k \in S
    <2>1. k \in 0..n /\ x[k - 1] \in Nat /\ \A i \in 1..(k - 1) : lens[i] <= x[k - 1]
      BY <1>6
    <2>2. x[k] = x[k - 1] + Sizes(lens)[k] /\ Sizes(lens)[k] \in Nat /\ lens[k] <= Sizes(lens)[k]
      BY <1>3, <1>4
    <2>3. x[k] \in Nat
      BY <2>1, <2>2
    <2>4. ASSUME NEW i \in 1..k PROVE lens[i] <= x[k]
      <3>1. CASE i = k
        <4>1. lens[k] \in Nat
          OBVIOUS
        <4> QED BY <2>1, <2>2, <3>1, <4>1
      <3>2. CASE i # k
        <4>1. i \in 1..(k - 1) /\ lens[i] \in Nat
          BY <3>2
        <4>2. lens[i] <= x[k - 1]
          BY <2>1, <4>1
        <4> QED BY <2>1, <2>2, <4>1, <4>2
      <3> QED BY <3>1, <3>2
    <2> QED BY <2>1, <2>3, <2>4
  <1>7. n \in S
    <2> HIDE DEF S
    <2>1. \A k \in 0..n : k \in S
      BY <1>5, <1>6, UpTo
    <2> QED BY <2>1
  <1> QED BY <1>2, <1>7

\* Lengths of items.
LEMMA ItemLengths ==
    ASSUME CallInv
    PROVE  /\ Len(items) \in Nat /\ DOMAIN items = 1..Len(items)
           /\ \A i \in 1..Len(items) :
                /\ items[i] \in ItemRecords /\ Length(items[i]) \in Nat
                /\ items[i].count \in Nat /\ items[i].count <= Length(items[i])
           /\ Lengths \in [1..Len(items) -> Nat]
           /\ \A i \in 1..Len(items) : Lengths[i] = Length(items[i])
  <1> DEFINE n == Len(items)
  <1>1. n \in Nat /\ DOMAIN items = 1..n /\ \A i \in 1..n : items[i] \in ItemRecords
    BY DEF CallInv
  <1>2. ASSUME NEW i \in 1..n
        PROVE  /\ Length(items[i]) \in Nat /\ items[i].count \in Nat
               /\ items[i].count <= Length(items[i])
    <2> DEFINE c == items[i].count
               w == Width(items[i].transport)
    <2>1. c \in Nat /\ items[i].transport \in Transports
      BY <1>1 DEF ItemRecords
    <2>2. w \in {1, 2, 4}
      BY <2>1, LayoutsAgree, WordLayouts
    <2>3. Length(items[i]) = c * w
      BY DEF Length
    <2> HIDE DEF c, w
    <2>4. c * w \in Nat /\ c <= c * w
      BY <2>1, <2>2
    <2> QED BY <2>1, <2>3, <2>4 DEF c
  <1>3. Lengths = [i \in 1..n |-> Length(items[i])]
    BY <1>1 DEF Lengths
  <1> HIDE DEF n
  <1>4. Lengths \in [1..n -> Nat]
    BY <1>2, <1>3
  <1>5. \A i \in 1..n : Lengths[i] = Length(items[i])
    BY <1>3
  <1> QED BY <1>1, <1>2, <1>4, <1>5 DEF n

LEMMA FrameRoom == PDU \in Nat /\ MaxFrameBytes \in Nat /\ PDU + 7 <= MaxFrameBytes
                   /\ MaxFrameBytes <= MaxUint16 /\ TPDU \in Nat /\ PDU + 3 <= TPDU
  BY WireAssumption, MaxWords

\* A payload that fits the PDU fits the TPDU too.
LEMMA WithinLimits ==
    ASSUME NEW frame, NEW payload, Payload(frame) = payload, Len(payload) \in Nat,
           Len(frame) = 7 + Len(payload), Len(payload) <= PDU
    PROVE  ~ExceedsLimits(frame)
  BY FrameRoom DEF ExceedsLimits, TPKTHeaderSize

\* Items that passed the validation and the planner are fit for the wire.
ItemsPass == \A i \in 1..Len(items) : ReadItemError(items[i], MaxItemBytes) = NoError
WordsPass ==
    \A i \in 1..Len(items) :
      items[i].count <= MaxUint16 /\ EncodedLength(ProtocolItem(items[i])) <= MaxUint16

LEMMA PlannedReads ==
    ASSUME CallInv, OneExchange, write = FALSE, ItemsPass
    PROVE  WordsPass
  <1> DEFINE n == Len(items)
             d == ItemsDataSize(Lengths)
  <1>1. ReadResponseSize(Lengths) <= PDU
        /\ \A i \in DOMAIN items :
             LengthInBits(items[i].transport) => Length(items[i]) <= MaxUint16 \div 8
    BY DEF OneExchange
  <1>2. d \in Nat /\ \A i \in 1..n : Lengths[i] <= d
    BY ItemLengths, PartOfData
  <1>3. ReadResponseSize(Lengths) = 14 + d
    BY <1>2 DEF ReadResponseSize, AckHeaderSize
  <1> HIDE DEF d
  <1>4. d <= MaxUint16 /\ MaxUint16 \in Nat
    BY <1>1, <1>2, <1>3, FrameRoom, MaxWords
  <1>5. ASSUME NEW i \in 1..n
        PROVE  items[i].count <= MaxUint16 /\ EncodedLength(ProtocolItem(items[i])) <= MaxUint16
    <2> DEFINE l == Length(items[i])
               p == ProtocolItem(items[i])
    <2>1. l \in Nat /\ l <= d /\ items[i].count \in Nat /\ items[i].count <= l
          /\ i \in DOMAIN items
      BY <1>2, ItemLengths
    <2>2. l <= MaxUint16 /\ items[i].count <= MaxUint16
      BY <1>2, <1>4, <2>1
    <2>3. p.lengthInBits => l * 8 <= MaxUint16
      <3>1. p.lengthInBits => l <= MaxUint16 \div 8
        BY <1>1, <2>1 DEF ProtocolItem
      <3>2. MaxUint16 \div 8 = 8191
        BY DEF MaxUint16
      <3> HIDE DEF l, p
      <3>3. l <= 8191 => l * 8 <= MaxUint16
        BY <2>1 DEF MaxUint16
      <3> QED BY <3>1, <3>2, <3>3
    <2>4. p.dataBytes = l /\ p.amount = items[i].count
      BY DEF ProtocolItem
    <2> HIDE DEF l, p
    <2>5. EncodedLength(p) <= MaxUint16
      BY <2>2, <2>3, <2>4 DEF EncodedLength
    <2> QED BY <2>2, <2>5 DEF p
  <1> QED BY <1>5 DEF WordsPass

LEMMA ItemsBecomeBatch ==
    ASSUME CallInv, Len(items) >= 1, OneExchange, ItemsPass, WordsPass
    PROVE  /\ GoodBatch(ProtocolItems, Len(items)) /\ \A i \in 1..Len(items) : GoodItem(items[i])
           /\ \A i \in 1..Len(items) :
                /\ ProtocolItems[i] = ProtocolItem(items[i])
                /\ ProtocolItems[i].dataBytes = Length(items[i])
  <1> DEFINE n == Len(items)
  <1>1. n \in Nat /\ DOMAIN items = 1..n /\ \A i \in 1..n : items[i] \in ItemRecords
    BY ItemLengths
  <1>2. \A i \in 1..n : GoodItem(items[i])
    BY <1>1 DEF GoodItem, ItemsPass, WordsPass
  <1>3. ProtocolItems = [i \in 1..n |-> ProtocolItem(items[i])]
    BY <1>1 DEF ProtocolItems
  <1>4. DOMAIN ProtocolItems = 1..n /\ Len(ProtocolItems) = n
        /\ \A i \in 1..n : ProtocolItems[i] = ProtocolItem(items[i])
    BY <1>1, <1>3
  <1>5. \A i \in 1..n : GoodDescriptor(ProtocolItem(items[i]))
                        /\ ProtocolItem(items[i]).dataBytes = Length(items[i])
    BY <1>2, ItemDescriptor
  <1>6. 1 <= n /\ n <= CompatibilityMaxItemsPerPDU
    BY <1>1 DEF OneExchange
  <1> QED BY <1>1, <1>2, <1>4, <1>5, <1>6 DEF GoodBatch


\* The request is the one the call asks for.
RequestOf ==
    WrapData(IF write THEN BuildWriteRequest(ProtocolItems, data)
                      ELSE BuildReadRequest(ProtocolItems))
GoodBytes(bytes) ==
    /\ DOMAIN bytes = 1..Len(items)
    /\ \A i \in 1..Len(items) :
         /\ bytes[i] \in Seq(Byte) /\ Len(bytes[i]) = Length(items[i])
         /\ write /\ items[i].transport = "bit" => bytes[i][1] \in {0, 1}
Sent == pc \in {"serve", "receive", "done"}
RequestInv ==
    /\ pc \in {"parse", "rejected", "build", "several", "serve", "receive", "done"}
    /\ ~Sent => request = <<>>
    /\ Sent => OneExchange /\ ItemsPass /\ WordsPass /\ GoodBytes(data) /\ request = RequestOf

LEMMA DataIsBytes ==
    ASSUME NEW item, Length(item) \in Nat, NEW first \in 0..2, NEW more \in {0, 1}
    PROVE  DataOf(item, first, more) \in Seq(Byte)
           /\ Len(DataOf(item, first, more)) = Length(item) + more
  <1> DEFINE f == DataOf(item, first, more)
             l == Length(item) + more
  <1>0. l \in Nat
    OBVIOUS
  <1>1. f = [k \in 1..l |-> (first + k - 1) % 256] /\ l \in Nat
    BY <1>0 DEF DataOf
  <1> HIDE DEF f, l
  <1>2. \A k \in 1..l : (first + k - 1) % 256 \in Byte
    <2> SUFFICES ASSUME NEW k \in 1..l PROVE (first + k - 1) % 256 \in Byte
      OBVIOUS
    <2> DEFINE x == first + k - 1
    <2>1. x \in Nat
      BY <1>1
    <2> HIDE DEF x
    <2>2. x % 256 \in Nat /\ x % 256 <= 255
      BY <2>1
    <2> QED BY <2>2, BytesAreNumbers DEF x
  <1>3. f \in [1..l -> Byte]
    BY <1>1, <1>2
  <1>4. f \in Seq(Byte) /\ Len(f) = l
    BY <1>0, <1>3
  <1> QED BY <1>4 DEF f, l

\* What validateWriteItem has made sure of.
LEMMA AcceptedWrite ==
    ASSUME NEW item, NEW bytes, WriteItemError(item, bytes, MaxItemBytes) = NoError
    PROVE  /\ ReadItemError(item, MaxItemBytes) = NoError
           /\ ~(item.count > MaxUint16) /\ ~(EncodedLength(ProtocolItem(item)) > MaxUint16)
           /\ Len(bytes) = Length(item)
           /\ item.transport = "bit" => ~(bytes[1] > 1)
  <1> HIDE DEF ReadItemError, EncodedLength, ProtocolItem, Length, MaxUint16
  <1> QED BY DEF WriteItemError, NoError

LEMMA GoodBatchBuilds ==
    ASSUME CallInv, Len(items) >= 1, OneExchange, ItemsPass, WordsPass,
           NEW bytes, GoodBytes(bytes)
    PROVE  ~BuildFails(ProtocolItems, bytes)
  <1> DEFINE n == Len(items)
             ps == ProtocolItems
  <1>1. GoodBatch(ps, n) /\ \A i \in 1..n : ps[i].dataBytes = Length(items[i])
    BY ItemsBecomeBatch
  <1> HIDE DEF ps, n
  <1>2. n \in Nat /\ 1 <= n /\ n <= 20 /\ DOMAIN ps = 1..n /\ Len(ps) = n
    BY <1>1 DEF GoodBatch, CompatibilityMaxItemsPerPDU
  <1>3. Len(ps) \in 1..255
    BY <1>2
  <1>4. ASSUME NEW i \in 1..n
        PROVE  /\ ps[i].amount # 0 /\ ~(ps[i].address > Max24) /\ ~(ps[i].dataBytes < 1)
               /\ ~(EncodedLength(ps[i]) > MaxUint16) /\ Len(bytes[i]) = ps[i].dataBytes
    <2> DEFINE p == ps[i]
    <2>1. GoodDescriptor(p)
      BY <1>1 DEF GoodBatch
    <2>2. /\ p.amount \in Nat /\ 1 <= p.amount /\ p.address \in Nat /\ p.address <= Max24
          /\ EncodedLength(p) <= MaxUint16 /\ EncodedLength(p) \in Nat
          /\ p.dataBytes \in Nat /\ 1 <= p.dataBytes
      BY <2>1, DescriptorLength DEF GoodDescriptor
    <2>3. Len(bytes[i]) = p.dataBytes
      BY <1>1 DEF GoodBytes, n
    <2> HIDE DEF p
    <2>4. /\ p.amount # 0 /\ ~(p.address > Max24) /\ ~(p.dataBytes < 1)
          /\ ~(EncodedLength(p) > MaxUint16)
      BY <2>2, MaxWords
    <2> QED BY <2>3, <2>4 DEF p
  <1>5. ~BuildFails(ps, bytes)
    BY <1>2, <1>3, <1>4 DEF BuildFails
  <1> QED BY <1>5 DEF ps

\* The call stays what it is once the request is sent.
LEMMA SameCall ==
    ASSUME items' = items, write' = write, data' = data
    PROVE  /\ (OneExchange' <=> OneExchange) /\ (ItemsPass' <=> ItemsPass)
           /\ (WordsPass' <=> WordsPass) /\ Lengths' = Lengths
           /\ ProtocolItems' = ProtocolItems /\ RequestOf' = RequestOf
           /\ (GoodBytes(data)' <=> GoodBytes(data))
  <1>1. Lengths' = Lengths /\ ProtocolItems' = ProtocolItems
    BY DEF Lengths, ProtocolItems
  <1>2. OneExchange' <=> OneExchange
    BY <1>1 DEF OneExchange
  <1>3. (ItemsPass' <=> ItemsPass) /\ (WordsPass' <=> WordsPass)
    BY DEF ItemsPass, WordsPass
  <1>4. RequestOf' = RequestOf
    BY <1>1, Zenon DEF RequestOf, BuildWriteRequest, BuildReadRequest
  <1>5. GoodBytes(data)' <=> GoodBytes(data)
    BY Zenon DEF GoodBytes
  <1> QED BY <1>1, <1>2, <1>3, <1>4, <1>5


LEMMA BuildKeepsRequest ==
    ASSUME CallInv, RequestInv, Build
    PROVE  RequestInv'
  <1> DEFINE n == Len(items)
             Bytes(first, more) == [i \in DOMAIN items |-> DataOf(items[i], first, more)]
  <1>1. PICK first \in IF write THEN 0..2 ELSE {0}, more \in IF write THEN {0, 1} ELSE {0} :
          IF \E i \in DOMAIN items : ItemError(i, Bytes(first, more)) # NoError
              THEN pc' = "rejected" /\ UNCHANGED <<data, request>>
            ELSE IF ~OneExchange
              THEN pc' = "several" /\ UNCHANGED <<data, request>>
            ELSE IF BuildFails(ProtocolItems, Bytes(first, more))
              THEN pc' = "impossible" /\ UNCHANGED <<data, request>>
            ELSE /\ pc' = "serve" /\ data' = Bytes(first, more)
                 /\ request' = WrapData(IF write
                                          THEN BuildWriteRequest(ProtocolItems, Bytes(first, more))
                                          ELSE BuildReadRequest(ProtocolItems))
    BY DEF Build
  <1>2. pc = "build" /\ items' = items /\ write' = write
    BY DEF Build
  <1>3. request = <<>> /\ n >= 1
    BY <1>2 DEF RequestInv, Sent, CallInv
  <1>4. /\ n \in Nat /\ DOMAIN items = 1..n
        /\ \A i \in 1..n : Length(items[i]) \in Nat /\ items[i].count \in Nat
    BY ItemLengths
  <1> DEFINE bytes == Bytes(first, more)
  <1>5. DOMAIN bytes = 1..n /\ \A i \in 1..n : bytes[i] = DataOf(items[i], first, more)
    BY <1>4
  <1>6. first \in 0..2 /\ more \in {0, 1} /\ (~write => more = 0) /\ write \in BOOLEAN
    BY DEF CallInv
  <1>7. \A i \in 1..n : bytes[i] \in Seq(Byte) /\ Len(bytes[i]) = Length(items[i]) + more
    BY <1>4, <1>5, <1>6, DataIsBytes
  <1> HIDE DEF bytes
  <1>8. CASE \E i \in DOMAIN items : ItemError(i, bytes) # NoError
    <2>1. pc' = "rejected" /\ request' = request
      BY <1>1, <1>8 DEF bytes
    <2> QED BY <1>3, <2>1 DEF RequestInv, Sent
  <1>9. CASE ~(\E i \in DOMAIN items : ItemError(i, bytes) # NoError) /\ ~OneExchange
    <2>1. pc' = "several" /\ request' = request
      BY <1>1, <1>9 DEF bytes
    <2> QED BY <1>3, <2>1 DEF RequestInv, Sent
  <1>10. CASE ~(\E i \in DOMAIN items : ItemError(i, bytes) # NoError) /\ OneExchange
    <2>1. \A i \in 1..n : ItemError(i, bytes) = NoError
      BY <1>4, <1>10
    <2>2. ASSUME write PROVE ItemsPass /\ WordsPass /\ GoodBytes(bytes)
      <3>1. ASSUME NEW i \in 1..n
            PROVE  /\ ReadItemError(items[i], MaxItemBytes) = NoError
                   /\ ~(items[i].count > MaxUint16)
                   /\ ~(EncodedLength(ProtocolItem(items[i])) > MaxUint16)
                   /\ Len(bytes[i]) = Length(items[i])
                   /\ items[i].transport = "bit" => ~(bytes[i][1] > 1)
        <4>1. WriteItemError(items[i], bytes[i], MaxItemBytes) = NoError
          BY <2>1, <2>2 DEF ItemError
        <4> QED BY <4>1, AcceptedWrite
      <3>2. ItemsPass
        BY <3>1 DEF ItemsPass, n
      <3>3. ASSUME NEW i \in 1..n
            PROVE  /\ items[i].count <= MaxUint16
                   /\ EncodedLength(ProtocolItem(items[i])) <= MaxUint16
        <4> DEFINE p == ProtocolItem(items[i])
        <4>1. p.amount \in Nat /\ p.dataBytes \in Nat
          BY <1>4 DEF ProtocolItem
        <4>2. EncodedLength(p) \in Nat
          <5> HIDE DEF p
          <5> QED BY <4>1 DEF EncodedLength
        <4> HIDE DEF p
        <4>3. ~(EncodedLength(p) > MaxUint16)
          BY <3>1 DEF p
        <4>4. EncodedLength(p) <= MaxUint16
          BY <4>2, <4>3, MaxWords
        <4>5. items[i].count <= MaxUint16
          BY <1>4, <3>1, MaxWords
        <4> QED BY <4>4, <4>5 DEF p
      <3>4. ASSUME NEW i \in 1..n, items[i].transport = "bit" PROVE bytes[i][1] \in {0, 1}
        <4>1. Len(bytes[i]) = Length(items[i]) /\ ~(bytes[i][1] > 1) /\ bytes[i] \in Seq(Byte)
          BY <1>7, <3>1, <3>4
        <4>2. Length(items[i]) >= 1
          <5>1. items[i].count # 0 /\ items[i] \in ItemRecords
            BY <3>1, ItemLengths DEF ReadItemError, NoError, n
          <5>2. items[i].count \in Nat /\ items[i].count <= Length(items[i])
                /\ Length(items[i]) \in Nat
            BY ItemLengths DEF n
          <5> QED BY <5>1, <5>2
        <4>3. bytes[i][1] \in Byte
          BY <1>4, <4>1, <4>2
        <4>4. bytes[i][1] \in Nat
          BY <4>3, BytesAreNumbers
        <4> QED BY <4>1, <4>4
      <3> QED BY <1>5, <1>7, <3>1, <3>2, <3>3, <3>4 DEF WordsPass, GoodBytes, n
    <2>3. ASSUME ~write PROVE ItemsPass /\ WordsPass /\ GoodBytes(bytes)
      <3>1. ItemsPass
        BY <2>1, <2>3 DEF ItemsPass, ItemError, n
      <3>2. write = FALSE
        BY <1>6, <2>3
      <3>3. WordsPass
        BY <1>10, <3>1, <3>2, PlannedReads
      <3>4. \A i \in 1..n : Len(bytes[i]) = Length(items[i])
        BY <1>4, <1>6, <1>7, <2>3
      <3> QED BY <1>5, <1>7, <2>3, <3>1, <3>3, <3>4 DEF GoodBytes, n
    <2>4. ItemsPass /\ WordsPass /\ GoodBytes(bytes)
      BY <2>2, <2>3
    <2>5. ~BuildFails(ProtocolItems, bytes)
      BY <1>3, <1>10, <2>4, GoodBatchBuilds
    <2>6. /\ pc' = "serve" /\ data' = bytes
          /\ request' = WrapData(IF write THEN BuildWriteRequest(ProtocolItems, bytes)
                                          ELSE BuildReadRequest(ProtocolItems))
      BY <1>1, <1>10, <2>5 DEF bytes
    <2>7. ProtocolItems' = ProtocolItems /\ Lengths' = Lengths
      BY <1>2 DEF ProtocolItems, Lengths
    <2>8. request' = RequestOf'
      BY <1>2, <2>6, <2>7, Zenon DEF RequestOf, BuildWriteRequest, BuildReadRequest
    <2>9. OneExchange' /\ ItemsPass' /\ WordsPass'
      BY <1>2, <1>10, <2>4, <2>7 DEF OneExchange, ItemsPass, WordsPass
    <2>10. GoodBytes(data)'
      BY <1>2, <2>4, <2>6, Zenon DEF GoodBytes
    <2> QED BY <2>6, <2>8, <2>9, <2>10 DEF RequestInv, Sent
  <1> QED BY <1>8, <1>9, <1>10


-----------------------------------------------------------------------------
\* The PLC takes the request as it was meant

BodyOf == IF write THEN WriteBody(ProtocolItems, data) ELSE <<>>
FunctionOf == IF write THEN 5 ELSE 4
PayloadOf == Job(JobParameters(FunctionOf, ProtocolItems), BodyOf)
PlannedRequestSize == IF write THEN WriteRequestSize(Lengths) ELSE ReadRequestSize(Len(items))

LEMMA WriteBodyPlanned ==
    ASSUME CallInv, Len(items) >= 1, OneExchange, ItemsPass, WordsPass, GoodBytes(data)
    PROVE  /\ GoodBatch(ProtocolItems, Len(items)) /\ GoodData(ProtocolItems, data, Len(items))
           /\ WriteBody(ProtocolItems, data) \in Seq(Byte)
           /\ Len(WriteBody(ProtocolItems, data)) = ItemsDataSize(Lengths)
  <1> DEFINE n == Len(items)
             ps == ProtocolItems
             r == WriteBlocks(ps, data, n)
             b == FlattenSeq(Blocks(r, n))
  <1>1. GoodBatch(ps, n) /\ \A i \in 1..n : ps[i].dataBytes = Length(items[i])
    BY ItemsBecomeBatch
  <1>2. GoodData(ps, data, n)
    BY <1>1 DEF GoodData, GoodBytes
  <1>3. Lengths \in [1..n -> Nat] /\ \A i \in 1..n : Lengths[i] = Length(items[i])
    BY ItemLengths
  <1>4. \A i \in 1..n : Len(data[i]) = Lengths[i]
    BY <1>3 DEF GoodBytes
  <1>5. \A i \in 1..n : r[i].value = data[i]
    BY DEF WriteBlocks
  <1> HIDE DEF n, ps
  <1>6. GoodBlocks(r, n) /\ WriteBody(ps, data) = b
    BY <1>1, <1>2, WriteBodyBlocks
  <1> HIDE DEF r
  <1>7. ValueLens(r, n) = Lengths
    BY <1>3, <1>4, <1>5 DEF ValueLens
  <1>8. b \in Seq(Byte) /\ Len(b) = ItemsDataSize(ValueLens(r, n))
    BY <1>6, BlocksLaid, Zenon
  <1> HIDE DEF b
  <1> QED BY <1>1, <1>2, <1>6, <1>7, <1>8 DEF n, ps

LEMMA RequestArrives ==
    ASSUME CallInv, Len(items) >= 1, OneExchange, ItemsPass, WordsPass, GoodBytes(data),
           request = RequestOf
    PROVE  /\ request = WrapData(PayloadOf) /\ Payload(request) = PayloadOf
           /\ ~ReadFrameFails(request) /\ ~UnwrapFails(request) /\ ~PLCRejects(PayloadOf)
           /\ JobParametersOf(PayloadOf)[1] = FunctionOf /\ JobBodyOf(PayloadOf) = BodyOf
           /\ PLCItems(PayloadOf) = SeenBatch(ProtocolItems, Len(items))
           /\ At16(PayloadOf, 5) = Reference
           /\ Len(PayloadOf) = PlannedRequestSize /\ Len(request) = 7 + Len(PayloadOf)
           /\ ~ExceedsLimits(request)
  <1> DEFINE n == Len(items)
             ps == ProtocolItems
             d == ItemsDataSize(Lengths)
             q == PayloadOf
  <1>1. GoodBatch(ps, n) /\ WriteBody(ps, data) \in Seq(Byte) /\ Len(WriteBody(ps, data)) = d
    BY WriteBodyPlanned
  <1>2. n \in Nat /\ 1 <= n /\ n <= 20
    BY <1>1 DEF GoodBatch, CompatibilityMaxItemsPerPDU
  <1>3. Lengths \in [1..n -> Nat] /\ Len(Lengths) = n
    BY <1>2, ItemLengths
  <1>4. d \in Nat
    BY <1>2, <1>3, PartOfData
  <1> HIDE DEF d, n, ps
  <1>5. WriteRequestSize(Lengths) = 12 + 12 * n + d /\ ReadRequestSize(n) = 12 + 12 * n
    <2>1. WriteRequestSize(Lengths) = 10 + 2 + 12 * Len(Lengths) + d
      BY DEF WriteRequestSize, JobHeaderSize, ItemSpecSize, d
    <2>2. ReadRequestSize(n) = 10 + 2 + 12 * n
      BY DEF ReadRequestSize, JobHeaderSize, ItemSpecSize
    <2> QED BY <1>2, <1>3, <1>4, <2>1, <2>2
  <1>6. PlannedRequestSize <= PDU
    BY DEF OneExchange, PlannedRequestSize
  <1>7. write \in BOOLEAN
    BY DEF CallInv
  <1>8. /\ FunctionOf \in {4, 5} /\ BodyOf \in Seq(Byte) /\ (FunctionOf = 4 => Len(BodyOf) = 0)
        /\ Len(BodyOf) \in Nat /\ PlannedRequestSize = 12 + 12 * n + Len(BodyOf)
    <2>1. CASE write
      <3>1. BodyOf = WriteBody(ps, data) /\ FunctionOf = 5
            /\ PlannedRequestSize = WriteRequestSize(Lengths)
        BY <2>1 DEF BodyOf, FunctionOf, PlannedRequestSize, ps
      <3> QED BY <1>1, <1>4, <1>5, <3>1
    <2>2. CASE ~write
      <3>1. BodyOf = <<>> /\ FunctionOf = 4 /\ PlannedRequestSize = ReadRequestSize(n)
        BY <2>2 DEF BodyOf, FunctionOf, PlannedRequestSize, n
      <3>2. BodyOf \in Seq(Byte) /\ Len(BodyOf) = 0
        BY <3>1
      <3> QED BY <1>2, <1>5, <3>1, <3>2
    <2> QED BY <2>1, <2>2
  <1>9. Len(BodyOf) <= MaxUint16
    <2> DEFINE l == Len(BodyOf)
               z == PlannedRequestSize
    <2>1. l \in Nat /\ z = 12 + 12 * n + l /\ z <= PDU
      BY <1>6, <1>8
    <2> HIDE DEF l, z
    <2>2. l <= MaxUint16
      BY <1>2, <2>1, FrameRoom, MaxWords
    <2> QED BY <2>2 DEF l
  <1>10. /\ q \in Seq(Byte) /\ Len(q) = 12 + 12 * n + Len(BodyOf)
         /\ ~PLCRejects(q) /\ At16(q, 5) = Reference
         /\ JobParametersOf(q)[1] = FunctionOf /\ JobBodyOf(q) = BodyOf
         /\ PLCItems(q) = SeenBatch(ps, n)
    <2> DEFINE f == FunctionOf
               b == BodyOf
    <2>1. f \in {4, 5} /\ b \in Seq(Byte) /\ Len(b) <= MaxUint16 /\ (f = 4 => Len(b) = 0)
      BY <1>8, <1>9
    <2>2. q = Job(JobParameters(f, ps), b)
      BY DEF PayloadOf, ps
    <2> HIDE DEF f, b, q
    <2>3. LET x == Job(JobParameters(f, ps), b)
          IN /\ x \in Seq(Byte) /\ Len(x) = 12 + 12 * n + Len(b)
             /\ ~PLCRejects(x) /\ At16(x, 5) = Reference
             /\ JobParametersOf(x)[1] = f /\ JobBodyOf(x) = b
             /\ PLCItems(x) = [i \in 1..n |-> Seen(ps[i])]
      BY <1>1, <2>1, RequestUnderstood
    <2> QED BY <2>2, <2>3, Zenon DEF f, b, SeenBatch
  <1> HIDE DEF q
  <1>11. Len(q) = PlannedRequestSize /\ 7 + Len(q) <= MaxFrameBytes
    <2>1. Len(q) = PlannedRequestSize /\ Len(q) \in Nat
      BY <1>8, <1>10
    <2> QED BY <1>6, <2>1, FrameRoom
  <1>12. request = WrapData(q)
    <2>1. CASE write
      BY <2>1, Zenon DEF RequestOf, q, PayloadOf, FunctionOf, BodyOf, BuildWriteRequest
    <2>2. CASE ~write
      BY <2>2, Zenon DEF RequestOf, q, PayloadOf, FunctionOf, BodyOf, BuildReadRequest
    <2> QED BY <2>1, <2>2
  <1>13. /\ Len(request) = 7 + Len(q) /\ ~ReadFrameFails(request)
         /\ ~UnwrapFails(request) /\ Payload(request) = q
    BY <1>10, <1>11, <1>12, FrameCarries
  <1>14. ~ExceedsLimits(request)
    <2>1. Len(q) \in Nat /\ Len(q) <= PDU
      BY <1>6, <1>10, <1>11
    <2> QED BY <1>13, <2>1, WithinLimits
  <1> QED BY <1>10, <1>11, <1>12, <1>13, <1>14 DEF q, n, ps


-----------------------------------------------------------------------------
\* The PLC's answer

Codes(n, code) == [i \in 1..n |-> CodeFor(i, code)]
AnswerBlocks(code) == ReadBlocks(memory, ProtocolItems, code, Len(items))
AnswerOf(code) ==
    IF write THEN Codes(Len(items), code) ELSE FlattenSeq(Blocks(AnswerBlocks(code), Len(items)))
ReplyOf(code) == Ack(Reference, <<FunctionOf, Len(items)>>, AnswerOf(code))
PlannedResponseSize == IF write THEN WriteResponseSize(Len(items)) ELSE ReadResponseSize(Lengths)

\* The memory after each item of a write.
WritesInto(ms, m, n, vs, bytes, code) ==
    /\ ms[0] = m
    /\ \A k \in 1..n : ms[k] = IF CodeFor(k, code) = 255
                                 THEN PLCWriteItem(ms[k - 1], vs[k], bytes[k]) ELSE ms[k - 1]

ReadyToServe ==
    /\ CallInv /\ Len(items) >= 1 /\ OneExchange /\ ItemsPass /\ WordsPass /\ GoodBytes(data)

LEMMA ServeAnswers ==
    ASSUME ReadyToServe, request = RequestOf, IsMemory(memory), Serve
    PROVE  /\ pc' = "receive" /\ refused' \in RejectCodes \cup {255}
           /\ reply' = ReplyOf(refused')
           /\ ~write => memory' = memory
           /\ write => \E ms : /\ WritesInto(ms, memory, Len(items),
                                             SeenBatch(ProtocolItems, Len(items)), data, refused')
                               /\ memory' = ms[Len(items)]
  <1> DEFINE n == Len(items)
             ps == ProtocolItems
             q == PayloadOf
             vs == SeenBatch(ps, n)
  <1>0. /\ CallInv /\ Len(items) >= 1 /\ OneExchange /\ ItemsPass /\ WordsPass /\ GoodBytes(data)
        /\ write \in BOOLEAN
    BY DEF ReadyToServe, CallInv
  <1>1. /\ Payload(request) = q /\ ~ExceedsLimits(request)
        /\ ~ReadFrameFails(request) /\ ~UnwrapFails(request) /\ ~PLCRejects(q)
        /\ JobParametersOf(q)[1] = FunctionOf /\ JobBodyOf(q) = BodyOf
        /\ PLCItems(q) = vs /\ At16(q, 5) = Reference
    BY <1>0, RequestArrives
  <1>2. GoodBatch(ps, n) /\ GoodData(ps, data, n)
    BY <1>0, WriteBodyPlanned
  <1>3. n \in Nat /\ Len(vs) = n
    BY <1>2 DEF GoodBatch, SeenBatch
  <1> HIDE DEF q, n, ps, vs
  <1>4. PICK code \in RejectCodes \cup {255} :
          IF FunctionOf = 5 /\ PLCWriteFails(vs, BodyOf, code)
              THEN pc' = "impossible" /\ UNCHANGED <<memory, reply, refused>>
              ELSE /\ pc' = "receive" /\ refused' = code
                   /\ IF FunctionOf = 4
                        THEN reply' = Ack(Reference, <<4, n>>, PLCRead(vs, code))
                             /\ UNCHANGED memory
                        ELSE reply' = Ack(Reference, <<5, n>>, PLCWrite(vs, BodyOf, code).codes)
                             /\ memory' = PLCWrite(vs, BodyOf, code).memory
    BY <1>1, <1>3, ZenonT(60) DEF Serve
  <1>5. code \in Byte
    <2>1. RejectCodes \subseteq 1..254
      BY WireAssumption
    <2>2. code \in Nat /\ code <= 255
      BY <2>1
    <2> QED BY <2>2, BytesAreNumbers
  <1>6. CASE write
    <2>1. FunctionOf = 5 /\ BodyOf = WriteBody(ps, data)
      BY <1>6 DEF FunctionOf, BodyOf, ps
    <2> DEFINE L == WriteLoop(vs, BodyOf, code)
               cs == PLCWrite(vs, BodyOf, code).codes
               ms == [k \in 0..n |-> L[k].memory]
    <2>2. /\ ~PLCWriteFails(vs, BodyOf, code)
          /\ L[0].memory = memory
          /\ \A k \in 1..n :
               L[k].memory = IF CodeFor(k, code) = 255
                                   THEN PLCWriteItem(L[k - 1].memory, vs[k], data[k])
                                   ELSE L[k - 1].memory
          /\ PLCWrite(vs, BodyOf, code).memory = L[n].memory
          /\ cs \in Seq(Byte) /\ Len(cs) = n /\ \A i \in 1..n : cs[i] = CodeFor(i, code)
      <3>1. /\ ~PLCWriteFails(vs, BodyOf, code)
            /\ WriteTaken(L, PLCWrite(vs, BodyOf, code), vs, data, code, n)
        BY <1>2, <1>5, <2>1, WriteServed DEF vs
      <3> QED BY <3>1 DEF WriteTaken
    <2> HIDE DEF L, cs
    <2>3. cs = Codes(n, code)
      <3>1. cs = [i \in 1..n |-> cs[i]]
        BY <2>2
      <3> QED BY <2>2, <3>1 DEF Codes
    <2>4. /\ pc' = "receive" /\ refused' = code /\ memory' = L[n].memory
          /\ reply' = Ack(Reference, <<5, n>>, cs)
      BY <1>4, <2>1, <2>2 DEF cs
    <2>5. reply' = ReplyOf(refused')
      BY <1>6, <2>1, <2>3, <2>4 DEF ReplyOf, AnswerOf, n
    <2>6. WritesInto(ms, memory, n, vs, data, code) /\ memory' = ms[n]
      <3>1. ms[0] = memory /\ \A k \in 0..n : ms[k] = L[k].memory
        BY <1>3, <2>2
      <3>2. \A k \in 1..n : k \in 0..n /\ k - 1 \in 0..n
        BY <1>3
      <3>3. n \in 0..n
        BY <1>3
      <3> HIDE DEF ms
      <3>4. \A k \in 1..n : ms[k] = IF CodeFor(k, code) = 255
                                 THEN PLCWriteItem(ms[k - 1], vs[k], data[k]) ELSE ms[k - 1]
        BY <2>2, <3>1, <3>2
      <3> QED BY <2>4, <3>1, <3>3, <3>4 DEF WritesInto
    <2> HIDE DEF ms
    <2> QED BY <1>4, <1>6, <2>4, <2>5, <2>6 DEF n, vs, ps
  <1>7. CASE ~write
    <2>1. FunctionOf = 4
      BY <1>7 DEF FunctionOf
    <2>2. /\ pc' = "receive" /\ refused' = code /\ memory' = memory
          /\ reply' = Ack(Reference, <<4, n>>, PLCRead(vs, code))
      BY <1>4, <2>1
    <2>3. PLCRead(vs, code) = FlattenSeq(Blocks(ReadBlocks(memory, ps, code, n), n))
      BY <1>2, <1>5, ReadServed DEF vs
    <2>4. reply' = ReplyOf(refused')
      BY <1>7, <2>1, <2>2, <2>3 DEF ReplyOf, AnswerOf, AnswerBlocks, n, ps
    <2> QED BY <1>4, <1>7, <2>2, <2>4
  <1> QED BY <1>6, <1>7

\* What the client can tell of an undamaged answer.
LEMMA AnswerFits ==
    ASSUME ReadyToServe, IsMemory(memory) \/ write, NEW code \in Byte
    PROVE  /\ <<FunctionOf, Len(items)>> \in Seq(Byte) /\ Len(<<FunctionOf, Len(items)>>) = 2
           /\ AnswerOf(code) \in Seq(Byte) /\ Len(AnswerOf(code)) <= MaxUint16
           /\ 14 + Len(AnswerOf(code)) + 7 <= MaxFrameBytes /\ 14 + Len(AnswerOf(code)) <= PDU
           /\ code = 255 => 14 + Len(AnswerOf(code)) = PlannedResponseSize
  <1> DEFINE n == Len(items)
             ps == ProtocolItems
             b == AnswerOf(code)
             d == ItemsDataSize(Lengths)
             r == AnswerBlocks(code)
  <1>0. /\ CallInv /\ Len(items) >= 1 /\ OneExchange /\ ItemsPass /\ WordsPass /\ GoodBytes(data)
        /\ write \in BOOLEAN
    BY DEF ReadyToServe, CallInv
  <1>1. GoodBatch(ps, n) /\ \A i \in 1..n : ps[i].dataBytes = Length(items[i])
    BY <1>0, ItemsBecomeBatch
  <1>2. n \in Nat /\ 1 <= n /\ n <= 20
    BY <1>1 DEF GoodBatch, CompatibilityMaxItemsPerPDU
  <1>3. Lengths \in [1..n -> Nat] /\ \A i \in 1..n : Lengths[i] = Length(items[i])
    BY <1>0, ItemLengths
  <1>4. d \in Nat
    BY <1>2, <1>3, PartOfData
  <1> HIDE DEF n, ps, d
  <1>5. <<FunctionOf, n>> \in Seq(Byte) /\ Len(<<FunctionOf, n>>) = 2
    <2>1. FunctionOf \in Nat /\ FunctionOf <= 255
      BY DEF FunctionOf
    <2>2. FunctionOf \in Byte /\ n \in Byte
      BY <1>2, <2>1, BytesAreNumbers
    <2> QED BY <2>2
  <1>6. PlannedResponseSize <= PDU
    BY <1>0 DEF OneExchange, PlannedResponseSize, Lengths
  <1>7. /\ b \in Seq(Byte) /\ Len(b) \in Nat /\ 14 + Len(b) <= PlannedResponseSize
        /\ code = 255 => 14 + Len(b) = PlannedResponseSize
        /\ PlannedResponseSize \in Nat
    <2>1. CASE write
      <3>1. b = Codes(n, code) /\ PlannedResponseSize = 12 + 2 + n
        BY <2>1 DEF AnswerOf, PlannedResponseSize, WriteResponseSize, AckHeaderSize, n
      <3>2. \A i \in 1..n : CodeFor(i, code) \in Byte
        <4>1. 255 \in Byte
          BY DEF Byte
        <4> QED BY <4>1 DEF CodeFor
      <3>3. b \in [1..n -> Byte]
        BY <3>1, <3>2 DEF Codes
      <3> HIDE DEF b
      <3>4. b \in Seq(Byte) /\ Len(b) = n
        BY <1>2, <3>3
      <3> QED BY <1>2, <3>1, <3>4
    <2>2. CASE ~write
      <3>1. b = FlattenSeq(Blocks(r, n)) /\ PlannedResponseSize = 14 + d
        BY <1>4, <2>2 DEF AnswerOf, PlannedResponseSize, ReadResponseSize, AckHeaderSize, n, d
      <3>2. GoodAnswer(ps, r, n) /\ \A i \in 1..n : r[i].code = CodeFor(i, code)
        BY <1>1, <2>2, ReadServed DEF AnswerBlocks, ps, n
      <3> HIDE DEF r, b
      <3>3. GoodBlocks(r, n)
        BY <3>2 DEF GoodAnswer
      <3>4. b \in Seq(Byte) /\ Len(b) = ItemsDataSize(ValueLens(r, n))
        BY <3>1, <3>3, BlocksLaid, Zenon
      <3>5. ASSUME NEW i \in 1..n
            PROVE  /\ Len(r[i].value) \in Nat
                   /\ Len(r[i].value) = Lengths[i] \/ Len(r[i].value) = 0
                   /\ code = 255 => Len(r[i].value) = Lengths[i]
        <4>1. r[i].value \in Seq(Byte)
          BY <3>3 DEF GoodBlocks
        <4>2. CASE Refused(r[i])
          <5>1. Len(r[i].value) = 0 /\ r[i].code # 255
            BY <4>2 DEF Refused
          <5>2. code = 255 => r[i].code = 255
            BY <3>2 DEF CodeFor
          <5> QED BY <5>1, <5>2
        <4>3. CASE Delivered(r[i], ps[i])
          BY <1>1, <1>3, <4>1, <4>3 DEF Delivered
        <4> QED BY <3>2, <4>2, <4>3 DEF GoodAnswer
      <3> DEFINE a == ValueLens(r, n)
      <3>6. a = [i \in 1..n |-> Len(r[i].value)]
        BY DEF ValueLens
      <3> HIDE DEF a
      <3>7. a \in [1..n -> Nat] /\ \A i \in 1..n : a[i] = Lengths[i] \/ a[i] = 0
        BY <3>5, <3>6
      <3>8. ItemsDataSize(a) <= d /\ ItemsDataSize(a) \in Int
        BY <1>2, <1>3, <3>7, SmallerData DEF d
      <3>9. code = 255 => a = Lengths
        BY <1>3, <3>5, <3>6
      <3>10. Len(b) = ItemsDataSize(a) /\ Len(b) \in Nat
        BY <3>4 DEF a
      <3>11. code = 255 => Len(b) = d
        BY <3>9, <3>10 DEF d
      <3> QED BY <1>4, <3>1, <3>4, <3>8, <3>10, <3>11
    <2> QED BY <2>1, <2>2
  <1> HIDE DEF b
  <1>8. Len(b) <= MaxUint16 /\ 14 + Len(b) + 7 <= MaxFrameBytes /\ 14 + Len(b) <= PDU
    <2> DEFINE l == Len(b)
               z == PlannedResponseSize
    <2>1. l \in Nat /\ z \in Nat /\ 14 + l <= z /\ z <= PDU
      BY <1>6, <1>7
    <2> HIDE DEF l, z
    <2>2. l <= MaxUint16 /\ 14 + l + 7 <= MaxFrameBytes /\ 14 + l <= PDU
      BY <2>1, FrameRoom, MaxWords
    <2> QED BY <2>2 DEF l
  <1> QED BY <1>5, <1>7, <1>8 DEF b, n


-----------------------------------------------------------------------------
\* The inductive invariant

Answered == pc \in {"receive", "done"}
ServedInv ==
    /\ IsMemory(before) /\ damaged \in BOOLEAN
    /\ ~Answered => memory = before /\ ~damaged
    /\ Answered =>
         /\ refused \in RejectCodes \cup {255} /\ reply \in Seq(Byte)
         /\ ~write => memory = before
         /\ write => \E ms : /\ WritesInto(ms, before, Len(items),
                                           SeenBatch(ProtocolItems, Len(items)), data, refused)
                             /\ memory = ms[Len(items)]
         /\ ~damaged => reply = ReplyOf(refused)

\* What the client makes of the answer.
ResultOf ==
    LET frame == Frame(reply)
        payload == Payload(frame)
    IN IF ReadFrameFails(reply) THEN [error |-> "transport", items |-> <<>>]
       ELSE IF ExceedsLimits(frame) \/ UnwrapFails(frame) \/ AckFails(payload) THEN Malformed
       ELSE IF GlobalCode(payload) # 0 THEN [error |-> "plc", items |-> <<>>]
       ELSE IF write THEN ParseWriteResponse(payload, ProtocolItems)
       ELSE ParseReadResponse(payload, ProtocolItems)
ResultInv == pc = "done" => result = ResultOf

WireInv == CallInv /\ RequestInv /\ ServedInv /\ ResultInv

LEMMA CodesAreBytes == \A code \in RejectCodes \cup {255} : code \in Byte
  <1> SUFFICES ASSUME NEW code \in RejectCodes \cup {255} PROVE code \in Byte
    OBVIOUS
  <1>1. RejectCodes \subseteq 1..254
    BY WireAssumption
  <1>2. code \in Nat /\ code <= 255
    BY <1>1
  <1> QED BY <1>2, BytesAreNumbers

LEMMA SentIsReady ==
    ASSUME CallInv, RequestInv, Sent
    PROVE  ReadyToServe /\ request = RequestOf
  BY DEF CallInv, RequestInv, Sent, ReadyToServe

\* The frame that carries an undamaged answer.
LEMMA ReplyArrives ==
    ASSUME ReadyToServe, IsMemory(memory) \/ write, NEW code \in Byte
    PROVE  LET a == <<FunctionOf, Len(items)>>
               q == AckPayload(a, AnswerOf(code))
           IN /\ ReplyOf(code) = WrapData(q) /\ ReplyOf(code) \in Seq(Byte)
              /\ q \in Seq(Byte) /\ Len(q) = 14 + Len(AnswerOf(code))
              /\ ~ReadFrameFails(ReplyOf(code)) /\ Frame(ReplyOf(code)) = ReplyOf(code)
              /\ ~UnwrapFails(ReplyOf(code)) /\ Payload(ReplyOf(code)) = q
              /\ ~ExceedsLimits(ReplyOf(code))
              /\ ~AckFails(q) /\ GlobalCode(q) = 0
              /\ AckParameters(q) = a /\ AckData(q) = AnswerOf(code)
  <1> DEFINE a == <<FunctionOf, Len(items)>>
             b == AnswerOf(code)
             q == AckPayload(a, b)
  <1>1. /\ a \in Seq(Byte) /\ Len(a) = 2 /\ b \in Seq(Byte) /\ Len(b) <= MaxUint16
        /\ 14 + Len(b) + 7 <= MaxFrameBytes /\ 14 + Len(b) <= PDU
    BY AnswerFits
  <1>2. Len(a) <= MaxUint16
    BY <1>1 DEF MaxUint16
  <1>3. ReplyOf(code) = Ack(Reference, a, b)
    BY DEF ReplyOf
  <1> HIDE DEF a, b
  <1>4. /\ Ack(Reference, a, b) = WrapData(q)
        /\ q \in Seq(Byte) /\ Len(q) = 12 + Len(a) + Len(b)
        /\ ~AckFails(q) /\ GlobalCode(q) = 0
        /\ AckParameters(q) = a /\ AckData(q) = b
    BY <1>1, <1>2, AckCarries
  <1> HIDE DEF q
  <1>5. Len(q) = 14 + Len(b) /\ 7 + Len(q) <= MaxFrameBytes /\ Len(q) <= PDU
    <2>1. Len(b) \in Nat
      BY <1>1
    <2> QED BY <1>1, <1>4, <2>1, FrameRoom
  <1> DEFINE f == WrapData(q)
  <1>6. /\ f \in Seq(Byte) /\ ~ReadFrameFails(f) /\ Frame(f) = f /\ ~UnwrapFails(f)
        /\ Payload(f) = q /\ Len(f) = 7 + Len(q)
    BY <1>4, <1>5, FrameCarries
  <1> HIDE DEF f
  <1>7. ~ExceedsLimits(f)
    <2>1. Len(q) \in Nat
      BY <1>4
    <2> QED BY <1>5, <1>6, <2>1, WithinLimits
  <1>8. ReplyOf(code) = f
    BY <1>3, <1>4 DEF f
  <1> QED BY <1>4, <1>5, <1>6, <1>7, <1>8, Zenon DEF a, b, q, f

LEMMA DamagedIsBytes ==
    ASSUME reply \in Seq(Byte), DamageReply
    PROVE  reply' \in Seq(Byte)
  <1>0. Damage \subseteq Byte
    BY WireAssumption
  <1>1. PICK k \in DOMAIN reply :
         \/ \E b \in Damage \ {reply[k]} : reply' = [reply EXCEPT ![k] = b]
         \/ \E b \in Damage : reply' = InsertAt(reply, k, b)
         \/ reply' = RemoveAt(reply, k)
    BY DEF DamageReply
  <1>2. k \in 1..Len(reply) /\ Len(reply) \in Nat
    OBVIOUS
  <1> DEFINE front == SubSeq(reply, 1, k - 1)
             here == SubSeq(reply, k, Len(reply))
             back == SubSeq(reply, k + 1, Len(reply))
  <1>3. front \in Seq(Byte) /\ here \in Seq(Byte) /\ back \in Seq(Byte)
    BY <1>2
  <1>4. CASE \E b \in Damage \ {reply[k]} : reply' = [reply EXCEPT ![k] = b]
    BY <1>0, <1>2, <1>4
  <1>5. ASSUME NEW b \in Damage, reply' = InsertAt(reply, k, b) PROVE reply' \in Seq(Byte)
    <2>1. <<b>> \in Seq(Byte)
      BY <1>0
    <2>2. reply' = front \o <<b>> \o here
      BY <1>5 DEF InsertAt
    <2> HIDE DEF front, here
    <2> QED BY <1>3, <2>1, <2>2
  <1>6. CASE reply' = RemoveAt(reply, k)
    <2>1. reply' = front \o back
      BY <1>6 DEF RemoveAt
    <2> HIDE DEF front, back
    <2> QED BY <1>3, <2>1
  <1> QED BY <1>1, <1>4, <1>5, <1>6


LEMMA WireStarts == Init => WireInv
  <1> SUFFICES ASSUME Init PROVE WireInv
    OBVIOUS
  <1>1. CallInv
    BY CallStarts
  <1>2. pc = "parse" /\ request = <<>> /\ memory \in Memories /\ before = memory
        /\ damaged = FALSE
    BY DEF Init
  <1>3. IsMemory(before)
    <2>1. \A m \in Memories : IsMemory(m)
      BY WireAssumption
    <2> QED BY <1>2, <2>1
  <1> QED BY <1>1, <1>2, <1>3 DEF WireInv, RequestInv, Sent, ServedInv, Answered, ResultInv

LEMMA RequestKept ==
    ASSUME CallInv, RequestInv, Next
    PROVE  Build \/ Serve \/ RequestInv'
  <1>1. CASE Parse
    <2>1. pc = "parse" /\ request' = request /\ pc' \in {"rejected", "build"}
      BY <1>1 DEF Parse
    <2> QED BY <2>1 DEF RequestInv, Sent
  <1>2. CASE DamageReply
    <2>1. pc' = pc /\ request' = request /\ items' = items /\ write' = write /\ data' = data
      BY <1>2 DEF DamageReply, callVars
    <2> QED BY <2>1, SameCall DEF RequestInv, Sent
  <1>3. CASE Receive
    <2>1. /\ pc = "receive" /\ pc' = "done" /\ request' = request /\ items' = items
          /\ write' = write /\ data' = data
      BY <1>3 DEF Receive, callVars
    <2> QED BY <2>1, SameCall DEF RequestInv, Sent
  <1> QED BY <1>1, <1>2, <1>3 DEF Next

\* What a state says about the answer only depends on the call and on memory.
LEMMA SameAnswer ==
    ASSUME items' = items, write' = write, data' = data, refused' = refused, memory' = memory
    PROVE  ReplyOf(refused)' = ReplyOf(refused)
  <1>1. ProtocolItems' = ProtocolItems /\ FunctionOf' = FunctionOf
    BY SameCall DEF FunctionOf
  <1> QED BY <1>1, Zenon DEF ReplyOf, AnswerOf, AnswerBlocks

LEMMA WireServeStep ==
    ASSUME WireInv, Serve
    PROVE  WireInv'
  <1> DEFINE n == Len(items)
             vs == SeenBatch(ProtocolItems, n)
  <1>1. /\ pc = "serve" /\ items' = items /\ write' = write /\ data' = data
        /\ request' = request /\ before' = before /\ damaged' = damaged
    BY DEF Serve, callVars
  <1>2. CallInv /\ RequestInv /\ IsMemory(before) /\ memory = before /\ ~damaged
        /\ damaged \in BOOLEAN /\ write \in BOOLEAN
    BY <1>1 DEF WireInv, ServedInv, Answered, CallInv
  <1>3. ReadyToServe /\ request = RequestOf
    BY <1>1, <1>2, SentIsReady DEF Sent
  <1>4. /\ pc' = "receive" /\ refused' \in RejectCodes \cup {255}
        /\ reply' = ReplyOf(refused')
        /\ ~write => memory' = memory
        /\ write => \E ms : WritesInto(ms, memory, n, vs, data, refused') /\ memory' = ms[n]
    BY <1>2, <1>3, ServeAnswers
  <1>5. CallInv'
    BY <1>2, CallKept DEF Next
  <1>6. RequestInv'
    BY <1>1, <1>2, <1>4, SameCall DEF RequestInv, Sent
  <1>7. reply' \in Seq(Byte)
    <2> DEFINE code == refused'
    <2>1. code \in Byte
      BY <1>4, CodesAreBytes
    <2>2. reply' = ReplyOf(code)
      BY <1>4
    <2> HIDE DEF code
    <2>3. ReplyOf(code) \in Seq(Byte)
      BY <1>2, <1>3, <2>1, ReplyArrives
    <2> QED BY <2>2, <2>3
  <1>8. ProtocolItems' = ProtocolItems /\ FunctionOf' = FunctionOf
    BY <1>1, SameCall DEF FunctionOf
  <1>9. reply' = ReplyOf(refused)'
    <2>1. CASE write
      <3>1. reply' = Ack(Reference, <<FunctionOf, n>>, Codes(n, refused'))
        BY <1>4, <2>1 DEF ReplyOf, AnswerOf
      <3> QED BY <1>1, <1>8, <2>1, <3>1, Zenon DEF ReplyOf, AnswerOf
    <2>2. CASE ~write
      <3>1. memory' = memory
        BY <1>4, <2>2
      <3>2. reply' = Ack(Reference, <<FunctionOf, n>>,
                         FlattenSeq(Blocks(ReadBlocks(memory, ProtocolItems, refused', n), n)))
        BY <1>4, <2>2 DEF ReplyOf, AnswerOf, AnswerBlocks
      <3> QED BY <1>1, <1>8, <2>2, <3>1, <3>2, Zenon DEF ReplyOf, AnswerOf, AnswerBlocks
    <2> QED BY <2>1, <2>2
  <1>10. ServedInv'
    <2>1. Answered' /\ IsMemory(before)' /\ (damaged \in BOOLEAN)'
      BY <1>1, <1>2, <1>4 DEF Answered
    <2>2. ~write' => memory' = before'
      BY <1>1, <1>2, <1>4
    <2>3. write' => \E ms : WritesInto(ms, before', Len(items'),
                                       SeenBatch(ProtocolItems', Len(items')), data', refused')
                            /\ memory' = ms[Len(items')]
      BY <1>1, <1>2, <1>4, <1>8
    <2> QED BY <1>4, <1>7, <1>9, <2>1, <2>2, <2>3 DEF ServedInv
  <1> QED BY <1>4, <1>5, <1>6, <1>10 DEF WireInv, ResultInv

LEMMA WireKept ==
    ASSUME WireInv, [Next]_vars
    PROVE  WireInv'
  <1>0. CallInv /\ RequestInv /\ ServedInv /\ ResultInv /\ CallInv'
    BY CallKept DEF WireInv
  <1>1. CASE Parse
    <2>1. /\ pc = "parse" /\ pc' \in {"rejected", "build"}
          /\ memory' = memory /\ before' = before /\ damaged' = damaged
      BY <1>1 DEF Parse
    <2>2. RequestInv'
      BY <1>0, <1>1, <2>1, RequestKept DEF Next, Build, Serve
    <2> QED BY <1>0, <2>1, <2>2 DEF WireInv, ServedInv, Answered, ResultInv
  <1>2. CASE Build
    <2>1. /\ pc = "build" /\ memory' = memory /\ before' = before /\ damaged' = damaged
      BY <1>2 DEF Build
    <2>2. RequestInv'
      BY <1>0, <1>2, BuildKeepsRequest
    <2>3. pc' \notin {"receive", "done"}
      BY <1>2 DEF Build
    <2> QED BY <1>0, <2>1, <2>2, <2>3 DEF WireInv, ServedInv, Answered, ResultInv
  <1>3. CASE Serve
    BY <1>3, WireServeStep
  <1>4. CASE DamageReply
    <2>1. /\ pc = "receive" /\ pc' = pc /\ items' = items /\ write' = write /\ data' = data
          /\ memory' = memory /\ before' = before /\ damaged' = TRUE /\ refused' = refused
      BY <1>4 DEF DamageReply, callVars
    <2>2. RequestInv'
      BY <1>0, <1>4, <2>1, RequestKept DEF Next, Build, Serve
    <2>3. reply' \in Seq(Byte)
      BY <1>0, <1>4, <2>1, DamagedIsBytes DEF ServedInv, Answered
    <2>4. ProtocolItems' = ProtocolItems
      BY <2>1, SameCall
    <2>5. ServedInv'
      BY <1>0, <2>1, <2>3, <2>4 DEF ServedInv, Answered
    <2> QED BY <1>0, <2>1, <2>2, <2>5 DEF WireInv, ResultInv
  <1>5. CASE Receive
    <2>1. /\ pc = "receive" /\ pc' = "done" /\ items' = items /\ write' = write /\ data' = data
          /\ memory' = memory /\ before' = before /\ damaged' = damaged /\ refused' = refused
          /\ reply' = reply
      BY <1>5 DEF Receive, callVars
    <2>2. RequestInv'
      BY <1>0, <1>5, <2>1, RequestKept DEF Next, Build, Serve
    <2>3. ProtocolItems' = ProtocolItems /\ ReplyOf(refused)' = ReplyOf(refused)
      BY <2>1, SameCall, SameAnswer
    <2>4. ServedInv'
      BY <1>0, <2>1, <2>3 DEF ServedInv, Answered
    <2>5. result' = ResultOf
      BY <1>5 DEF Receive, ResultOf
    <2>6. ResultOf' = ResultOf
      BY <2>1, <2>3, Zenon DEF ResultOf
    <2> QED BY <1>0, <2>1, <2>2, <2>4, <2>5, <2>6 DEF WireInv, ResultInv
  <1>6. CASE UNCHANGED vars
    <2>1. /\ pc' = pc /\ items' = items /\ write' = write /\ data' = data /\ request' = request
          /\ memory' = memory /\ before' = before /\ damaged' = damaged /\ refused' = refused
          /\ reply' = reply /\ result' = result
      BY <1>6 DEF vars, callVars
    <2>2. ProtocolItems' = ProtocolItems /\ ReplyOf(refused)' = ReplyOf(refused)
      BY <2>1, SameCall, SameAnswer
    <2>3. RequestInv'
      BY <1>0, <2>1, SameCall DEF RequestInv, Sent
    <2>4. ServedInv'
      BY <1>0, <2>1, <2>2 DEF ServedInv, Answered
    <2>5. ResultOf' = ResultOf
      BY <2>1, <2>2, Zenon DEF ResultOf
    <2> QED BY <1>0, <2>1, <2>3, <2>4, <2>5 DEF WireInv, ResultInv
  <1> QED BY <1>1, <1>2, <1>3, <1>4, <1>5, <1>6 DEF Next

\* The inductive invariant: the request on the wire is the encoding of items that passed
\* validation, the memory is what handleWrite's rounds make of it, the answer is the
\* encoding of what was read or refused until it is damaged, and the result is what the
\* client's parsers make of the bytes it received.
THEOREM WireIsSound == Spec => []WireInv
  <1> QED BY WireStarts, WireKept, PTL DEF Spec


\* For every call, size and memory: the builder and the PLC accept what the validation
\* accepts, and the planners' sizes are those of the frames.
THEOREM WireSizes == Spec => []SizesAreAsPlanned
  <1>1. WireInv => SizesAreAsPlanned
    <2> SUFFICES ASSUME WireInv PROVE SizesAreAsPlanned
      OBVIOUS
    <2>0. CallInv /\ RequestInv /\ ServedInv /\ pc # "impossible"
      BY DEF WireInv, RequestInv
    <2> DEFINE sent == [i \in DOMAIN data |-> Len(data[i])]
    <2>1. ASSUME request # <<>>
          PROVE  Len(Payload(request)) = IF write THEN WriteRequestSize(sent)
                                                  ELSE ReadRequestSize(Len(items))
      <3>1. Sent
        BY <2>0, <2>1 DEF RequestInv
      <3>2. ReadyToServe /\ request = RequestOf
        BY <2>0, <3>1, SentIsReady
      <3>3. Len(Payload(request)) = PlannedRequestSize
        BY <3>2, RequestArrives DEF ReadyToServe
      <3>4. sent = Lengths
        <4>1. DOMAIN data = 1..Len(items) /\ \A i \in 1..Len(items) : Len(data[i]) = Length(items[i])
          BY <3>2 DEF ReadyToServe, GoodBytes
        <4>2. DOMAIN items = 1..Len(items)
          BY <2>0, ItemLengths
        <4> QED BY <4>1, <4>2 DEF Lengths
      <3> HIDE DEF sent
      <3> QED BY <3>3, <3>4 DEF PlannedRequestSize
    <2>2. ASSUME pc \in {"receive", "done"}, ~damaged, refused = 255
          PROVE  Len(Payload(reply)) = IF write THEN WriteResponseSize(Len(items))
                                                ELSE ReadResponseSize(Lengths)
      <3>1. Sent /\ Answered
        BY <2>2 DEF Sent, Answered
      <3>2. ReadyToServe
        BY <2>0, <3>1, SentIsReady
      <3>3. reply = ReplyOf(255) /\ (IsMemory(memory) \/ write)
        BY <2>0, <2>2, <3>1 DEF ServedInv
      <3>4. 255 \in Byte
        BY DEF Byte
      <3> DEFINE q == AckPayload(<<FunctionOf, Len(items)>>, AnswerOf(255))
      <3>5. Len(q) = 14 + Len(AnswerOf(255)) /\ Payload(ReplyOf(255)) = q
        BY <3>2, <3>3, <3>4, ReplyArrives, ZenonT(60)
      <3>6. 14 + Len(AnswerOf(255)) = PlannedResponseSize
        BY <3>2, <3>3, <3>4, AnswerFits
      <3> HIDE DEF q
      <3> QED BY <3>3, <3>5, <3>6 DEF PlannedResponseSize
    <2>3. Lengths = [i \in DOMAIN items |-> Length(items[i])]
      BY DEF Lengths
    <2> HIDE DEF sent
    <2> QED BY <2>0, <2>1, <2>2, <2>3, Zenon DEF SizesAreAsPlanned, sent
  <1> QED BY <1>1, WireIsSound, PTL


-----------------------------------------------------------------------------
\* The result of an undamaged exchange

LEMMA ResultIs ==
    ASSUME WireInv, pc = "done", ~damaged
    PROVE  /\ result.error = NoError /\ Len(result.items) = Len(items)
           /\ \A i \in 1..Len(items) :
                /\ result.items[i].code = CodeFor(i, refused)
                /\ ~write => result.items[i].data = AnswerBlocks(refused)[i].value
  <1> DEFINE n == Len(items)
             ps == ProtocolItems
             a == <<FunctionOf, n>>
             b == AnswerOf(refused)
             q == AckPayload(a, b)
             r == AnswerBlocks(refused)
  <1>1. CallInv /\ RequestInv /\ ServedInv /\ Sent /\ Answered /\ result = ResultOf
        /\ write \in BOOLEAN
    BY DEF WireInv, Sent, Answered, ResultInv, CallInv
  <1>2. ReadyToServe
    BY <1>1, SentIsReady
  <1>3. reply = ReplyOf(refused) /\ (IsMemory(memory) \/ write) /\ refused \in RejectCodes \cup {255}
    BY <1>1 DEF ServedInv
  <1>4. refused \in Byte
    BY <1>3, CodesAreBytes
  <1>5. /\ ~ReadFrameFails(reply) /\ Frame(reply) = reply /\ ~UnwrapFails(reply)
        /\ ~ExceedsLimits(reply) /\ Payload(reply) = q /\ ~AckFails(q) /\ GlobalCode(q) = 0
        /\ AckParameters(q) = a /\ AckData(q) = b
    BY <1>2, <1>3, <1>4, ReplyArrives
  <1>6. GoodBatch(ps, n)
    BY <1>2, ItemsBecomeBatch DEF ReadyToServe
  <1>7. n \in Nat /\ DOMAIN ps = 1..n /\ Len(ps) = n
    BY <1>6 DEF GoodBatch
  <1> HIDE DEF n, ps, q
  <1>8. result = IF write THEN ParseWriteResponse(q, ps) ELSE ParseReadResponse(q, ps)
    BY <1>1, <1>5 DEF ResultOf, ps
  <1>9. CASE write
    <2>1. a = <<5, Len(ps)>> /\ b = Codes(n, refused)
      BY <1>7, <1>9 DEF FunctionOf, AnswerOf, n
    <2>2. Len(b) = n /\ \A i \in 1..n : b[i] = CodeFor(i, refused)
      BY <1>7, <2>1 DEF Codes
    <2> HIDE DEF a, b
    <2>3. result = [error |-> NoError,
                    items |-> [i \in 1..n |-> [code |-> b[i], data |-> <<>>]]]
      BY <1>5, <1>7, <1>8, <1>9, <2>1, <2>2 DEF ParseWriteResponse
    <2> QED BY <1>7, <1>9, <2>2, <2>3 DEF n
  <1>10. CASE ~write
    <2>1. a = <<4, Len(ps)>> /\ b = FlattenSeq(Blocks(r, n))
      BY <1>7, <1>10 DEF FunctionOf, AnswerOf, n
    <2>2. GoodAnswer(ps, r, n) /\ \A i \in 1..n : r[i].code = CodeFor(i, refused)
      BY <1>3, <1>4, <1>6, <1>10, ReadServed DEF AnswerBlocks, ps, n
    <2> DEFINE all == ReadLoop(ps, b)[n]
    <2> HIDE DEF r
    <2>0. AnswerTaken(all, b, r, n)
      <3>1. AnswerTaken(ReadLoop(ps, FlattenSeq(Blocks(r, n)))[n], FlattenSeq(Blocks(r, n)), r, n)
        BY <1>6, <2>2, AnswerRead
      <3> HIDE DEF b
      <3> QED BY <2>1, <3>1
    <2>3. /\ all.fails = FALSE /\ all.offset = Len(b) /\ Len(all.items) = n
          /\ \A i \in 1..n : all.items[i].code = r[i].code /\ all.items[i].data = r[i].value
      BY <2>0 DEF AnswerTaken
    <2> HIDE DEF a, b, all
    <2>4. result = [error |-> NoError, items |-> all.items]
      BY <1>5, <1>7, <1>8, <1>10, <2>1, <2>3 DEF ParseReadResponse, all
    <2>5. result.error = NoError /\ result.items = all.items
      BY <2>4
    <2> QED BY <1>10, <2>2, <2>3, <2>5 DEF n, r
  <1> QED BY <1>9, <1>10

-----------------------------------------------------------------------------
\* An item's cells

LEMMA ItemCells ==
    ASSUME NEW item, GoodItem(item)
    PROVE  LET v == Seen(ProtocolItem(item))
           IN /\ DOMAIN CellsOf(item) = 1..Length(item) /\ Length(item) \in Nat
              /\ v.dataBytes = Length(item) /\ 1 <= Length(item)
              /\ \A k \in 1..Length(item) : CellsOf(item)[k] = PLCKey(v, k)
              /\ Range(CellsOf(item)) = PLCKeys(v)
              /\ v.wordLength = 1 <=> item.transport = "bit"
              /\ item.transport = "bit" => v.address % 8 = item.bit /\ item.bit \in 0..7
                                           /\ Length(item) = 1
              /\ PLCStart(v) \in Nat /\ v.address \in Nat
  <1> DEFINE p == ProtocolItem(item)
             v == Seen(p)
             first == IF Indexed(item) THEN item.offset * 2 ELSE item.offset
             cells == CellsOf(item)
             l == Length(item)
  <1>1. /\ GoodDescriptor(p)
        /\ p.dataBytes = Length(item) /\ p.address = WireAddress(item)
        /\ p.wordLength = 1 <=> item.transport = "bit"
        /\ p.wordLength \in {28, 29} <=> Indexed(item)
        /\ p.area = WireArea[item.area] /\ p.db = item.db
        /\ item.transport = "bit" => item.bit <= 7 /\ Length(item) = 1
        /\ item.transport # "bit" => item.bit = 0
    BY ItemDescriptor
  <1>2. /\ v.wordLength = p.wordLength /\ v.address = p.address /\ v.dataBytes = p.dataBytes
        /\ v.area = p.area /\ v.db = p.db
    BY DEF Seen
  <1>3. item.bit \in Nat /\ item.offset \in Nat /\ l \in Nat /\ 1 <= l
    <2>1. item.bit \in Nat /\ item.offset \in Nat
      BY DEF GoodItem, ItemRecords
    <2>2. p.dataBytes \in Nat /\ 1 <= p.dataBytes
      BY <1>1, DescriptorLength
    <2> QED BY <1>1, <2>1, <2>2
  <1> HIDE DEF p, v, l
  <1>4. item.bit <= 7
    BY <1>1, <1>3
  <1>5. ~Indexed(item) => v.address = item.offset * 8 + item.bit
    BY <1>1, <1>2 DEF WireAddress
  <1>6. Indexed(item) => v.address = item.offset
    BY <1>1, <1>2 DEF WireAddress
  <1>7. (item.offset * 8 + item.bit) \div 8 = item.offset /\ (item.offset * 8 + item.bit) % 8 = item.bit
    BY <1>3, <1>4
  <1>8. PLCStart(v) = first /\ PLCStart(v) \in Nat
    BY <1>1, <1>2, <1>3, <1>5, <1>6, <1>7 DEF PLCStart
  <1>9. cells = [k \in 1..l |-> <<WireArea[item.area], item.db, first + k - 1>>]
    BY DEF CellsOf, l
  <1> HIDE DEF first, cells
  <1>10. DOMAIN cells = 1..l /\ \A k \in 1..l : cells[k] = PLCKey(v, k)
    BY <1>1, <1>2, <1>8, <1>9 DEF PLCKey
  <1>11. Range(cells) = PLCKeys(v)
    <2>1. v.dataBytes = l
      BY <1>1, <1>2 DEF l
    <2>2. PLCKeys(v) = {PLCKey(v, k) : k \in 1..l}
      BY <2>1 DEF PLCKeys
    <2>3. Range(cells) = {cells[k] : k \in 1..l}
      BY <1>10 DEF Range
    <2> QED BY <1>10, <2>2, <2>3
  <1>12. item.transport = "bit" => v.address % 8 = item.bit /\ item.bit \in 0..7 /\ l = 1
    <2>1. item.transport = "bit" => ~Indexed(item)
      <3>1. p.wordLength = 1 => p.wordLength \notin {28, 29}
        OBVIOUS
      <3> QED BY <1>1, <3>1
    <2>2. item.bit \in 0..7
      BY <1>3, <1>4
    <2>3. ~Indexed(item) => v.address % 8 = item.bit
      BY <1>5, <1>7
    <2> QED BY <1>1, <2>1, <2>2, <2>3 DEF l
  <1>13. v.address \in Nat
    BY <1>3, <1>5, <1>6
  <1> QED BY <1>1, <1>2, <1>3, <1>8, <1>10, <1>11, <1>12, <1>13 DEF p, v, l, cells


-----------------------------------------------------------------------------
\* The memory under a write

\* An item as the PLC sees it, and data for it.
Writable(v, d) ==
    /\ v.dataBytes \in Nat /\ 1 <= v.dataBytes /\ PLCStart(v) \in Nat
    /\ d \in Seq(Byte) /\ Len(d) = v.dataBytes
    /\ v.wordLength = 1 => v.dataBytes = 1 /\ d[1] \in {0, 1} /\ v.address % 8 \in 0..7

\* writeItem sets the bit or the bytes of the item and nothing else.
LEMMA ItemWritten ==
    ASSUME NEW m, IsMemory(m), NEW v, NEW d, Writable(v, d)
    PROVE  LET w == PLCWriteItem(m, v, d)
           IN /\ IsMemory(w)
              /\ \A key : key \notin PLCKeys(v) => Cell(w, key) = Cell(m, key)
              /\ v.wordLength = 1 => \A key \in PLCKeys(v) :
                   Cell(w, key) = SetBitIn(Cell(m, key), v.address % 8, d[1])
              /\ v.wordLength # 1 => \A x \in 1..v.dataBytes : Cell(w, PLCKey(v, x)) = d[x]
  <1> DEFINE w == PLCWriteItem(m, v, d)
             D == DOMAIN m \cup PLCKeys(v)
             New(key) == IF key \notin PLCKeys(v) THEN m[key]
                         ELSE IF v.wordLength = 1
                           THEN SetBitIn(Cell(m, key), v.address % 8, IF d[1] = 1 THEN 1 ELSE 0)
                         ELSE d[key[3] - PLCStart(v) + 1]
  <1>1. w = [key \in D |-> New(key)]
    BY DEF PLCWriteItem
  <1>2. \A key : Cell(m, key) \in Byte
    <2>1. 0 \in Byte
      BY DEF Byte
    <2> QED BY <2>1 DEF Cell, IsMemory
  <1>3. ASSUME NEW x \in 1..v.dataBytes, v.wordLength # 1 PROVE New(PLCKey(v, x)) = d[x]
    <2> DEFINE key == PLCKey(v, x)
    <2>1. key \in PLCKeys(v)
      BY DEF PLCKeys
    <2>2. key[3] = PLCStart(v) + x - 1
      BY DEF PLCKey
    <2> HIDE DEF key
    <2>3. key[3] - PLCStart(v) + 1 = x
      <3>1. PLCStart(v) \in Int /\ x \in Int
        BY DEF Writable
      <3> QED BY <2>2, <3>1
    <2> QED BY <1>3, <2>1, <2>3 DEF key
  <1>4. ASSUME NEW key \in PLCKeys(v), v.wordLength = 1
        PROVE  New(key) = SetBitIn(Cell(m, key), v.address % 8, d[1])
    <2>1. d[1] = IF d[1] = 1 THEN 1 ELSE 0
      BY <1>4 DEF Writable
    <2> QED BY <1>4, <2>1
  <1>5. ASSUME NEW key \in D PROVE New(key) \in Byte
    <2>1. CASE key \notin PLCKeys(v)
      BY <2>1 DEF IsMemory
    <2>2. CASE key \in PLCKeys(v) /\ v.wordLength = 1
      <3>1. d[1] \in 0..1 /\ v.address % 8 \in 0..7
        BY <2>2 DEF Writable
      <3>2. SetBitIn(Cell(m, key), v.address % 8, d[1]) \in Byte
        BY <1>2, <3>1, SetBitInByte
      <3> QED BY <1>4, <2>2, <3>2
    <2>3. CASE key \in PLCKeys(v) /\ v.wordLength # 1
      <3>1. PICK x \in 1..v.dataBytes : key = PLCKey(v, x)
        BY <2>3 DEF PLCKeys
      <3>2. d[x] \in Byte
        BY DEF Writable
      <3> HIDE DEF New
      <3> QED BY <1>3, <2>3, <3>1, <3>2
    <2> QED BY <2>1, <2>2, <2>3
  <1> HIDE DEF w, D
  <1>6. DOMAIN w = D /\ \A key \in D : w[key] = New(key)
    BY <1>1
  <1>7. IsMemory(w)
    <2>1. w = [key \in DOMAIN w |-> w[key]]
      BY <1>1
    <2>2. \A key \in DOMAIN w : w[key] \in Byte
      <3> HIDE DEF New
      <3> QED BY <1>5, <1>6
    <2> QED BY <2>1, <2>2 DEF IsMemory
  <1>8. \A key \in PLCKeys(v) : key \in D /\ Cell(w, key) = New(key)
    <2> HIDE DEF New
    <2>1. \A key \in PLCKeys(v) : key \in D
      BY DEF D
    <2> QED BY <1>6, <2>1 DEF Cell
  <1>9. ASSUME NEW key, key \notin PLCKeys(v) PROVE Cell(w, key) = Cell(m, key)
    <2>1. CASE key \in DOMAIN m
      BY <1>6, <1>9, <2>1 DEF Cell, D
    <2>2. CASE key \notin DOMAIN m
      BY <1>6, <1>9, <2>2 DEF Cell, D
    <2> QED BY <2>1, <2>2
  <1>10. ASSUME v.wordLength = 1, NEW key \in PLCKeys(v)
         PROVE Cell(w, key) = SetBitIn(Cell(m, key), v.address % 8, d[1])
    <2> HIDE DEF New
    <2> QED BY <1>4, <1>8, <1>10
  <1>11. ASSUME v.wordLength # 1, NEW x \in 1..v.dataBytes PROVE Cell(w, PLCKey(v, x)) = d[x]
    <2>1. PLCKey(v, x) \in PLCKeys(v)
      BY DEF PLCKeys
    <2> HIDE DEF New
    <2> QED BY <1>3, <1>8, <1>11, <2>1
  <1> QED BY <1>7, <1>9, <1>10, <1>11 DEF w

\* The item holds the data.
Holds(m, v, d) ==
    IF v.wordLength = 1 THEN BitOf(Cell(m, PLCKey(v, 1)), v.address % 8) = d[1]
    ELSE \A x \in 1..v.dataBytes : Cell(m, PLCKey(v, x)) = d[x]

LEMMA WrittenHolds ==
    ASSUME NEW m, IsMemory(m), NEW v, NEW d, Writable(v, d)
    PROVE  /\ Holds(PLCWriteItem(m, v, d), v, d)
           /\ \A key : \A b \in 0..7 :
                BitOf(Cell(PLCWriteItem(m, v, d), key), b) # BitOf(Cell(m, key), b) =>
                  key \in PLCKeys(v) /\ (v.wordLength = 1 => v.address % 8 = b)
  <1> DEFINE w == PLCWriteItem(m, v, d)
             k == v.address % 8
  <1>1. /\ \A key : key \notin PLCKeys(v) => Cell(w, key) = Cell(m, key)
        /\ v.wordLength = 1 => \A key \in PLCKeys(v) :
             Cell(w, key) = SetBitIn(Cell(m, key), k, d[1])
        /\ v.wordLength # 1 => \A x \in 1..v.dataBytes : Cell(w, PLCKey(v, x)) = d[x]
    BY ItemWritten
  <1>2. \A key : Cell(m, key) \in Byte
    <2>1. 0 \in Byte
      BY DEF Byte
    <2> QED BY <2>1 DEF Cell, IsMemory
  <1>3. v.wordLength = 1 => d[1] \in 0..1 /\ k \in 0..7 /\ v.dataBytes = 1
    BY DEF Writable
  <1>4. PLCKey(v, 1) \in PLCKeys(v)
    <2>1. 1 \in 1..v.dataBytes
      BY DEF Writable
    <2> QED BY <2>1 DEF PLCKeys
  <1> HIDE DEF w, k
  <1>5. CASE v.wordLength = 1
    <2>1. ASSUME NEW key \in PLCKeys(v)
          PROVE  /\ BitOf(Cell(w, key), k) = d[1]
                 /\ \A b \in 0..7 : b # k => BitOf(Cell(w, key), b) = BitOf(Cell(m, key), b)
      <3> DEFINE x == Cell(m, key)
                 e == d[1]
      <3>1. x \in Byte /\ k \in 0..7 /\ e \in 0..1 /\ Cell(w, key) = SetBitIn(x, k, e)
        BY <1>1, <1>2, <1>3, <1>5
      <3> HIDE DEF x, e
      <3>2. /\ BitOf(SetBitIn(x, k, e), k) = e
            /\ \A b \in 0..7 : b # k => BitOf(SetBitIn(x, k, e), b) = BitOf(x, b)
        BY <3>1, SetBitInByte
      <3> QED BY <3>1, <3>2 DEF x, e
    <2>2. Holds(w, v, d)
      BY <1>4, <1>5, <2>1 DEF Holds, k
    <2> QED BY <1>1, <2>1, <2>2 DEF w, k
  <1>6. CASE v.wordLength # 1
    BY <1>1, <1>6 DEF Holds, w
  <1> QED BY <1>5, <1>6


\* The first k items are written where they are not refused; nothing else is changed,
\* and an item holds its data unless a later one lies over it.
MemoryAfter(mk, m, vs, bytes, code, k) ==
    /\ IsMemory(mk)
    /\ \A key : (\A i \in 1..k : CodeFor(i, code) = 255 => key \notin PLCKeys(vs[i])) =>
                   Cell(mk, key) = Cell(m, key)
    /\ \A key : \A b \in 0..7 :
         BitOf(Cell(mk, key), b) # BitOf(Cell(m, key), b) =>
           \E i \in 1..k : /\ CodeFor(i, code) = 255 /\ key \in PLCKeys(vs[i])
                           /\ vs[i].wordLength = 1 => vs[i].address % 8 = b
    /\ \A i \in 1..k :
         /\ CodeFor(i, code) = 255
         /\ \A j \in (i + 1)..k : PLCKeys(vs[i]) \cap PLCKeys(vs[j]) = {}
         => Holds(mk, vs[i], bytes[i])

LEMMA KeptOutside ==
    ASSUME NEW m, NEW w, NEW v, NEW d, v.dataBytes \in Nat, 1 <= v.dataBytes,
           \A key \in PLCKeys(v) : Cell(w, key) = Cell(m, key), Holds(m, v, d)
    PROVE  Holds(w, v, d)
  <1>1. \A x \in 1..v.dataBytes : PLCKey(v, x) \in PLCKeys(v)
    BY DEF PLCKeys
  <1>2. 1 \in 1..v.dataBytes
    OBVIOUS
  <1> QED BY <1>1, <1>2 DEF Holds

LEMMA MemoryStep ==
    ASSUME NEW k \in Nat, 1 <= k, NEW m, NEW mp, NEW mk, NEW vs, NEW bytes, NEW code,
           \A i \in 1..k : Writable(vs[i], bytes[i]),
           MemoryAfter(mp, m, vs, bytes, code, k - 1),
           mk = IF CodeFor(k, code) = 255 THEN PLCWriteItem(mp, vs[k], bytes[k]) ELSE mp
    PROVE  MemoryAfter(mk, m, vs, bytes, code, k)
  <1> DEFINE v == vs[k]
             d == bytes[k]
             W(i) == CodeFor(i, code) = 255
  <1>1. k \in 1..k /\ \A i \in 1..k : i = k \/ i \in 1..(k - 1)
    OBVIOUS
  <1>2. \A i \in 1..(k - 1) : i \in 1..k /\ \A j \in (i + 1)..(k - 1) : j \in (i + 1)..k
    OBVIOUS
  <1>3. \A i \in 1..(k - 1) : k \in (i + 1)..k
    OBVIOUS
  <1>4. /\ IsMemory(mp)
        /\ \A key : (\A i \in 1..(k - 1) : W(i) => key \notin PLCKeys(vs[i])) =>
                     Cell(mp, key) = Cell(m, key)
        /\ \A key : \A b \in 0..7 :
             BitOf(Cell(mp, key), b) # BitOf(Cell(m, key), b) =>
               \E i \in 1..(k - 1) : /\ W(i) /\ key \in PLCKeys(vs[i])
                                     /\ vs[i].wordLength = 1 => vs[i].address % 8 = b
    BY DEF MemoryAfter
  <1>5. \A i \in 1..(k - 1) :
         /\ W(i)
         /\ \A j \in (i + 1)..(k - 1) : PLCKeys(vs[i]) \cap PLCKeys(vs[j]) = {}
         => Holds(mp, vs[i], bytes[i])
    BY DEF MemoryAfter
  <1>6. Writable(v, d)
    BY <1>1
  <1>7. CASE ~W(k)
    <2>1. mk = mp
      BY <1>7
    <2>2. \A i \in 1..k : W(i) => i \in 1..(k - 1)
      BY <1>1, <1>7
    <2> HIDE DEF W
    <2>3. \A key : (\A i \in 1..k : W(i) => key \notin PLCKeys(vs[i])) =>
                     Cell(mk, key) = Cell(m, key)
      BY <1>2, <1>4, <2>1
    <2>4. \A key : \A b \in 0..7 :
             BitOf(Cell(mk, key), b) # BitOf(Cell(m, key), b) =>
               \E i \in 1..k : /\ W(i) /\ key \in PLCKeys(vs[i])
                               /\ vs[i].wordLength = 1 => vs[i].address % 8 = b
      BY <1>2, <1>4, <2>1
    <2>5. \A i \in 1..k :
           /\ W(i)
           /\ \A j \in (i + 1)..k : PLCKeys(vs[i]) \cap PLCKeys(vs[j]) = {}
           => Holds(mk, vs[i], bytes[i])
      BY <1>2, <1>5, <2>1, <2>2
    <2> QED BY <1>4, <2>1, <2>3, <2>4, <2>5 DEF MemoryAfter, W
  <1>8. CASE W(k)
    <2>1. mk = PLCWriteItem(mp, v, d)
      BY <1>8
    <2>2. /\ IsMemory(mk) /\ \A key : key \notin PLCKeys(v) => Cell(mk, key) = Cell(mp, key)
      BY <1>4, <1>6, <2>1, ItemWritten
    <2>3. /\ Holds(mk, v, d)
          /\ \A key : \A b \in 0..7 :
                BitOf(Cell(mk, key), b) # BitOf(Cell(mp, key), b) =>
                  key \in PLCKeys(v) /\ (v.wordLength = 1 => v.address % 8 = b)
      BY <1>4, <1>6, <2>1, WrittenHolds
    <2> HIDE DEF W
    <2>4. ASSUME NEW key, \A i \in 1..k : W(i) => key \notin PLCKeys(vs[i])
          PROVE  Cell(mk, key) = Cell(m, key)
      <3>1. key \notin PLCKeys(v)
        BY <1>1, <1>8, <2>4
      <3>2. \A i \in 1..(k - 1) : W(i) => key \notin PLCKeys(vs[i])
        BY <1>2, <2>4
      <3> QED BY <1>4, <2>2, <3>1, <3>2
    <2>5. ASSUME NEW key, NEW b \in 0..7, BitOf(Cell(mk, key), b) # BitOf(Cell(m, key), b)
          PROVE  \E i \in 1..k : /\ W(i) /\ key \in PLCKeys(vs[i])
                                 /\ vs[i].wordLength = 1 => vs[i].address % 8 = b
      <3>1. CASE BitOf(Cell(mk, key), b) # BitOf(Cell(mp, key), b)
        <4>1. key \in PLCKeys(v) /\ (v.wordLength = 1 => v.address % 8 = b)
          BY <2>3, <3>1
        <4> QED BY <1>1, <1>8, <4>1
      <3>2. CASE BitOf(Cell(mk, key), b) = BitOf(Cell(mp, key), b)
        <4>1. BitOf(Cell(mp, key), b) # BitOf(Cell(m, key), b)
          BY <2>5, <3>2
        <4>2. PICK i \in 1..(k - 1) : /\ W(i) /\ key \in PLCKeys(vs[i])
                                      /\ vs[i].wordLength = 1 => vs[i].address % 8 = b
          BY <1>4, <4>1
        <4> QED BY <1>2, <4>2
      <3> QED BY <3>1, <3>2
    <2>6. ASSUME NEW i \in 1..k, W(i),
                 \A j \in (i + 1)..k : PLCKeys(vs[i]) \cap PLCKeys(vs[j]) = {}
          PROVE  Holds(mk, vs[i], bytes[i])
      <3>1. CASE i = k
        BY <2>3, <3>1
      <3>2. CASE i \in 1..(k - 1)
        <4>1. Holds(mp, vs[i], bytes[i])
          BY <1>2, <1>5, <2>6, <3>2
        <4>2. PLCKeys(vs[i]) \cap PLCKeys(v) = {}
          BY <1>3, <2>6, <3>2
        <4>3. \A key \in PLCKeys(vs[i]) : Cell(mk, key) = Cell(mp, key)
          BY <2>2, <4>2
        <4>4. vs[i].dataBytes \in Nat /\ 1 <= vs[i].dataBytes
          BY DEF Writable
        <4> QED BY <4>1, <4>3, <4>4, KeptOutside
      <3> QED BY <1>1, <3>1, <3>2
    <2> QED BY <2>2, <2>4, <2>5, <2>6 DEF MemoryAfter, W
  <1> QED BY <1>7, <1>8

LEMMA MemoryAfterAll ==
    ASSUME NEW n \in Nat, NEW ms, NEW m, IsMemory(m), NEW vs, NEW bytes, NEW code,
           WritesInto(ms, m, n, vs, bytes, code), \A i \in 1..n : Writable(vs[i], bytes[i])
    PROVE  MemoryAfter(ms[n], m, vs, bytes, code, n)
  <1> DEFINE S == {k \in 0..n : MemoryAfter(ms[k], m, vs, bytes, code, k)}
  <1>1. 0 \in S
    <2>1. ms[0] = m
      BY DEF WritesInto
    <2>2. \A i : i \notin 1..0
      OBVIOUS
    <2> QED BY <2>1, <2>2 DEF MemoryAfter
  <1>2. ASSUME NEW k \in 1..n, k - 1 \in S PROVE k \in S
    <2>1. MemoryAfter(ms[k - 1], m, vs, bytes, code, k - 1)
      BY <1>2
    <2>2. ms[k] = IF CodeFor(k, code) = 255 THEN PLCWriteItem(ms[k - 1], vs[k], bytes[k])
                                            ELSE ms[k - 1]
      BY DEF WritesInto
    <2>3. k \in Nat /\ 1 <= k /\ k \in 0..n /\ \A i \in 1..k : Writable(vs[i], bytes[i])
      OBVIOUS
    <2>4. MemoryAfter(ms[k], m, vs, bytes, code, k)
      BY <2>1, <2>2, <2>3, MemoryStep
    <2> QED BY <2>3, <2>4
  <1> HIDE DEF S
  <1>3. \A k \in 0..n : k \in S
    BY <1>1, <1>2, UpTo
  <1> QED BY <1>3 DEF S



-----------------------------------------------------------------------------
\* A finished call is one that was sent and answered.

SeenItem(i) == Seen(ProtocolItem(items[i]))

LEMMA DoneCall ==
    ASSUME WireInv, pc = "done"
    PROVE  /\ ReadyToServe /\ CallInv /\ ServedInv /\ Answered /\ write \in BOOLEAN
           /\ Len(items) \in Nat /\ 1 <= Len(items) /\ DOMAIN items = 1..Len(items)
           /\ GoodBatch(ProtocolItems, Len(items))
           /\ \A i \in 1..Len(items) :
                /\ GoodItem(items[i]) /\ ProtocolItems[i] = ProtocolItem(items[i])
                /\ ProtocolItems[i].dataBytes = Length(items[i])
                /\ SeenBatch(ProtocolItems, Len(items))[i] = SeenItem(i)
           /\ result = ResultOf
  <1>1. CallInv /\ RequestInv /\ ServedInv /\ Sent /\ Answered /\ write \in BOOLEAN
        /\ result = ResultOf
    BY DEF WireInv, Sent, Answered, CallInv, ResultInv
  <1>2. ReadyToServe
    BY <1>1, SentIsReady
  <1>3. /\ GoodBatch(ProtocolItems, Len(items))
        /\ \A i \in 1..Len(items) :
             /\ GoodItem(items[i]) /\ ProtocolItems[i] = ProtocolItem(items[i])
             /\ ProtocolItems[i].dataBytes = Length(items[i])
    BY <1>2, ItemsBecomeBatch DEF ReadyToServe
  <1>4. DOMAIN items = 1..Len(items)
    BY <1>1, ItemLengths
  <1>5. Len(items) \in Nat /\ 1 <= Len(items)
    BY <1>3 DEF GoodBatch
  <1>6. \A i \in 1..Len(items) : SeenBatch(ProtocolItems, Len(items))[i] = SeenItem(i)
    BY <1>3 DEF SeenBatch, SeenItem
  <1> QED BY <1>1, <1>2, <1>3, <1>4, <1>5, <1>6

\* What a read returns for an item that is not refused.
LEMMA ReadIsFaithful ==
    ASSUME WireInv, pc = "done", ~damaged, ~write,
           NEW i \in 1..Len(items), CodeFor(i, refused) = 255
    PROVE  result.items[i].data =
             IF items[i].transport = "bit"
               THEN <<BitOf(Cell(before, CellsOf(items[i])[1]), items[i].bit)>>
               ELSE [k \in DOMAIN CellsOf(items[i]) |-> Cell(before, CellsOf(items[i])[k])]
  <1> DEFINE item == items[i]
             v == SeenItem(i)
             cells == CellsOf(item)
             l == Length(item)
  <1>1. ServedInv /\ Answered /\ GoodItem(item) /\ ProtocolItems[i] = ProtocolItem(item)
    BY DoneCall
  <1>2. memory = before
    BY <1>1 DEF ServedInv
  <1>3. result.items[i].data = AnswerBlocks(refused)[i].value
    BY ResultIs
  <1>4. AnswerBlocks(refused)[i].value = ReadValue(before, v)
    <2>1. ~(i = 1 /\ refused # 255)
      BY DEF CodeFor
    <2> QED BY <1>1, <1>2, <2>1 DEF AnswerBlocks, ReadBlocks, SeenItem
  <1>5. /\ DOMAIN cells = 1..l /\ l \in Nat /\ v.dataBytes = l /\ 1 <= l
        /\ \A k \in 1..l : cells[k] = PLCKey(v, k)
        /\ v.wordLength = 1 <=> item.transport = "bit"
        /\ item.transport = "bit" => v.address % 8 = item.bit
    BY <1>1, ItemCells DEF SeenItem
  <1> HIDE DEF v, cells, l
  <1>6. CASE item.transport = "bit"
    <2>1. cells[1] = PLCKey(v, 1)
      BY <1>5
    <2>2. ReadValue(before, v) = <<BitOf(Cell(before, cells[1]), item.bit)>>
      BY <1>5, <1>6, <2>1 DEF ReadValue
    <2> QED BY <1>3, <1>4, <1>6, <2>2 DEF cells
  <1>7. CASE item.transport # "bit"
    <2>1. ReadValue(before, v) = [k \in 1..l |-> Cell(before, PLCKey(v, k))]
      BY <1>5, <1>7 DEF ReadValue
    <2>2. [k \in DOMAIN cells |-> Cell(before, cells[k])] = [k \in 1..l |-> Cell(before, PLCKey(v, k))]
      BY <1>5
    <2> DEFINE f == [k \in DOMAIN cells |-> Cell(before, cells[k])]
    <2>3. f = ReadValue(before, v)
      BY <2>1, <2>2
    <2>4. f = [k \in DOMAIN CellsOf(item) |-> Cell(before, CellsOf(item)[k])]
      BY DEF cells
    <2> HIDE DEF f
    <2>5. result.items[i].data = f
      BY <1>3, <1>4, <2>3
    <2> QED BY <1>7, <2>4, <2>5
  <1> QED BY <1>6, <1>7

\* What a write has done to the memory.
LEMMA WriteReaches ==
    ASSUME WireInv, pc = "done", write
    PROVE  MemoryAfter(memory, before, SeenBatch(ProtocolItems, Len(items)), data, refused,
                       Len(items))
  <1> DEFINE n == Len(items)
             vs == SeenBatch(ProtocolItems, n)
  <1>1. /\ ServedInv /\ Answered /\ n \in Nat /\ GoodBytes(data)
        /\ \A i \in 1..n : GoodItem(items[i]) /\ vs[i] = SeenItem(i)
    BY DoneCall DEF ReadyToServe
  <1>2. PICK ms : WritesInto(ms, before, n, vs, data, refused) /\ memory = ms[n]
    BY <1>1 DEF ServedInv
  <1>3. IsMemory(before)
    BY <1>1 DEF ServedInv
  <1> HIDE DEF vs, n
  <1>4. ASSUME NEW i \in 1..n PROVE Writable(vs[i], data[i])
    <2> DEFINE item == items[i]
               v == vs[i]
               d == data[i]
    <2>1. GoodItem(item) /\ v = Seen(ProtocolItem(item))
      BY <1>1 DEF SeenItem
    <2>2. /\ Length(item) \in Nat /\ v.dataBytes = Length(item) /\ 1 <= Length(item)
          /\ v.wordLength = 1 <=> item.transport = "bit"
          /\ item.transport = "bit" => v.address % 8 = item.bit /\ item.bit \in 0..7
                                       /\ Length(item) = 1
          /\ PLCStart(v) \in Nat
      BY <2>1, ItemCells
    <2>3. /\ d \in Seq(Byte) /\ Len(d) = Length(item)
          /\ item.transport = "bit" => d[1] \in {0, 1}
      BY <1>1 DEF GoodBytes, n
    <2> HIDE DEF v, d, item
    <2>4. v.wordLength = 1 => v.dataBytes = 1 /\ d[1] \in {0, 1} /\ v.address % 8 \in 0..7
      BY <2>2, <2>3
    <2>5. Writable(v, d)
      BY <2>2, <2>3, <2>4 DEF Writable
    <2> QED BY <2>5 DEF v, d
  <1>5. MemoryAfter(ms[n], before, vs, data, refused, n)
    BY <1>1, <1>2, <1>3, <1>4, MemoryAfterAll
  <1> QED BY <1>2, <1>5 DEF vs, n

LEMMA WriteIsFaithful ==
    ASSUME WireInv, pc = "done", write, NEW i \in 1..Len(items), CodeFor(i, refused) = 255,
           \A j \in (i + 1)..Len(items) : Range(CellsOf(items[i])) \cap Range(CellsOf(items[j])) = {}
    PROVE  IF items[i].transport = "bit"
             THEN BitOf(Cell(memory, CellsOf(items[i])[1]), items[i].bit) = data[i][1]
             ELSE [k \in DOMAIN CellsOf(items[i]) |-> Cell(memory, CellsOf(items[i])[k])] = data[i]
  <1> DEFINE n == Len(items)
             vs == SeenBatch(ProtocolItems, n)
             item == items[i]
             v == vs[i]
             cells == CellsOf(item)
             l == Length(item)
             d == data[i]
  <1>1. /\ n \in Nat /\ GoodBytes(data)
        /\ \A j \in 1..n : GoodItem(items[j]) /\ vs[j] = SeenItem(j)
    BY DoneCall DEF ReadyToServe
  <1>2. MemoryAfter(memory, before, vs, data, refused, n)
    BY WriteReaches
  <1> HIDE DEF vs
  <1>3. \A j \in 1..n : Range(CellsOf(items[j])) = PLCKeys(vs[j])
    <2> SUFFICES ASSUME NEW j \in 1..n PROVE Range(CellsOf(items[j])) = PLCKeys(vs[j])
      OBVIOUS
    <2>1. GoodItem(items[j]) /\ vs[j] = Seen(ProtocolItem(items[j]))
      BY <1>1 DEF SeenItem
    <2> QED BY <2>1, ItemCells
  <1>4. \A j \in (i + 1)..n : j \in 1..n
    BY <1>1
  <1>5. \A j \in (i + 1)..n : PLCKeys(vs[i]) \cap PLCKeys(vs[j]) = {}
    BY <1>3, <1>4
  <1>6. Holds(memory, v, d)
    BY <1>2, <1>5 DEF MemoryAfter
  <1>7. GoodItem(item) /\ v = Seen(ProtocolItem(item))
    BY <1>1 DEF SeenItem
  <1>8. /\ DOMAIN cells = 1..l /\ l \in Nat /\ v.dataBytes = l /\ 1 <= l
        /\ \A k \in 1..l : cells[k] = PLCKey(v, k)
        /\ v.wordLength = 1 <=> item.transport = "bit"
        /\ item.transport = "bit" => v.address % 8 = item.bit
    BY <1>7, ItemCells
  <1>9. d \in Seq(Byte) /\ Len(d) = l
    BY <1>1 DEF GoodBytes
  <1> HIDE DEF v, cells, l, d, item
  <1>10. d = [k \in 1..l |-> d[k]]
    BY <1>8, <1>9
  <1>11. IF item.transport = "bit" THEN BitOf(Cell(memory, cells[1]), item.bit) = d[1]
         ELSE [k \in DOMAIN cells |-> Cell(memory, cells[k])] = d
    <2>1. 1 \in 1..l
      BY <1>8
    <2> QED BY <1>6, <1>8, <1>10, <2>1 DEF Holds
  <1> QED BY <1>11 DEF item, cells, d

\* Nothing but the items that were written has changed.
LEMMA NothingElse ==
    ASSUME WireInv, pc = "done", NEW W,
           W = {i \in DOMAIN items : write /\ CodeFor(i, refused) = 255},
           NEW key
    PROVE  /\ (\A i \in W : key \notin Range(CellsOf(items[i]))) =>
                Cell(memory, key) = Cell(before, key)
           /\ \A b \in 0..7 :
                BitOf(Cell(memory, key), b) # BitOf(Cell(before, key), b) =>
                  \E i \in W : /\ key \in Range(CellsOf(items[i]))
                               /\ items[i].transport = "bit" => items[i].bit = b
  <1> DEFINE n == Len(items)
             vs == SeenBatch(ProtocolItems, n)
  <1>1. /\ n \in Nat /\ ServedInv /\ Answered /\ DOMAIN items = 1..n /\ write \in BOOLEAN
        /\ \A j \in 1..n : GoodItem(items[j]) /\ vs[j] = SeenItem(j)
    BY DoneCall
  <1>2. CASE ~write
    BY <1>1, <1>2 DEF ServedInv
  <1>3. CASE write
    <2>1. MemoryAfter(memory, before, vs, data, refused, n)
      BY <1>3, WriteReaches
    <2> HIDE DEF vs
    <2>2. \A i \in 1..n : i \in W <=> CodeFor(i, refused) = 255
      BY <1>1, <1>3
    <2>3. W \subseteq 1..n
      BY <1>1
    <2>4. ASSUME NEW j \in 1..n
          PROVE  /\ Range(CellsOf(items[j])) = PLCKeys(vs[j])
                 /\ vs[j].wordLength = 1 <=> items[j].transport = "bit"
                 /\ items[j].transport = "bit" => vs[j].address % 8 = items[j].bit
      <3>1. GoodItem(items[j]) /\ vs[j] = Seen(ProtocolItem(items[j]))
        BY <1>1 DEF SeenItem
      <3> QED BY <3>1, ItemCells
    <2>5. /\ (\A i \in 1..n : CodeFor(i, refused) = 255 => key \notin PLCKeys(vs[i])) =>
                Cell(memory, key) = Cell(before, key)
          /\ \A b \in 0..7 :
               BitOf(Cell(memory, key), b) # BitOf(Cell(before, key), b) =>
                 \E i \in 1..n : /\ CodeFor(i, refused) = 255 /\ key \in PLCKeys(vs[i])
                                 /\ vs[i].wordLength = 1 => vs[i].address % 8 = b
      BY <2>1 DEF MemoryAfter
    <2> HIDE DEF n
    <2>6. ASSUME \A i \in W : key \notin Range(CellsOf(items[i]))
          PROVE  Cell(memory, key) = Cell(before, key)
      BY <2>2, <2>4, <2>5, <2>6
    <2>7. ASSUME NEW b \in 0..7, BitOf(Cell(memory, key), b) # BitOf(Cell(before, key), b)
          PROVE  \E i \in W : /\ key \in Range(CellsOf(items[i]))
                              /\ items[i].transport = "bit" => items[i].bit = b
      <3>1. PICK i \in 1..n : /\ CodeFor(i, refused) = 255 /\ key \in PLCKeys(vs[i])
                              /\ vs[i].wordLength = 1 => vs[i].address % 8 = b
        BY <2>5, <2>7
      <3> QED BY <2>2, <2>4, <3>1
    <2> QED BY <2>6, <2>7
  <1> QED BY <1>1, <1>2, <1>3

\* For every call, memory, size and refusal: an undamaged exchange returns what the
\* addresses name, and a write changes that and nothing else.
THEOREM WireFaithful == Spec => []ExchangeIsFaithful
  <1>1. WireInv => ExchangeIsFaithful
    <2> SUFFICES ASSUME WireInv, pc = "done", ~damaged
                 PROVE  ExchangeIsFaithful
      BY DEF ExchangeIsFaithful
    <2> DEFINE W == {i \in DOMAIN items : write /\ result.items[i].code = 255}
    <2>1. DOMAIN items = 1..Len(items) /\ write \in BOOLEAN
      BY DoneCall
    <2>2. /\ result.error = NoError /\ Len(result.items) = Len(items)
          /\ \A i \in DOMAIN items : result.items[i].code = CodeFor(i, refused)
      BY <2>1, ResultIs
    <2>3. W = {i \in DOMAIN items : write /\ CodeFor(i, refused) = 255}
      BY <2>2
    <2>4. \A i \in DOMAIN items : ~write /\ result.items[i].code = 255 =>
             result.items[i].data =
               IF items[i].transport = "bit"
                 THEN <<BitOf(Cell(before, CellsOf(items[i])[1]), items[i].bit)>>
                 ELSE [k \in DOMAIN CellsOf(items[i]) |-> Cell(before, CellsOf(items[i])[k])]
      <3> SUFFICES ASSUME NEW i \in 1..Len(items), ~write, CodeFor(i, refused) = 255
                   PROVE  result.items[i].data =
                            IF items[i].transport = "bit"
                              THEN <<BitOf(Cell(before, CellsOf(items[i])[1]), items[i].bit)>>
                              ELSE [k \in DOMAIN CellsOf(items[i]) |->
                                      Cell(before, CellsOf(items[i])[k])]
        BY <2>1, <2>2
      <3> QED BY ReadIsFaithful
    <2>5. \A i \in DOMAIN items :
            /\ write /\ result.items[i].code = 255
            /\ \A j \in (i + 1)..Len(items) :
                 Range(CellsOf(items[i])) \cap Range(CellsOf(items[j])) = {}
            => IF items[i].transport = "bit"
                 THEN BitOf(Cell(memory, CellsOf(items[i])[1]), items[i].bit) = data[i][1]
                 ELSE [k \in DOMAIN CellsOf(items[i]) |-> Cell(memory, CellsOf(items[i])[k])]
                        = data[i]
      <3> SUFFICES ASSUME NEW i \in 1..Len(items), write, CodeFor(i, refused) = 255,
                          \A j \in (i + 1)..Len(items) :
                            Range(CellsOf(items[i])) \cap Range(CellsOf(items[j])) = {}
                   PROVE  IF items[i].transport = "bit"
                            THEN BitOf(Cell(memory, CellsOf(items[i])[1]), items[i].bit) = data[i][1]
                            ELSE [k \in DOMAIN CellsOf(items[i]) |->
                                    Cell(memory, CellsOf(items[i])[k])] = data[i]
        BY <2>1, <2>2
      <3> QED BY WriteIsFaithful
    <2>6. ASSUME NEW key
          PROVE  /\ (\A i \in W : key \notin Range(CellsOf(items[i]))) =>
                       Cell(memory, key) = Cell(before, key)
                 /\ \A b \in 0..7 :
                      BitOf(Cell(memory, key), b) # BitOf(Cell(before, key), b) =>
                        \E i \in W : /\ key \in Range(CellsOf(items[i]))
                                     /\ items[i].transport = "bit" => items[i].bit = b
      <3> HIDE DEF W
      <3> QED BY <2>3, NothingElse
    <2> HIDE DEF W
    <2>7. \A key : key \notin UNION {Range(CellsOf(items[i])) : i \in W} =>
                     \A i \in W : key \notin Range(CellsOf(items[i]))
      OBVIOUS
    <2>8. \A key \in DOMAIN memory \cup DOMAIN before :
            /\ key \notin UNION {Range(CellsOf(items[i])) : i \in W} =>
                 Cell(memory, key) = Cell(before, key)
            /\ \A b \in 0..7 :
                 BitOf(Cell(memory, key), b) # BitOf(Cell(before, key), b) =>
                   \E i \in W : /\ key \in Range(CellsOf(items[i]))
                                /\ items[i].transport = "bit" => items[i].bit = b
      BY <2>6, <2>7
    <2>9. \A i \in DOMAIN items : result.items[i].code = IF i = 1 THEN refused ELSE 255
      BY <2>2 DEF CodeFor
    <2>10. ASSUME NEW i \in DOMAIN items
           PROVE  LET r == result.items[i]
                      item == items[i]
                      cells == CellsOf(item)
                      Now(key) == Cell(memory, key)
                      Was(key) == Cell(before, key)
                  IN /\ r.code = IF i = 1 THEN refused ELSE 255
                     /\ ~write /\ r.code = 255 =>
                          r.data = IF item.transport = "bit"
                                     THEN <<BitOf(Was(cells[1]), item.bit)>>
                                     ELSE [k \in DOMAIN cells |-> Was(cells[k])]
                     /\ /\ write /\ r.code = 255
                        /\ \A j \in (i + 1)..Len(items) :
                             Range(cells) \cap Range(CellsOf(items[j])) = {}
                        =>
                          IF item.transport = "bit"
                            THEN BitOf(Now(cells[1]), item.bit) = data[i][1]
                            ELSE [k \in DOMAIN cells |-> Now(cells[k])] = data[i]
      BY <2>4, <2>5, <2>9
    <2>11. LET Written == {i \in DOMAIN items : write /\ result.items[i].code = 255}
               Touched == UNION {Range(CellsOf(items[i])) : i \in Written}
           IN \A key \in DOMAIN memory \cup DOMAIN before :
                /\ key \notin Touched => Cell(memory, key) = Cell(before, key)
                /\ \A b \in 0..7 :
                     BitOf(Cell(memory, key), b) # BitOf(Cell(before, key), b) =>
                       \E i \in Written :
                         /\ key \in Range(CellsOf(items[i]))
                         /\ items[i].transport = "bit" => items[i].bit = b
      BY <2>8 DEF W
    <2> QED BY <2>2, <2>10, <2>11, Zenon DEF ExchangeIsFaithful
  <1> QED BY <1>1, WireIsSound, PTL



-----------------------------------------------------------------------------
\* An accepted answer is made of what the client takes from it

LEMMA Slice ==
    ASSUME NEW E, NEW s \in Seq(E), NEW m \in Nat, NEW e \in Nat, m >= 1, e <= Len(s), m <= e + 1
    PROVE  /\ SubSeq(s, m, e) \in Seq(E) /\ Len(SubSeq(s, m, e)) = e - (m - 1)
           /\ \A i \in 1..(e - (m - 1)) : SubSeq(s, m, e)[i] = s[(m - 1) + i]
  <1> DEFINE x == SubSeq(s, m, e)
  <1>1. Len(s) \in Nat /\ m \in Int /\ e \in Int
    OBVIOUS
  <1>2. \A i \in m..e : s[i] \in E
    <2> SUFFICES ASSUME NEW i \in m..e PROVE s[i] \in E
      OBVIOUS
    <2>1. i \in 1..Len(s)
      BY <1>1
    <2> QED BY <2>1, ElementOfSeq
  <1>3. /\ x \in Seq(E) /\ Len(x) = IF m <= e THEN e - m + 1 ELSE 0
        /\ \A i \in 1..(e - m + 1) : x[i] = s[m + i - 1]
    BY <1>1, <1>2, SubSeqProperties
  <1> HIDE DEF x
  <1>4. Len(x) = e - (m - 1)
    BY <1>1, <1>3
  <1>5. ASSUME NEW i \in 1..(e - (m - 1)) PROVE x[i] = s[(m - 1) + i]
    <2>1. i \in 1..(e - m + 1) /\ m + i - 1 = (m - 1) + i
      BY <1>1
    <2>2. x[i] = s[m + i - 1]
      BY <1>3, <2>1
    <2> QED BY <2>1, <2>2
  <1> QED BY <1>3, <1>4, <1>5 DEF x

Laid(s, h, a, b) ==
    /\ Len(s) = Len(h) + Len(a) + Len(b)
    /\ \A i \in 1..Len(h) : s[i] = h[i]
    /\ \A i \in 1..Len(a) : s[Len(h) + i] = a[i]
    /\ \A i \in 1..Len(b) : s[Len(h) + Len(a) + i] = b[i]

LEMMA JoinedOnce ==
    ASSUME NEW E, NEW h \in Seq(E), NEW a \in Seq(E), NEW b \in Seq(E), NEW s \in Seq(E),
           Laid(s, h, a, b)
    PROVE  s = h \o a \o b
  <1> DEFINE x == h \o a \o b
             k == Len(h)
             l == Len(a)
             z == Len(b)
  <1>1. x \in Seq(E) /\ Joins(x, h, a, b)
    BY ThreeParts
  <1> HIDE DEF x
  <1>2. k \in Nat /\ l \in Nat /\ z \in Nat /\ Len(s) = k + l + z /\ Len(x) = k + l + z
    BY <1>1 DEF Joins, Laid
  <1>3. /\ \A i \in 1..k : x[i] = h[i]
        /\ \A i \in 1..l : x[k + i] = a[i]
        /\ \A i \in 1..z : x[k + l + i] = b[i]
    BY <1>1 DEF Joins
  <1>6. /\ \A i \in 1..k : s[i] = x[i]
        /\ \A i \in 1..l : s[k + i] = x[k + i]
        /\ \A i \in 1..z : s[k + l + i] = x[k + l + i]
    BY <1>3 DEF Laid
  <1> HIDE DEF k, l, z
  <1>4. ASSUME NEW i \in 1..Len(s) PROVE s[i] = x[i]
    <2>1. CASE i <= k
      <3>1. i \in 1..k
        BY <1>2, <2>1
      <3> QED BY <1>6, <3>1
    <2>2. CASE k < i /\ i <= k + l
      <3>1. i - k \in 1..l /\ k + (i - k) = i
        BY <1>2, <2>2
      <3> QED BY <1>6, <3>1
    <2>3. CASE k + l < i
      <3>1. i - k - l \in 1..z /\ k + l + (i - k - l) = i
        BY <1>2, <2>3
      <3> QED BY <1>6, <3>1
    <2> QED BY <1>2, <2>1, <2>2, <2>3
  <1>5. s = x
    BY <1>1, <1>2, <1>4, SeqEqual
  <1> QED BY <1>5 DEF x

\* A frame that is accepted differs from the one that WrapData makes of its payload in
\* the TPDU number at most.
LEMMA FrameIsWrapped ==
    ASSUME NEW s \in Seq(Byte), ~ReadFrameFails(s), ~UnwrapFails(Frame(s))
    PROVE  /\ Payload(Frame(s)) \in Seq(Byte)
           /\ [Frame(s) EXCEPT ![7] = 128] = WrapData(Payload(Frame(s)))
  <1> DEFINE l == At16(s, 3)
             f == Frame(s)
             q == Payload(f)
             g == [f EXCEPT ![7] = 128]
             h == <<3, 0, Hi(l), Lo(l), 2, 240, 128>>
  <1>1. /\ Len(s) \in Nat /\ Len(s) >= 4 /\ s[1] = 3 /\ s[2] = 0 /\ l \in 7..MaxFrameBytes
        /\ ~(l > Len(s))
    BY DEF ReadFrameFails, DataHeaderSize
  <1>2. l = s[3] * 256 + s[4] /\ s[3] \in Byte /\ s[4] \in Byte
    BY <1>1 DEF At16
  <1> HIDE DEF l
  <1>3. Hi(l) = s[3] /\ Lo(l) = s[4]
    BY <1>2, WordBytes
  <1>4. l \in Nat /\ 7 <= l /\ l <= Len(s)
    BY <1>1, FrameRoom
  <1>5. f \in Seq(Byte) /\ Len(f) = l /\ \A i \in 1..l : f[i] = s[i]
    <2>1. f = SubSeq(s, 1, l)
      BY DEF Frame, l
    <2>2. 1 \in Nat /\ 1 >= 1 /\ 1 <= l + 1 /\ l - (1 - 1) = l /\ \A i \in 1..l : (1 - 1) + i = i
      BY <1>4
    <2>3. /\ SubSeq(s, 1, l) \in Seq(Byte) /\ Len(SubSeq(s, 1, l)) = l - (1 - 1)
          /\ \A i \in 1..(l - (1 - 1)) : SubSeq(s, 1, l)[i] = s[(1 - 1) + i]
      BY <1>4, <2>2, Slice
    <2> HIDE DEF f
    <2> QED BY <2>1, <2>2, <2>3
  <1>6. f[5] = 2 /\ f[6] = 240
    BY DEF UnwrapFails
  <1> HIDE DEF f
  <1>7. q \in Seq(Byte) /\ Len(q) = l - 7 /\ \A i \in 1..(l - 7) : q[i] = f[7 + i]
    <2>1. q = SubSeq(f, 8, l)
      BY <1>5 DEF Payload, DataHeaderSize
    <2>2. 8 \in Nat /\ 8 >= 1 /\ 8 <= l + 1 /\ l <= Len(f) /\ 8 - 1 = 7
      BY <1>4, <1>5
    <2>3. /\ SubSeq(f, 8, l) \in Seq(Byte) /\ Len(SubSeq(f, 8, l)) = l - (8 - 1)
          /\ \A i \in 1..(l - (8 - 1)) : SubSeq(f, 8, l)[i] = f[(8 - 1) + i]
      BY <1>4, <1>5, <2>2, Slice
    <2> HIDE DEF q
    <2> QED BY <2>1, <2>2, <2>3
  <1>8. 3 \in Byte /\ 0 \in Byte /\ 2 \in Byte /\ 240 \in Byte /\ 128 \in Byte
    BY DEF Byte
  <1>9. g \in Seq(Byte) /\ Len(g) = l /\ g[7] = 128 /\ \A i \in 1..l : i # 7 => g[i] = f[i]
    BY <1>4, <1>5, <1>8
  <1> HIDE DEF g, q
  <1>10. WrapData(q) = h \o q
    <2>1. DataHeaderSize + Len(q) = l
      BY <1>4, <1>7 DEF DataHeaderSize
    <2> QED BY <2>1 DEF WrapData
  <1>11. /\ h \in Seq(Byte) /\ Len(h) = 7 /\ h[1] = 3 /\ h[2] = 0 /\ h[3] = s[3] /\ h[4] = s[4]
         /\ h[5] = 2 /\ h[6] = 240 /\ h[7] = 128
    BY <1>2, <1>3, <1>8
  <1> HIDE DEF h
  <1>12. \A i \in 1..7 : g[i] = h[i]
    <2>1. /\ g[1] = s[1] /\ g[2] = s[2] /\ g[3] = s[3] /\ g[4] = s[4] /\ g[5] = f[5] /\ g[6] = f[6]
      <3>1. 1 \in 1..l /\ 2 \in 1..l /\ 3 \in 1..l /\ 4 \in 1..l /\ 5 \in 1..l /\ 6 \in 1..l
        BY <1>4
      <3> QED BY <1>5, <1>9, <3>1
    <2>2. /\ g[1] = h[1] /\ g[2] = h[2] /\ g[3] = h[3] /\ g[4] = h[4] /\ g[5] = h[5]
          /\ g[6] = h[6] /\ g[7] = h[7]
      BY <1>1, <1>6, <1>9, <1>11, <2>1
    <2>3. \A i \in 1..7 : i = 1 \/ i = 2 \/ i = 3 \/ i = 4 \/ i = 5 \/ i = 6 \/ i = 7
      OBVIOUS
    <2> QED BY <2>2, <2>3
  <1>13. \A i \in 1..Len(q) : g[7 + i] = q[i]
    <2> SUFFICES ASSUME NEW i \in 1..Len(q) PROVE g[7 + i] = q[i]
      OBVIOUS
    <2>1. i \in 1..(l - 7) /\ 7 + i \in 1..l /\ 7 + i # 7
      BY <1>4, <1>7
    <2> QED BY <1>7, <1>9, <2>1
  <1>14. g = h \o q
    <2> DEFINE z == <<>>
    <2>1. z \in Seq(Byte) /\ Len(z) = 0
      OBVIOUS
    <2>4. h \o q \in Seq(Byte)
      BY <1>7, <1>11
    <2>5. h \o q \o z = h \o q
      BY <2>4, ConcatEmptySeq
    <2> HIDE DEF z
    <2>2. Laid(g, h, q, z)
      BY <1>4, <1>7, <1>9, <1>11, <1>12, <1>13, <2>1 DEF Laid
    <2>3. g = h \o q \o z
      BY <1>7, <1>9, <1>11, <2>1, <2>2, JoinedOnce
    <2> QED BY <2>3, <2>5
  <1> QED BY <1>7, <1>10, <1>14, Zenon DEF g, q, f

LEMMA AckIsMade ==
    ASSUME NEW q \in Seq(Byte), ~AckFails(q), GlobalCode(q) = 0
    PROVE  /\ AckParameters(q) \in Seq(Byte) /\ AckData(q) \in Seq(Byte)
           /\ q = AckPayload(AckParameters(q), AckData(q))
  <1> DEFINE n == At16(q, 7)
             a == AckParameters(q)
             b == AckData(q)
             h == <<50, 3, 0, 0, Hi(Reference), Lo(Reference), Hi(Len(a)), Lo(Len(a)),
                    Hi(Len(b)), Lo(Len(b)), 0, 0>>
             m == Len(q)
  <1>1. /\ m \in Nat /\ m >= 12 /\ SubSeq(q, 1, 4) = <<50, 3, 0, 0>> /\ At16(q, 5) = Reference
        /\ ~(n > m - 12) /\ At16(q, 9) = m - 12 - n /\ At16(q, 11) = 0
    BY DEF AckFails, AckHeaderSize, GlobalCode
  <1>2. \A i \in 1..12 : q[i] \in Byte
    BY <1>1
  <1>3. /\ q[1] = 50 /\ q[2] = 3 /\ q[3] = 0 /\ q[4] = 0
    <2>1. SubSeq(q, 1, 4) = <<q[1], q[2], q[3], q[4]>>
      BY <1>1, FourBytes
    <2> QED BY <1>1, <2>1
  <1>4. /\ n = q[7] * 256 + q[8] /\ At16(q, 5) = q[5] * 256 + q[6]
        /\ At16(q, 9) = q[9] * 256 + q[10] /\ At16(q, 11) = q[11] * 256 + q[12]
    BY DEF At16
  <1>5. /\ Hi(Reference) = q[5] /\ Lo(Reference) = q[6] /\ Hi(n) = q[7] /\ Lo(n) = q[8]
        /\ Hi(m - 12 - n) = q[9] /\ Lo(m - 12 - n) = q[10]
    <2>1. q[5] \in Byte /\ q[6] \in Byte /\ q[7] \in Byte /\ q[8] \in Byte /\ q[9] \in Byte
          /\ q[10] \in Byte
      BY <1>2
    <2> HIDE DEF n, m
    <2>2. /\ Hi(q[5] * 256 + q[6]) = q[5] /\ Lo(q[5] * 256 + q[6]) = q[6]
          /\ Hi(q[7] * 256 + q[8]) = q[7] /\ Lo(q[7] * 256 + q[8]) = q[8]
          /\ Hi(q[9] * 256 + q[10]) = q[9] /\ Lo(q[9] * 256 + q[10]) = q[10]
      BY <2>1, WordBytes
    <2> QED BY <1>1, <1>4, <2>2, SMTT(30)
  <1>6. q[11] = 0 /\ q[12] = 0
    <2>1. q[11] \in Byte /\ q[12] \in Byte
      BY <1>2
    <2>2. q[11] \in Nat /\ q[12] \in Nat
      BY <2>1, BytesAreNumbers
    <2>3. q[11] * 256 + q[12] = 0
      BY <1>1, <1>4
    <2> QED BY <2>2, <2>3
  <1>7. n \in Nat
    <2>1. q[7] \in Nat /\ q[8] \in Nat
      BY <1>2, BytesAreNumbers, SMTT(30)
    <2> QED BY <1>4, <2>1, SMTT(30)
  <1> HIDE DEF n
  <1>8. a \in Seq(Byte) /\ Len(a) = n /\ \A i \in 1..n : a[i] = q[12 + i]
    <2> DEFINE e == 12 + n
    <2>1. a = SubSeq(q, 13, e)
      BY DEF AckParameters, n
    <2>2. e \in Nat /\ 13 >= 1 /\ e <= Len(q) /\ 13 <= e + 1 /\ 13 - 1 = 12 /\ e - 12 = n
      BY <1>1, <1>7
    <2> HIDE DEF e, a
    <2>3. /\ SubSeq(q, 13, e) \in Seq(Byte) /\ Len(SubSeq(q, 13, e)) = e - (13 - 1)
          /\ \A i \in 1..(e - (13 - 1)) : SubSeq(q, 13, e)[i] = q[(13 - 1) + i]
      BY <2>2, Slice
    <2> QED BY <2>1, <2>2, <2>3
  <1>9. b \in Seq(Byte) /\ Len(b) = m - 12 - n /\ \A i \in 1..(m - 12 - n) : b[i] = q[12 + n + i]
    <2> DEFINE o == 13 + n
    <2>1. b = SubSeq(q, o, m)
      BY DEF AckData, n
    <2>2. o \in Nat /\ o >= 1 /\ m <= Len(q) /\ o <= m + 1 /\ o - 1 = 12 + n
          /\ m - (12 + n) = m - 12 - n
      BY <1>1, <1>7
    <2> HIDE DEF o, b
    <2>3. /\ SubSeq(q, o, m) \in Seq(Byte) /\ Len(SubSeq(q, o, m)) = m - (o - 1)
          /\ \A i \in 1..(m - (o - 1)) : SubSeq(q, o, m)[i] = q[(o - 1) + i]
      BY <1>1, <2>2, Slice, SMTT(30)
    <2> HIDE DEF m
    <2> QED BY <2>1, <2>2, <2>3
  <1>10. 50 \in Byte /\ 3 \in Byte /\ 0 \in Byte
    BY DEF Byte
  <1>11. AckPayload(a, b) = h \o a \o b
    BY DEF AckPayload
  <1> HIDE DEF a, b, m
  <1>12. /\ h \in Seq(Byte) /\ Len(h) = 12 /\ h[1] = 50 /\ h[2] = 3 /\ h[3] = 0 /\ h[4] = 0
         /\ h[5] = q[5] /\ h[6] = q[6] /\ h[7] = q[7] /\ h[8] = q[8]
         /\ h[9] = q[9] /\ h[10] = q[10] /\ h[11] = 0 /\ h[12] = 0
    <2>1. /\ Hi(Len(a)) = q[7] /\ Lo(Len(a)) = q[8] /\ Hi(Len(b)) = q[9] /\ Lo(Len(b)) = q[10]
      BY <1>5, <1>8, <1>9
    <2>2. /\ q[5] \in Byte /\ q[6] \in Byte /\ q[7] \in Byte /\ q[8] \in Byte /\ q[9] \in Byte
          /\ q[10] \in Byte
      BY <1>2
    <2> QED BY <1>5, <1>10, <2>1, <2>2
  <1> HIDE DEF h
  <1>13. \A i \in 1..12 : q[i] = h[i]
    <2>1. \A i \in 1..12 : \/ i = 1 \/ i = 2 \/ i = 3 \/ i = 4 \/ i = 5 \/ i = 6 \/ i = 7
                           \/ i = 8 \/ i = 9 \/ i = 10 \/ i = 11 \/ i = 12
      OBVIOUS
    <2>2. /\ q[1] = h[1] /\ q[2] = h[2] /\ q[3] = h[3] /\ q[4] = h[4] /\ q[5] = h[5]
          /\ q[6] = h[6] /\ q[7] = h[7] /\ q[8] = h[8] /\ q[9] = h[9] /\ q[10] = h[10]
          /\ q[11] = h[11] /\ q[12] = h[12]
      BY <1>3, <1>6, <1>12
    <2> QED BY <2>1, <2>2, SMTT(30)
  <1>14. q = h \o a \o b
    <2>1. m = 12 + n + (m - 12 - n)
      BY <1>1, <1>7
    <2>2. Len(q) = Len(h) + Len(a) + Len(b)
      BY <1>8, <1>9, <1>12, <2>1 DEF m
    <2>3. \A i \in 1..Len(a) : q[Len(h) + i] = a[i]
      BY <1>8, <1>12, SMTT(30)
    <2>4. \A i \in 1..Len(b) : q[Len(h) + Len(a) + i] = b[i]
      BY <1>8, <1>9, <1>12, ZenonT(60)
    <2>5. Laid(q, h, a, b)
      BY <1>12, <1>13, <2>2, <2>3, <2>4 DEF Laid
    <2> QED BY <1>8, <1>9, <1>12, <2>5, JoinedOnce
  <1> QED BY <1>8, <1>9, <1>11, <1>14 DEF a, b



\* The block of item p that begins behind index o.
BlockRead(body, o, p) ==
    [code |-> body[o + 1], transport |-> body[o + 2], length |-> At16(body, o + 3),
     value |-> IF body[o + 1] = 255 THEN SubSeq(body, o + 5, o + 4 + p.dataBytes) ELSE <<>>]

RoundGives(next, o, i, ps, body, b, padded) ==
    /\ b.code \in Byte /\ b.transport \in Byte /\ b.value \in Seq(Byte)
    /\ b.length \in Nat /\ b.length <= MaxUint16
    /\ Refused(b) \/ Delivered(b, ps[i])
    /\ BlockAt(body, o, b.code, b.transport, b.length, b.value, padded)
    /\ next.offset = BlockEnd(o, b.value, padded) /\ next.offset \in Nat

LEMMA FailureStays ==
    ASSUME NEW acc, NEW i, NEW ps, NEW body, acc.fails
    PROVE  ReadItemResult(acc, i, ps, body).fails
  BY DEF ReadItemResult

\* A round that does not fail has found a block of its item.
LEMMA ReadRoundGives ==
    ASSUME NEW ps, NEW i, NEW acc, NEW body \in Seq(Byte), acc.offset \in Nat,
           GoodDescriptor(ps[i]), NEW b, b = BlockRead(body, acc.offset, ps[i]),
           NEW padded, padded = (i # Len(ps) /\ Len(b.value) % 2 # 0),
           ~ReadItemResult(acc, i, ps, body).fails
    PROVE  RoundGives(ReadItemResult(acc, i, ps, body), acc.offset, i, ps, body, b, padded)
  <1> DEFINE o == acc.offset
             p == ps[i]
             code == body[o + 1]
             length == At16(body, o + 3)
             d == p.dataBytes
             end == o + 4 + d
             Pads == i # Len(ps) /\ d % 2 # 0
             Failed == [offset |-> o, items |-> acc.items, fails |-> TRUE]
             Consumed(next, value) ==
               [offset |-> next, items |-> Append(acc.items, [code |-> code, data |-> value]),
                fails |-> FALSE]
             short == acc.fails \/ Len(body) - o < ItemDataHeaderSize
             odd == \/ body[o + 2] # p.responseTransport \/ length # EncodedLength(p)
                    \/ end > Len(body)
                    \/ Pads /\ PaddingFails(body, end)
             next == ReadItemResult(acc, i, ps, body)
             m == Len(body)
  <1>1. next =
          IF short THEN Failed
          ELSE IF code # 255
            THEN IF body[o + 2] # 0 \/ length \notin {0, 4} THEN Failed ELSE Consumed(o + 4, <<>>)
          ELSE IF odd THEN Failed
          ELSE Consumed(IF Pads THEN end + 1 ELSE end, SubSeq(body, o + 5, end))
    BY DEF ReadItemResult
  <1>2. o \in Nat /\ m \in Nat /\ d \in Nat /\ 1 <= d
    BY DescriptorLength
  <1>3. /\ b.code = code /\ b.transport = body[o + 2] /\ b.length = length
        /\ b.value = IF code = 255 THEN SubSeq(body, o + 5, end) ELSE <<>>
    BY DEF BlockRead
  <1>4. ~short
    <2> HIDE DEF short, odd, Consumed, code, end, Pads, length
    <2>1. Failed.fails
      OBVIOUS
    <2> HIDE DEF Failed
    <2> QED BY <1>1, <2>1
  <1>5. o + 4 <= m
    BY <1>2, <1>4 DEF ItemDataHeaderSize
  <1>6. /\ body[o + 1] \in Byte /\ body[o + 2] \in Byte /\ body[o + 3] \in Byte
        /\ body[o + 4] \in Byte
    <2>1. o + 1 \in 1..m /\ o + 2 \in 1..m /\ o + 3 \in 1..m /\ o + 4 \in 1..m
      BY <1>2, <1>5
    <2> HIDE DEF m, o
    <2> QED BY <2>1, ElementOfSeq DEF m
  <1>7. length \in Nat /\ length <= MaxUint16
    <2>1. length = body[o + 3] * 256 + body[o + 4]
      <3>1. o + 3 + 1 = o + 4
        BY <1>2
      <3> QED BY <3>1 DEF At16
    <2>2. /\ body[o + 3] \in Nat /\ body[o + 4] \in Nat /\ body[o + 3] <= 255 /\ body[o + 4] <= 255
      BY <1>6, BytesAreNumbers
    <2> HIDE DEF length, o
    <2> QED BY <2>1, <2>2, SMTT(30) DEF MaxUint16
  <1> HIDE DEF o, code, length, d, Pads, m
  <1>8. CASE code # 255
    <2>1. body[o + 2] = 0 /\ length \in {0, 4} /\ next = Consumed(o + 4, <<>>)
      <3>1. Failed.fails
        OBVIOUS
      <3> HIDE DEF Failed, short, Consumed, next
      <3> QED BY <1>1, <1>4, <1>8, <3>1 DEF next
    <2>2. b.value = <<>> /\ b.value \in Seq(Byte) /\ Len(b.value) = 0
      BY <1>3, <1>8
    <2>3. Refused(b)
      BY <1>3, <1>8, <2>1, <2>2 DEF Refused
    <2>4. padded = FALSE
      <3>1. 0 % 2 = 0
        OBVIOUS
      <3> QED BY <2>2, <3>1
    <2>5. next.offset = o + 4
      BY <2>1
    <2> HIDE DEF next
    <2>6. BlockEnd(o, b.value, padded) = o + 4
      BY <1>2, <2>2, <2>4 DEF BlockEnd
    <2>7. SubSeq(body, o + 5, o + 4 + Len(b.value)) = b.value
      <3> DEFINE e == o + 4 + Len(b.value)
                 x == o + 5
      <3>1. x \in Nat /\ x >= 1 /\ e \in Nat /\ e <= m /\ x <= e + 1 /\ e - (x - 1) = 0
        BY <1>2, <1>5, <2>2
      <3> HIDE DEF e, x
      <3>2. SubSeq(body, x, e) \in Seq(Byte) /\ Len(SubSeq(body, x, e)) = e - (x - 1)
        BY <3>1, Slice DEF m
      <3>3. SubSeq(body, x, e) = <<>>
        BY <3>1, <3>2
      <3> QED BY <2>2, <3>3 DEF x, e
    <2>8. BlockAt(body, o, b.code, b.transport, b.length, b.value, padded)
      <3>1. BlockEnd(o, b.value, padded) <= Len(body)
        BY <1>5, <2>6 DEF m
      <3>2. body[o + 1] = b.code /\ body[o + 2] = b.transport /\ At16(body, o + 3) = b.length
        BY <1>3 DEF code, length
      <3> QED BY <2>4, <2>7, <3>1, <3>2 DEF BlockAt
    <2>9. next.offset \in Nat /\ next.offset = BlockEnd(o, b.value, padded)
      <3>1. o + 4 \in Nat
        BY <1>2
      <3> QED BY <2>5, <2>6, <3>1, Zenon
    <2> QED BY <1>3, <1>6, <1>7, <2>2, <2>3, <2>8, <2>9 DEF RoundGives, next, o, code
  <1>9. CASE code = 255
    <2> DEFINE w == IF Pads THEN end + 1 ELSE end
               v == SubSeq(body, o + 5, end)
    <2>1. ~odd /\ next = Consumed(w, v)
      <3>1. Failed.fails
        OBVIOUS
      <3> HIDE DEF Failed, short, Consumed, next, odd, w, v
      <3> QED BY <1>1, <1>4, <1>9, <3>1 DEF next, w, v
    <2>2. /\ body[o + 2] = p.responseTransport /\ length = EncodedLength(p) /\ ~(end > m)
          /\ Pads => ~PaddingFails(body, end)
      <3> HIDE DEF p, end
      <3> QED BY <2>1 DEF m
    <2>3. end \in Nat /\ end <= m /\ end = o + 4 + d
      BY <1>2, <2>2
    <2>4. b.value = v /\ v \in Seq(Byte) /\ Len(v) = d
      <3> DEFINE x == o + 5
      <3>1. x \in Nat /\ x >= 1 /\ x <= end + 1 /\ end - (x - 1) = d
        BY <1>2
      <3>2. v = SubSeq(body, x, end)
        OBVIOUS
      <3> HIDE DEF x, end, v
      <3>3. SubSeq(body, x, end) \in Seq(Byte) /\ Len(SubSeq(body, x, end)) = end - (x - 1)
        BY <2>3, <3>1, Slice DEF m
      <3>4. b.value = v
        BY <1>3, <1>9 DEF v
      <3> QED BY <3>1, <3>2, <3>3, <3>4
    <2>5. Delivered(b, p)
      BY <1>3, <1>9, <2>2, <2>4 DEF Delivered, d
    <2>6. padded <=> Pads
      BY <2>4 DEF Pads
    <2>7. Pads => ~(end >= m) /\ body[end + 1] = 0
      <3> HIDE DEF end
      <3> QED BY <2>2 DEF PaddingFails, m
    <2>8. next.offset = w
      <3> HIDE DEF w, v
      <3> QED BY <2>1
    <2>9. BlockEnd(o, b.value, padded) = w /\ w \in Nat /\ w <= m
      <3>1. BlockEnd(o, b.value, padded) = o + 4 + d + (IF Pads THEN 1 ELSE 0)
        BY <2>4, <2>6 DEF BlockEnd
      <3>2. end = o + 4 + d /\ end \in Nat
        BY <2>3
      <3> HIDE DEF end
      <3>3. Pads => ~(end >= m)
        BY <2>7
      <3>4. w = end + (IF Pads THEN 1 ELSE 0)
        BY <3>2
      <3> DEFINE z == IF Pads THEN 1 ELSE 0
      <3>5. z \in {0, 1} /\ (z = 1 => ~(end >= m))
        BY <3>3
      <3>6. w = end + z /\ BlockEnd(o, b.value, padded) = o + 4 + d + z
        BY <3>1, <3>4
      <3> HIDE DEF z, w
      <3>7. w \in Nat /\ w <= m /\ o + 4 + d + z = w
        BY <1>2, <2>3, <3>2, <3>5, <3>6
      <3> QED BY <3>6, <3>7, Zenon
    <2>10. SubSeq(body, o + 5, o + 4 + Len(b.value)) = b.value
      BY <2>4
    <2>11. padded => body[(o + 4 + Len(b.value)) + 1] = 0
      BY <2>4, <2>6, <2>7
    <2> HIDE DEF w, v, next, end
    <2>12. BlockAt(body, o, b.code, b.transport, b.length, b.value, padded)
      BY <1>3, <2>9, <2>10, <2>11 DEF BlockAt, code, length, m
    <2>13. b.code \in Byte /\ b.transport \in Byte /\ b.length \in Nat /\ b.length <= MaxUint16
      BY <1>3, <1>6, <1>7 DEF code
    <2>14. b.value \in Seq(Byte) /\ next.offset = BlockEnd(o, b.value, padded) /\ next.offset \in Nat
      BY <2>4, <2>8, <2>9
    <2> QED BY <2>5, <2>12, <2>13, <2>14 DEF RoundGives, next, o
  <1> QED BY <1>8, <1>9



\* The bytes of a block that a body holds.
LEMMA BlockBytes ==
    ASSUME NEW body \in Seq(Byte), NEW o \in Nat,
           NEW code \in Byte, NEW transport \in Byte, NEW length \in Nat, length <= MaxUint16,
           NEW value \in Seq(Byte), NEW padded \in BOOLEAN,
           BlockAt(body, o, code, transport, length, value, padded)
    PROVE  LET b == Block(code, transport, length, value, padded)
           IN \A j \in 1..Len(b) : body[o + j] = b[j]
  <1> DEFINE b == Block(code, transport, length, value, padded)
             l == Len(value)
             z == IF padded THEN 1 ELSE 0
             m == Len(body)
  <1>1. /\ b \in Seq(Byte) /\ Len(b) = BlockEnd(0, value, padded)
        /\ b[1] = code /\ b[2] = transport /\ b[3] * 256 + b[4] = length
        /\ \A j \in 1..l : b[4 + j] = value[j]
        /\ padded => b[4 + l + 1] = 0
    BY BlockParts
  <1> HIDE DEF b
  <1>2. l \in Nat /\ m \in Nat /\ z \in {0, 1} /\ (z = 1 => padded) /\ o + 4 + l + z <= m
        /\ Len(b) = 0 + 4 + l + z
    BY <1>1 DEF BlockAt, BlockEnd
  <1>3. /\ body[o + 1] = code /\ body[o + 2] = transport /\ At16(body, o + 3) = length
        /\ SubSeq(body, o + 5, o + 4 + l) = value
        /\ padded => body[(o + 4 + l) + 1] = 0
    BY DEF BlockAt
  <1> HIDE DEF l, z, m
  <1>4. body[o + 3] = b[3] /\ body[o + 4] = b[4]
    <2>1. o + 3 \in 1..m /\ o + 4 \in 1..m /\ o + 3 + 1 = o + 4
      BY <1>2
    <2>2. body[o + 3] \in Byte /\ body[o + 4] \in Byte
      BY <2>1, ElementOfSeq DEF m
    <2>3. 3 \in 1..Len(b) /\ 4 \in 1..Len(b)
      BY <1>2
    <2>4. b[3] \in Byte /\ b[4] \in Byte
      BY <1>1, <2>3, ElementOfSeq
    <2>5. body[o + 3] * 256 + body[o + 4] = length
      BY <1>3, <2>1 DEF At16
    <2>6. Hi(length) = body[o + 3] /\ Lo(length) = body[o + 4]
      BY <2>2, <2>5, WordBytes
    <2>7. Hi(length) = b[3] /\ Lo(length) = b[4]
      BY <1>1, <2>4, WordBytes
    <2> QED BY <2>6, <2>7
  <1>5. ASSUME NEW j \in 1..l PROVE body[o + (4 + j)] = b[4 + j]
    <2> DEFINE x == o + 5
               e == o + 4 + l
    <2>1. x \in Nat /\ x >= 1 /\ e \in Nat /\ e <= m /\ x <= e + 1 /\ j \in 1..(e - (x - 1))
          /\ (x - 1) + j = o + (4 + j)
      BY <1>2
    <2>0. SubSeq(body, x, e) = value
      BY <1>3
    <2> HIDE DEF x, e
    <2>2. SubSeq(body, x, e)[j] = body[(x - 1) + j]
      BY <2>1, Slice DEF m
    <2>3. value[j] = body[o + (4 + j)]
      BY <2>0, <2>1, <2>2
    <2> QED BY <1>1, <2>3
  <1>6. z = 1 => body[o + (4 + l + 1)] = b[4 + l + 1]
    <2>1. (o + 4 + l) + 1 = o + (4 + l + 1)
      BY <1>2
    <2> QED BY <1>1, <1>2, <1>3, <2>1
  <1>7. ASSUME NEW j \in 1..Len(b) PROVE body[o + j] = b[j]
    <2>1. CASE j <= 4
      <3>1. j = 1 \/ j = 2 \/ j = 3 \/ j = 4
        BY <1>2, <2>1
      <3> QED BY <1>1, <1>3, <1>4, <3>1
    <2>2. CASE 4 < j /\ j <= 4 + l
      <3>1. j - 4 \in 1..l /\ 4 + (j - 4) = j
        BY <1>2, <2>2
      <3> QED BY <1>5, <3>1
    <2>3. CASE 4 + l < j
      <3>1. z = 1 /\ j = 4 + l + 1
        BY <1>2, <2>3
      <3> QED BY <1>6, <3>1
    <2> QED BY <1>2, <2>1, <2>2, <2>3, SMTT(30)
  <1> QED BY <1>7 DEF b

\* An answer whose data ParseReadResponse accepts consists of blocks of the items.
LEMMA AnswerIsMade ==
    ASSUME NEW n, NEW ps, GoodBatch(ps, n), NEW body \in Seq(Byte),
           ~ReadLoop(ps, body)[n].fails, ReadLoop(ps, body)[n].offset = Len(body)
    PROVE  \E r : GoodAnswer(ps, r, n) /\ body = FlattenSeq(Blocks(r, n))
  <1> DEFINE L == ReadLoop(ps, body)
             r == [i \in 1..n |-> BlockRead(body, L[i - 1].offset, ps[i])]
             Z(i) == PaddedAt(r, n, i)
             Gives(i) == RoundGives(L[i], L[i - 1].offset, i, ps, body, r[i], Z(i))
  <1>1. n \in Nat /\ 1 <= n /\ Len(ps) = n /\ \A i \in 1..n : GoodDescriptor(ps[i])
    BY DEF GoodBatch
  <1>2. /\ L[0] = [offset |-> 0, items |-> <<>>, fails |-> FALSE]
        /\ \A k \in 1..n : L[k] = ReadItemResult(L[k - 1], k, ps, body)
    <2>1. n \in Nat
      BY <1>1
    <2>2. ReadRounds(L, n, ps, body)
      BY <1>1, <2>1, ReadsOn
    <2> QED BY <2>2 DEF ReadRounds
  <1>3. ~L[n].fails /\ L[n].offset = Len(body)
    OBVIOUS
  <1> HIDE DEF L
  <1>4. \A k \in 0..n : ~L[k].fails
    <2> DEFINE S == {j \in 0..n : ~L[n - j].fails}
    <2>1. 0 \in S
      <3>1. n - 0 = n /\ 0 \in 0..n
        BY <1>1
      <3> QED BY <1>3, <3>1
    <2>2. ASSUME NEW j \in 1..n, j - 1 \in S PROVE j \in S
      <3> DEFINE k == n - (j - 1)
      <3>1. k \in 1..n /\ k - 1 = n - j /\ j \in 0..n
        BY <1>1
      <3>2. ~L[k].fails
        BY <2>2
      <3> HIDE DEF k
      <3>3. L[k] = ReadItemResult(L[k - 1], k, ps, body)
        BY <1>2, <3>1
      <3>4. ~L[k - 1].fails
        BY <3>2, <3>3, FailureStays
      <3> QED BY <3>1, <3>4
    <2> HIDE DEF S
    <2>3. \A j \in 0..n : j \in S
      BY <1>1, <2>1, <2>2, UpTo
    <2>4. ASSUME NEW k \in 0..n PROVE ~L[k].fails
      <3>1. n - k \in 0..n /\ n - (n - k) = k
        BY <1>1
      <3>2. n - k \in S
        BY <2>3, <3>1
      <3> QED BY <3>1, <3>2 DEF S
    <2> QED BY <2>4
  <1>5. ASSUME NEW i \in 1..n, L[i - 1].offset \in Nat PROVE Gives(i)
    <2> DEFINE acc == L[i - 1]
               b == r[i]
               z == i # Len(ps) /\ Len(b.value) % 2 # 0
    <2>1. b = BlockRead(body, acc.offset, ps[i]) /\ acc.offset \in Nat /\ GoodDescriptor(ps[i])
      BY <1>1, <1>5
    <2>2. L[i] = ReadItemResult(acc, i, ps, body) /\ ~L[i].fails
      <3>1. i \in 0..n
        BY <1>1
      <3> QED BY <1>2, <1>4, <3>1
    <2>3. Z(i) = z
      BY <1>1 DEF PaddedAt
    <2> HIDE DEF acc, b, r
    <2>5. ~ReadItemResult(acc, i, ps, body).fails
      BY <2>2
    <2>6. z = (i # Len(ps) /\ Len(b.value) % 2 # 0)
      OBVIOUS
    <2> HIDE DEF z
    <2>4. RoundGives(ReadItemResult(acc, i, ps, body), acc.offset, i, ps, body, b, z)
      BY <2>1, <2>5, <2>6, ReadRoundGives
    <2> QED BY <2>2, <2>3, <2>4, Zenon DEF acc, b
  <1> HIDE DEF r
  <1>6. \A k \in 0..n : L[k].offset \in Nat
    <2> DEFINE S == {k \in 0..n : L[k].offset \in Nat}
    <2>1. 0 \in S
      BY <1>1, <1>2
    <2>2. ASSUME NEW k \in 1..n, k - 1 \in S PROVE k \in S
      <3>1. Gives(k)
        BY <1>5, <2>2
      <3>2. L[k].offset \in Nat /\ k \in 0..n
        BY <3>1 DEF RoundGives
      <3> QED BY <3>2
    <2> HIDE DEF S
    <2>3. \A k \in 0..n : k \in S
      BY <1>1, <2>1, <2>2, UpTo
    <2> QED BY <2>3 DEF S
  <1>7. \A i \in 1..n : Gives(i)
    <2>1. \A i \in 1..n : i - 1 \in 0..n
      BY <1>1
    <2> HIDE DEF Gives
    <2> QED BY <1>5, <1>6, <2>1
  <1>8. GoodAnswer(ps, r, n)
    <2>1. GoodBlocks(r, n)
      BY <1>1, <1>7 DEF GoodBlocks, RoundGives
    <2>2. \A i \in 1..n : Refused(r[i]) \/ Delivered(r[i], ps[i])
      BY <1>7 DEF RoundGives
    <2> QED BY <2>1, <2>2 DEF GoodAnswer
  <1> DEFINE ss == Blocks(r, n)
             t == Starts(ss)
  <1>9. ss \in Seq(Seq(Byte)) /\ Len(ss) = n
    <2>1. GoodBlocks(r, n)
      BY <1>8 DEF GoodAnswer
    <2> QED BY <2>1, BlocksLaid, Zenon
  <1>10. ASSUME NEW i \in 1..n
         PROVE  /\ ss[i] = Block(r[i].code, r[i].transport, r[i].length, r[i].value, Z(i))
                /\ L[i].offset = BlockEnd(L[i - 1].offset, r[i].value, Z(i))
                /\ Len(ss[i]) = BlockEnd(0, r[i].value, Z(i))
                /\ \A j \in 1..Len(ss[i]) : body[L[i - 1].offset + j] = ss[i][j]
    <2> DEFINE c == r[i].code
               x == r[i].transport
               l == r[i].length
               v == r[i].value
               z == Z(i)
               o == L[i - 1].offset
    <2>1. /\ c \in Byte /\ x \in Byte /\ l \in Nat /\ l <= MaxUint16 /\ v \in Seq(Byte)
          /\ BlockAt(body, o, c, x, l, v, z) /\ L[i].offset = BlockEnd(o, v, z)
      BY <1>7 DEF RoundGives
    <2>2. z \in BOOLEAN
      BY DEF PaddedAt
    <2>3. o \in Nat
      <3>1. i - 1 \in 0..n
        BY <1>1
      <3> QED BY <1>6, <3>1
    <2>4. ss[i] = Block(c, x, l, v, z)
      BY DEF Blocks
    <2> HIDE DEF c, x, l, v, z, o, ss
    <2>5. \A j \in 1..Len(Block(c, x, l, v, z)) : body[o + j] = Block(c, x, l, v, z)[j]
      BY <2>1, <2>2, <2>3, BlockBytes
    <2>6. Len(Block(c, x, l, v, z)) = BlockEnd(0, v, z)
      BY <2>1, <2>2, BlockParts
    <2>7. /\ L[i].offset = BlockEnd(o, v, z) /\ Len(ss[i]) = BlockEnd(0, v, z)
          /\ \A j \in 1..Len(ss[i]) : body[o + j] = ss[i][j]
      BY <2>1, <2>4, <2>5, <2>6
    <2> QED BY <2>4, <2>7 DEF c, x, l, v, z, o
  <1>11. t[0] = 0 /\ \A k \in 1..n : t[k] = t[k - 1] + Len(ss[k])
    <2> HIDE DEF ss
    <2> QED BY <1>9, StartsAre
  <1> HIDE DEF ss, t
  <1>12. \A k \in 0..n : t[k] = L[k].offset
    <2> DEFINE S == {k \in 0..n : t[k] = L[k].offset}
    <2>1. 0 \in S
      BY <1>1, <1>2, <1>11
    <2>2. ASSUME NEW k \in 1..n, k - 1 \in S PROVE k \in S
      <3> DEFINE o == L[k - 1].offset
                 l == Len(r[k].value)
                 y == IF Z(k) THEN 1 ELSE 0
      <3>1. t[k] = o + Len(ss[k])
        BY <1>11, <2>2
      <3>2. Len(ss[k]) = 0 + 4 + l + y /\ L[k].offset = o + 4 + l + y
        <4> HIDE DEF Z
        <4> QED BY <1>10 DEF BlockEnd
      <3>3. o \in Nat
        <4>1. k - 1 \in 0..n
          BY <1>1
        <4> QED BY <1>6, <4>1
      <3>4. l \in Nat /\ y \in Nat
        <4>1. r[k].value \in Seq(Byte)
          BY <1>7 DEF RoundGives
        <4> HIDE DEF Z
        <4> QED BY <4>1
      <3> HIDE DEF o, l, y
      <3>5. t[k] = L[k].offset
        BY <3>1, <3>2, <3>3, <3>4
      <3>6. k \in 0..n
        BY <1>1
      <3> QED BY <3>5, <3>6
    <2> HIDE DEF S
    <2>3. \A k \in 0..n : k \in S
      BY <1>1, <2>1, <2>2, UpTo
    <2> QED BY <2>3 DEF S
  <1>13. MadeOf(body, n, ss)
    <2>1. Len(body) = t[n]
      <3>1. n \in 0..n
        BY <1>1
      <3> QED BY <1>3, <1>12, <3>1
    <2>2. ASSUME NEW i \in 1..n, NEW j \in 1..Len(ss[i]) PROVE body[t[i - 1] + j] = ss[i][j]
      <3>1. i - 1 \in 0..n
        BY <1>1
      <3>2. t[i - 1] = L[i - 1].offset
        BY <1>12, <3>1
      <3> QED BY <1>10, <3>2
    <2> QED BY <2>1, <2>2 DEF MadeOf, t
  <1>14. body = FlattenSeq(ss)
    BY <1>1, <1>9, <1>13, FlattenUnique, SMTT(30)
  <1> QED BY <1>8, <1>14 DEF ss



LEMMA Singles ==
    ASSUME NEW n \in Nat, 1 <= n, NEW b \in Seq(Byte), Len(b) = n
    PROVE  FlattenSeq([i \in 1..n |-> <<b[i]>>]) = b
  <1> DEFINE ss == [i \in 1..n |-> <<b[i]>>]
             t == Starts(ss)
  <1>1. \A i \in 1..n : b[i] \in Byte
    OBVIOUS
  <1>2. ss \in [1..n -> Seq(Byte)] /\ \A i \in 1..n : Len(ss[i]) = 1 /\ ss[i][1] = b[i]
    BY <1>1
  <1> HIDE DEF ss
  <1>3. ss \in Seq(Seq(Byte)) /\ Len(ss) = n
    BY <1>2
  <1>4. t[0] = 0 /\ \A k \in 1..n : t[k] = t[k - 1] + Len(ss[k])
    BY <1>3, StartsAre
  <1> HIDE DEF t
  <1> DEFINE S == {k \in 0..n : t[k] = k}
  <1>5. 0 \in S
    BY <1>4
  <1>6. ASSUME NEW k \in 1..n, k - 1 \in S PROVE k \in S
    <2>1. t[k] = (k - 1) + 1
      BY <1>2, <1>4, <1>6
    <2> QED BY <2>1
  <1> HIDE DEF S
  <1>7. \A k \in 0..n : k \in S
    BY <1>5, <1>6, UpTo
  <1>8. \A k \in 0..n : t[k] = k
    BY <1>7 DEF S
  <1>9. MadeOf(b, n, ss)
    <2>1. Len(b) = t[n]
      BY <1>8
    <2>2. ASSUME NEW i \in 1..n, NEW j \in 1..Len(ss[i]) PROVE b[t[i - 1] + j] = ss[i][j]
      <3>0. Len(ss[i]) = 1
        BY <1>2
      <3>1. i - 1 \in 0..n /\ j = 1 /\ (i - 1) + 1 = i
        BY <3>0
      <3>2. t[i - 1] + j = i
        BY <1>8, <3>1
      <3> QED BY <1>2, <3>1, <3>2
    <2> QED BY <2>1, <2>2 DEF MadeOf, t
  <1>10. b = FlattenSeq(ss)
    BY <1>3, <1>9, FlattenUnique
  <1> QED BY <1>10 DEF ss

\* What an accepted answer consists of.
WriteGives(b, n) ==
    /\ b \in Seq(Byte) /\ Len(b) = n /\ Len(result.items) = n
    /\ \A i \in 1..n : result.items[i].code = b[i]
ReadGives(b, n, r) ==
    /\ GoodAnswer(ProtocolItems, r, n) /\ b = FlattenSeq(Blocks(r, n)) /\ Len(result.items) = n
    /\ \A i \in 1..n : result.items[i].code = r[i].code /\ result.items[i].data = r[i].value

LEMMA AcceptedParts ==
    ASSUME WireInv, pc = "done", result.error = NoError
    PROVE  \E b : /\ [Frame(reply) EXCEPT ![7] = 128] = Ack(Reference, <<FunctionOf, Len(items)>>, b)
                  /\ write => WriteGives(b, Len(items))
                  /\ ~write => \E r : ReadGives(b, Len(items), r)
  <1> DEFINE n == Len(items)
             ps == ProtocolItems
             f == Frame(reply)
             q == Payload(f)
             a == AckParameters(q)
             b == AckData(q)
             Parsed == IF write THEN ParseWriteResponse(q, ps) ELSE ParseReadResponse(q, ps)
  <1>1. /\ result = ResultOf /\ ServedInv /\ Answered /\ write \in BOOLEAN
        /\ GoodBatch(ps, n)
    BY DoneCall
  <1>2. reply \in Seq(Byte)
    BY <1>1 DEF ServedInv
  <1>3. n \in Nat /\ 1 <= n /\ Len(ps) = n /\ DOMAIN ps = 1..n
    BY <1>1 DEF GoodBatch
  <1>4. /\ ~ReadFrameFails(reply) /\ ~UnwrapFails(f) /\ ~AckFails(q) /\ GlobalCode(q) = 0
        /\ result = Parsed
    <2> HIDE DEF f, q
    <2>1. result = IF ReadFrameFails(reply) THEN [error |-> "transport", items |-> <<>>]
                   ELSE IF ExceedsLimits(f) \/ UnwrapFails(f) \/ AckFails(q) THEN Malformed
                   ELSE IF GlobalCode(q) # 0 THEN [error |-> "plc", items |-> <<>>]
                   ELSE Parsed
      BY <1>1 DEF ResultOf, f, q
    <2> HIDE DEF Parsed
    <2>2. \A x : x.error = NoError =>
            /\ x # [error |-> "transport", items |-> <<>>] /\ x # Malformed
            /\ x # [error |-> "plc", items |-> <<>>]
      BY DEF NoError, Malformed
    <2> QED BY <2>1, <2>2
  <1>5. q \in Seq(Byte) /\ [f EXCEPT ![7] = 128] = WrapData(q)
    BY <1>2, <1>4, FrameIsWrapped
  <1> HIDE DEF f, q
  <1>6. a \in Seq(Byte) /\ b \in Seq(Byte) /\ q = AckPayload(a, b)
    BY <1>4, <1>5, AckIsMade
  <1>7. [f EXCEPT ![7] = 128] = Ack(Reference, a, b)
    <2> HIDE DEF a, b
    <2>1. Ack(Reference, a, b) = WrapData(AckPayload(a, b))
      BY DEF Ack, AckPayload
    <2> QED BY <1>5, <1>6, <2>1
  <1>8. CASE write
    <2> HIDE DEF ps
    <2>1. ~(a # <<5, Len(ps)>> \/ Len(b) # Len(ps))
      BY <1>4, <1>8 DEF ParseWriteResponse, Malformed, NoError
    <2>2. result = [error |-> NoError, items |-> [i \in DOMAIN ps |-> [code |-> b[i], data |-> <<>>]]]
      BY <1>4, <1>8, <2>1 DEF ParseWriteResponse
    <2> HIDE DEF a, b, n
    <2>3. result.items = [i \in 1..n |-> [code |-> b[i], data |-> <<>>]]
      BY <1>3, <2>2
    <2>4. a = <<FunctionOf, n>> /\ Len(b) = n
      BY <1>3, <1>8, <2>1 DEF FunctionOf
    <2>5. WriteGives(b, n)
      BY <1>3, <1>6, <2>3, <2>4 DEF WriteGives
    <2> QED BY <1>7, <1>8, <2>4, <2>5 DEF f, n
  <1>9. CASE ~write
    <2> DEFINE all == ReadLoop(ps, b)[Len(ps)]
    <2> HIDE DEF ps
    <2>1. ~(a # <<4, Len(ps)>> \/ all.fails \/ all.offset # Len(b))
      BY <1>4, <1>9 DEF ParseReadResponse, Malformed, NoError
    <2>2. result = [error |-> NoError, items |-> all.items]
      BY <1>4, <1>9, <2>1 DEF ParseReadResponse
    <2> HIDE DEF a, b, n
    <2>3. a = <<FunctionOf, n>> /\ all = ReadLoop(ps, b)[n]
      BY <1>3, <1>9, <2>1 DEF FunctionOf
    <2> HIDE DEF all
    <2>4. PICK r : GoodAnswer(ps, r, n) /\ b = FlattenSeq(Blocks(r, n))
      BY <1>1, <1>6, <2>1, <2>3, AnswerIsMade
    <2>5. AnswerTaken(ReadLoop(ps, FlattenSeq(Blocks(r, n)))[n], FlattenSeq(Blocks(r, n)), r, n)
      BY <1>1, <2>4, AnswerRead
    <2>6. AnswerTaken(all, b, r, n)
      BY <2>3, <2>4, <2>5
    <2>7. result.items = all.items
      BY <2>2
    <2>8. ReadGives(b, n, r)
      BY <2>4, <2>6, <2>7 DEF ReadGives, AnswerTaken, ps
    <2> QED BY <1>7, <1>9, <2>3, <2>8 DEF f, n
  <1> QED BY <1>1, <1>8, <1>9

\* The encoding of a reported item, as AcceptedMeansUnderstood has it.
EncodedItem(r, i, length) ==
    IF write THEN <<r.code>>
    ELSE IF r.code # 255 THEN DataHeader(r.code, 0, length)
    ELSE DataHeader(255, Layout[items[i].transport].responseTransport,
                    IF items[i].transport = "bit" THEN 1
                    ELSE IF LengthInBits(items[i].transport) THEN 8 * Len(r.data)
                    ELSE Len(r.data))
         \o r.data \o (IF i < Len(items) /\ Len(r.data) % 2 = 1 THEN <<0>> ELSE <<>>)

\* It is the block that the item was taken from.
LEMMA EncodedIsBlock ==
    ASSUME NEW i \in 1..Len(items), Len(items) \in Nat, ~write, GoodItem(items[i]),
           NEW b, Refused(b) \/ Delivered(b, ProtocolItem(items[i])), b.value \in Seq(Byte),
           NEW x, x.code = b.code, x.data = b.value
    PROVE  EncodedItem(x, i, IF Refused(b) THEN b.length ELSE 0) =
             Block(b.code, b.transport, b.length, b.value,
                   i # Len(items) /\ Len(b.value) % 2 # 0)
  <1> DEFINE item == items[i]
             p == ProtocolItem(item)
             l == Len(b.value)
             n == Len(items)
             padded == i # n /\ l % 2 # 0
  <1>0. l \in Nat
    OBVIOUS
  <1>1. CASE Refused(b)
    <2>1. b.code # 255 /\ b.transport = 0 /\ b.value = <<>> /\ l = 0
      BY <1>1 DEF Refused
    <2>2. ~padded
      <3>1. 0 % 2 = 0
        OBVIOUS
      <3> QED BY <2>1, <3>1
    <2> DEFINE h == DataHeader(b.code, 0, b.length)
    <2>3. EncodedItem(x, i, IF Refused(b) THEN b.length ELSE 0) = h
      BY <1>1, <2>1 DEF EncodedItem
    <2>4. Block(b.code, b.transport, b.length, b.value, padded) = h \o <<>> \o <<>>
      BY <2>1, <2>2 DEF Block, Padding
    <2>5. h \o <<>> \o <<>> = h
      BY DEF DataHeader
    <2> QED BY <2>3, <2>4, <2>5
  <1>2. CASE Delivered(b, p)
    <2>1. /\ b.code = 255 /\ b.transport = p.responseTransport /\ b.length = EncodedLength(p)
          /\ l = p.dataBytes /\ ~Refused(b)
      BY <1>2 DEF Delivered, Refused
    <2>2. /\ GoodDescriptor(p)
          /\ p.wordLength = 1 <=> item.transport = "bit"
          /\ p.responseTransport = Layout[item.transport].responseTransport
          /\ p.lengthInBits = LengthInBits(item.transport)
      BY ItemDescriptor
    <2>3. p.wordLength = 1 => p.amount = 1
      BY <2>2 DEF GoodDescriptor
    <2> DEFINE e == IF item.transport = "bit" THEN 1
                    ELSE IF LengthInBits(item.transport) THEN 8 * l ELSE l
    <2>4. b.length = e
      <3> HIDE DEF p, l
      <3>1. p.dataBytes * 8 = 8 * l
        BY <1>0, <2>1
      <3> QED BY <2>1, <2>2, <2>3, <3>1 DEF EncodedLength
    <2>5. padded <=> i < n /\ l % 2 = 1
      <3> HIDE DEF l
      <3>1. l % 2 = 0 \/ l % 2 = 1
        BY <1>0
      <3> QED BY <3>1
    <2> DEFINE pad == IF i < n /\ l % 2 = 1 THEN <<0>> ELSE <<>>
    <2>6. Padding(padded) = pad
      BY <2>5 DEF Padding
    <2>7. EncodedItem(x, i, 0) = DataHeader(255, Layout[item.transport].responseTransport, e)
                                 \o x.data \o pad
      <3> DEFINE e2 == IF item.transport = "bit" THEN 1
                       ELSE IF LengthInBits(item.transport) THEN 8 * Len(x.data) ELSE Len(x.data)
                 pad2 == IF i < n /\ Len(x.data) % 2 = 1 THEN <<0>> ELSE <<>>
      <3>1. EncodedItem(x, i, 0) = DataHeader(255, Layout[item.transport].responseTransport, e2)
                                   \o x.data \o pad2
        BY <2>1, Zenon DEF EncodedItem
      <3>2. e2 = e /\ pad2 = pad
        OBVIOUS
      <3> HIDE DEF e2, e, pad2, pad
      <3> QED BY <3>1, <3>2, Zenon
    <2> HIDE DEF e, pad, padded, p, item
    <2>8. Block(b.code, b.transport, b.length, b.value, padded)
            = DataHeader(255, p.responseTransport, e) \o x.data \o pad
      <3>1. Block(b.code, b.transport, b.length, b.value, padded)
              = DataHeader(b.code, b.transport, b.length) \o b.value \o Padding(padded)
        BY DEF Block
      <3>2. DataHeader(b.code, b.transport, b.length) = DataHeader(255, p.responseTransport, e)
        BY <2>1, <2>4, Zenon
      <3> HIDE DEF l
      <3> QED BY <2>6, <3>1, <3>2, Zenon
    <2>9. EncodedItem(x, i, 0) = Block(b.code, b.transport, b.length, b.value, padded)
      BY <2>2, <2>7, <2>8
    <2> QED BY <2>1, <2>9 DEF padded
  <1> QED BY <1>1, <1>2

\* For every call, size and answer, damaged anywhere or not: what is accepted is the
\* encoding of what is reported.
THEOREM WireAccepted == Spec => []AcceptedMeansUnderstood
  <1>1. WireInv => AcceptedMeansUnderstood
    <2> SUFFICES ASSUME WireInv, pc = "done", result.error = NoError
                 PROVE  AcceptedMeansUnderstood
      BY DEF AcceptedMeansUnderstood
    <2> DEFINE n == Len(items)
               ps == ProtocolItems
               R == result.items
    <2>1. /\ n \in Nat /\ 1 <= n /\ write \in BOOLEAN
          /\ \A i \in 1..n : GoodItem(items[i]) /\ ps[i] = ProtocolItem(items[i])
                             /\ ps[i].dataBytes = Length(items[i])
      BY DoneCall
    <2>2. PICK b : /\ [Frame(reply) EXCEPT ![7] = 128] = Ack(Reference, <<FunctionOf, n>>, b)
                   /\ write => WriteGives(b, n)
                   /\ ~write => \E r : ReadGives(b, n, r)
      BY AcceptedParts
    <2>3. /\ Len(R) = n
          /\ \A i \in 1..n : ~write /\ R[i].code = 255 => Len(R[i].data) = Length(items[i])
          /\ \E lengths \in [1..n -> {0, 4}] :
               b = FlattenSeq([i \in 1..n |-> EncodedItem(R[i], i, lengths[i])])
      <3>1. CASE write
        <4>1. b \in Seq(Byte) /\ Len(b) = n /\ Len(R) = n /\ \A i \in 1..n : R[i].code = b[i]
          BY <2>2, <3>1 DEF WriteGives
        <4> DEFINE lengths == [i \in 1..n |-> 0]
        <4>2. lengths \in [1..n -> {0, 4}]
          OBVIOUS
        <4> HIDE DEF n
        <4>3. \A i \in 1..n : EncodedItem(R[i], i, lengths[i]) = <<b[i]>>
          BY <3>1, <4>1 DEF EncodedItem
        <4> HIDE DEF lengths, R
        <4>4. [i \in 1..n |-> EncodedItem(R[i], i, lengths[i])] = [i \in 1..n |-> <<b[i]>>]
          BY <4>3
        <4>5. FlattenSeq([i \in 1..n |-> <<b[i]>>]) = b
          BY <2>1, <4>1, Singles
        <4> QED BY <3>1, <4>1, <4>2, <4>4, <4>5
      <3>2. CASE ~write
        <4>1. PICK r : ReadGives(b, n, r)
          BY <2>2, <3>2
        <4>2. /\ Len(R) = n /\ b = FlattenSeq(Blocks(r, n))
              /\ \A i \in 1..n : R[i].code = r[i].code /\ R[i].data = r[i].value
          BY <4>1 DEF ReadGives
        <4>3. \A i \in 1..n : /\ Refused(r[i]) \/ Delivered(r[i], ps[i])
                              /\ r[i].value \in Seq(Byte)
          BY <4>1 DEF ReadGives, GoodAnswer, GoodBlocks
        <4> DEFINE lengths == [i \in 1..n |-> IF Refused(r[i]) THEN r[i].length ELSE 0]
        <4>4. lengths \in [1..n -> {0, 4}]
          BY DEF Refused
        <4>5. ASSUME NEW i \in 1..n
              PROVE  EncodedItem(R[i], i, lengths[i]) =
                       Block(r[i].code, r[i].transport, r[i].length, r[i].value,
                             PaddedAt(r, n, i))
          <5> DEFINE c == r[i]
                     x == R[i]
          <5>1. /\ Refused(c) \/ Delivered(c, ProtocolItem(items[i]))
                /\ c.value \in Seq(Byte) /\ x.code = c.code /\ x.data = c.value
                /\ GoodItem(items[i]) /\ n \in Nat
            BY <2>1, <4>2, <4>3
          <5> HIDE DEF c, x
          <5>2. EncodedItem(x, i, IF Refused(c) THEN c.length ELSE 0) =
                  Block(c.code, c.transport, c.length, c.value, i # n /\ Len(c.value) % 2 # 0)
            BY <3>2, <5>1, EncodedIsBlock
          <5>3. lengths[i] = IF Refused(c) THEN c.length ELSE 0
            BY DEF c
          <5> HIDE DEF lengths
          <5> QED BY <5>2, <5>3, Zenon DEF PaddedAt, c, x
        <4>6. ASSUME NEW i \in 1..n, R[i].code = 255 PROVE Len(R[i].data) = Length(items[i])
          BY <2>1, <4>2, <4>3, <4>6 DEF Refused, Delivered
        <4> HIDE DEF lengths, R, n
        <4>7. [i \in 1..n |-> EncodedItem(R[i], i, lengths[i])] = Blocks(r, n)
          BY <4>5 DEF Blocks
        <4> QED BY <3>2, <4>2, <4>4, <4>6, <4>7
      <3> QED BY <2>1, <3>1, <3>2
    <2>4. PICK lengths \in [1..n -> {0, 4}] :
            b = FlattenSeq([i \in 1..n |-> EncodedItem(R[i], i, lengths[i])])
      BY <2>3
    <2>5. [Frame(reply) EXCEPT ![7] = 128] =
            Ack(Reference, <<IF write THEN 5 ELSE 4, n>>,
                FlattenSeq([i \in 1..n |-> EncodedItem(R[i], i, lengths[i])]))
      BY <2>2, <2>4 DEF FunctionOf
    <2> QED BY <2>3, <2>5, Zenon DEF AcceptedMeansUnderstood, EncodedItem
  <1> QED BY <1>1, WireIsSound, PTL
=============================================================================
