-------------------------------- MODULE Codec --------------------------------
(***************************************************************************)
(* The value codecs of src/codec/scalar.go, as a machine that applies one  *)
(* codec after the other to the caller's buffer: what an operation leaves  *)
(* behind is what the next one starts from.  A buffer is a sequence of     *)
(* bytes.  REAL and LREAL are the 32 and 64 bits of an unsigned integer    *)
(* here: the conversion between them and a float is the processor's.       *)
(***************************************************************************)
EXTENDS Bytes, FiniteSetsExt

CONSTANTS
    Buffers,        \* buffers the caller starts with
    Values,         \* <<width, value>>: signed integers to put
    Unsigned,       \* <<width, value>>: unsigned ones
    Strings,        \* <<capacity, bytes, clearUnused>>: strings to put
    BitOffsets,     \* bit offsets to set
    Millisecond,    \* in units of a duration: 1000000, as the code counts nanoseconds
    Durations,      \* timer values to put, in these units
    Counts,         \* counter values to put
    Depth           \* bound: operations in a row

\* The value, and its quotients by 256 up to the power width, rounded down.
Shifted(width, value) ==
    LET quotient[k \in 0..width] == IF k = 0 THEN value ELSE quotient[k - 1] \div 256
    IN quotient

\* A value is one of the type of its width, as its top byte says.
ASSUME CodecAssumption ==
    /\ Buffers \subseteq Seq(Byte)
    /\ Values \subseteq {1, 2, 4, 8} \X Int /\ Unsigned \subseteq {1, 2, 4, 8} \X Nat
    /\ \A p \in Values : Shifted(p[1], p[2])[p[1] - 1] \in -128..127
    /\ \A p \in Unsigned : Shifted(p[1], p[2])[p[1] - 1] \in Byte
    /\ Strings \subseteq Byte \X Seq(Byte) \X BOOLEAN
    /\ BitOffsets \subseteq Nat /\ Depth \in Nat
    /\ Millisecond \in Nat \ {0} /\ Durations \subseteq Int /\ Counts \subseteq Int

VARIABLES
    buffer,         \* the caller's slice
    before,         \* history: the buffer when the last operation began
    last,           \* the last operation and its arguments
    ok,             \* it returned no error
    steps

vars == <<buffer, before, last, ok, steps>>

-----------------------------------------------------------------------------
\* Integers: PutInt8 ... PutUint64 store two's complement in network byte order,
\* which is the floor of the value divided by 256 again and again.

PutBytes(width, value) ==
    [k \in 1..width |-> Shifted(width, value)[width - k] % 256]

\* The value of the first k bytes, of which the first of all stands for first.
Joined(data, first) ==
    LET value[k \in 0..Len(data)] ==
          IF k = 0 THEN 0
          ELSE IF k = 1 THEN first
          ELSE value[k - 1] * 256 + data[k]
    IN value

\* Uint8 ... Uint64, and Int8 ... Int64, whose first byte has the sign.
UintOf(data) == Joined(data, data[1])[Len(data)]
Signed(byte) == IF byte >= 128 THEN byte - 256 ELSE byte
IntOf(data) == Joined(data, Signed(data[1]))[Len(data)]

\* Bool
BoolError(data) == Len(data) # 1 \/ data[1] > 1

\* Bit; the offset is inside the buffer.
Bit(data, offset) == BitOf(data[(offset \div 8) + 1], offset % 8)

\* DecodeClassicString
StringError(data) ==
    \/ Len(data) < 2 \/ data[1] > 254 \/ Len(data) # 2 + data[1] \/ data[2] > data[1]
StringValue(data) == SubSeq(data, 3, 2 + data[2])

-----------------------------------------------------------------------------
\* BCD: three digits below four control bits.

Digit(raw, k) == (raw \div <<1, 16, 256>>[k + 1]) % 16
BCDError(raw) == \E k \in 0..2 : Digit(raw, k) > 9
FromBCD(raw) == Digit(raw, 2) * 100 + Digit(raw, 1) * 10 + Digit(raw, 0)
ToBCD(value) == (value \div 100) * 256 + ((value \div 10) % 10) * 16 + (value % 10)

CounterDecodes(raw) == raw \div 4096 = 0 /\ ~BCDError(raw)      \* DecodeCounter
CounterEncodes(value) == value \in 0..999                       \* EncodeCounter

\* The bases of S5TIME.
Bases == <<10 * Millisecond, 100 * Millisecond, 1000 * Millisecond, 10000 * Millisecond>>

S5TimeDecodes(raw) == raw \div 16384 = 0 /\ ~BCDError(raw)      \* DecodeS5Time
S5Time(raw) == FromBCD(raw) * Bases[((raw \div 4096) % 4) + 1]

ExactBasesBelow999(value) ==    \* mutant: off by one
    {i \in 1..4 : value % Bases[i] = 0 /\ value \div Bases[i] < 999}

ExactBases(value) == {i \in 1..4 : value % Bases[i] = 0 /\ value \div Bases[i] <= 999}

\* EncodeS5Time
S5TimeEncodes(value) == value >= 0 /\ ExactBases(value) # {}
S5TimeRaw(value) ==
    LET i == Min(ExactBases(value)) IN (i - 1) * 4096 + ToBCD(value \div Bases[i])

-----------------------------------------------------------------------------
Init ==
    /\ buffer \in Buffers /\ before = buffer
    /\ last = <<"none">> /\ ok = TRUE /\ steps = 0

\* An operation with an error returns before it touches the buffer.
Apply(op, valid, result) ==
    /\ steps < Depth /\ steps' = steps + 1
    /\ last' = op /\ ok' = valid /\ before' = buffer
    /\ buffer' = IF valid THEN result ELSE buffer

\* PutInt8 ... PutInt64
PutInt ==
    \E p \in Values :
        Apply(<<"int", p[1], p[2]>>, Len(buffer) = p[1], PutBytes(p[1], p[2]))

\* PutUint8 ... PutUint64, PutFloat32 and PutFloat64
PutUint ==
    \E p \in Unsigned :
        Apply(<<"uint", p[1], p[2]>>, Len(buffer) = p[1], PutBytes(p[1], p[2]))

PutBool ==
    \E b \in {0, 1} : Apply(<<"bool", b>>, Len(buffer) = 1, <<b>>)

SetBit ==
    \E offset \in BitOffsets, value \in {0, 1} :
        LET k == (offset \div 8) + 1
        IN Apply(<<"bit", offset, value>>, k <= Len(buffer),
                 [buffer EXCEPT ![k] = SetBitIn(@, offset % 8, value)])

EncodeStringUncleared(capacity, value, clearUnused) ==  \* mutant: never clears
    [k \in DOMAIN buffer |->
        IF k = 1 THEN capacity ELSE IF k = 2 THEN Len(value)
        ELSE IF k - 2 <= Len(value) THEN value[k - 2]
        ELSE buffer[k]]

EncodeString(capacity, value, clearUnused) ==
    [k \in DOMAIN buffer |->
        IF k = 1 THEN capacity ELSE IF k = 2 THEN Len(value)
        ELSE IF k - 2 <= Len(value) THEN value[k - 2]
        ELSE IF clearUnused THEN 0 ELSE buffer[k]]

EncodeClassicString ==
    \E p \in Strings :
        Apply(<<"string", p[1], p[2], p[3]>>,
              p[1] <= 254 /\ Len(buffer) = 2 + p[1] /\ Len(p[2]) <= p[1],
              EncodeString(p[1], p[2], p[3]))

\* EncodeS5Time and EncodeCounter, stored by PutUint16.
EncodeS5Time ==
    \E d \in Durations :
        Apply(<<"s5time", d>>, S5TimeEncodes(d) /\ Len(buffer) = 2, PutBytes(2, S5TimeRaw(d)))

EncodeCounter ==
    \E n \in Counts :
        Apply(<<"counter", n>>, CounterEncodes(n) /\ Len(buffer) = 2, PutBytes(2, ToBCD(n)))

Next ==
    PutInt \/ PutUint \/ PutBool \/ SetBit \/ EncodeClassicString \/ EncodeS5Time
    \/ EncodeCounter
Spec == Init /\ [][Next]_vars

-----------------------------------------------------------------------------
\* Properties

\* Whatever the buffer held before, it holds the value afterwards and nothing but
\* the value: decoding returns what was put, a bit leaves its neighbours alone,
\* a cleared string keeps no older byte, and an operation that fails changes
\* nothing.  Bool takes no byte that PutBool does not write.
BufferHoldsValue ==
    /\ buffer \in Seq(Byte)
    /\ ~ok => buffer = before
    /\ ok /\ last[1] = "int" => Len(buffer) = last[2] /\ IntOf(buffer) = last[3]
    /\ ok /\ last[1] = "uint" => Len(buffer) = last[2] /\ UintOf(buffer) = last[3]
    /\ ok /\ last[1] = "bool" => ~BoolError(buffer) /\ buffer[1] = last[2]
    /\ ~BoolError(buffer) => buffer \in {<<0>>, <<1>>}
    /\ ok /\ last[1] = "bit" =>
         /\ Bit(buffer, last[2]) = last[3]
         /\ \A n \in 0..(8 * Len(buffer) - 1) : n # last[2] => Bit(buffer, n) = Bit(before, n)
    /\ ok /\ last[1] = "string" =>
         /\ ~StringError(buffer) /\ StringValue(buffer) = last[3]
         /\ \A k \in (3 + Len(last[3]))..Len(buffer) :
              buffer[k] = IF last[4] THEN 0 ELSE before[k]

\* What Uint16 reads from the buffer; all ones, no legal word, if it has no two bytes.
Word == IF Len(buffer) = 2 THEN buffer[1] * 256 + buffer[2] ELSE 65535
MaxWord == 65535
Representable == {S5Time(raw) : raw \in {r \in 0..MaxWord : S5TimeDecodes(r)}}

\* EncodeS5Time succeeds exactly for the durations that some timer word stands
\* for, and returns the smallest such word, the one with the finest base; so any
\* legal word that a PLC stored is read and written back without a change of its
\* value.  EncodeCounter is the inverse of DecodeCounter in the same way.
TimersAreExact ==
    /\ last[1] = "s5time" => (ok <=> last[2] \in Representable /\ Len(before) = 2)
    /\ ok /\ last[1] = "s5time" => S5TimeDecodes(Word) /\ S5Time(Word) = last[2]
    /\ S5TimeDecodes(Word) =>
         /\ S5TimeEncodes(S5Time(Word))
         /\ S5TimeRaw(S5Time(Word)) <= Word /\ S5Time(S5TimeRaw(S5Time(Word))) = S5Time(Word)
    /\ ok /\ last[1] = "counter" => CounterDecodes(Word) /\ FromBCD(Word) = last[2]
    /\ CounterDecodes(Word) => CounterEncodes(FromBCD(Word)) /\ ToBCD(FromBCD(Word)) = Word
=============================================================================
