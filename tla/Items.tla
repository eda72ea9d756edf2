-------------------------------- MODULE Items --------------------------------
(***************************************************************************)
(* Items of a Read or Write: the transports, the validation of             *)
(* src/item.go and the wire descriptor that makeProtocolItem of            *)
(* src/client.go derives from a valid item.                                *)
(*                                                                         *)
(* An item is a record [area, db, offset, bit, transport, count].          *)
(***************************************************************************)
EXTENDS Naturals, Sequences

MaxUint16 == 65535
Max24 == 16777215
NoError == "none"

\* layoutFor
Layout ==
    LET L(word, response, width, inBits) ==
          [wordLength |-> word, responseTransport |-> response, width |-> width,
           lengthInBits |-> inBits]
    IN [bit |-> L(1, 3, 1, FALSE), byte |-> L(2, 4, 1, TRUE), word |-> L(4, 4, 2, TRUE),
        dword |-> L(6, 4, 4, TRUE), real |-> L(8, 7, 4, FALSE),
        timer |-> L(29, 9, 2, FALSE), counter |-> L(28, 9, 2, FALSE)]

Transports == DOMAIN Layout
Width(t) == Layout[t].width
LengthInBits(t) == Layout[t].lengthInBits

\* wireArea
WireArea ==
    [input |-> 129, output |-> 130, marker |-> 131, db |-> 132, counter |-> 28, timer |-> 29]

\* Timers and counters are addressed by element, everything else by bit.
Indexed(item) == item.area \in {"timer", "counter"}
WireAddressOfByte(item) ==        \* mutant: the bit number is lost
    IF Indexed(item) THEN item.offset ELSE item.offset * 8
WireAddress(item) == IF Indexed(item) THEN item.offset ELSE item.offset * 8 + item.bit

\* validateItemAddress
AddressError(item) ==
    IF \/ item.transport \notin Transports \/ item.area \notin DOMAIN WireArea
       \/ item.area = "db" /\ item.db = 0
       \/ item.area # "db" /\ item.db # 0
       \/ Indexed(item) /\ (item.bit # 0 \/ item.transport # item.area)
       \/ ~Indexed(item) /\ \/ item.transport \in {"timer", "counter"}
                            \/ item.bit > (IF item.transport = "bit" THEN 7 ELSE 0)
      THEN "invalid"
      ELSE IF WireAddress(item) > Max24 THEN "limit" ELSE NoError

\* itemDataLength
Length(item) == item.count * Width(item.transport)

\* The address of the last element.
LastAddress(item) ==
    IF Indexed(item) THEN item.offset + item.count - 1
    ELSE IF item.transport = "bit" THEN item.offset * 8
    ELSE (item.offset + Length(item) - 1) * 8

\* validateReadItem
ReadItemError(item, maxItemBytes) ==
    IF AddressError(item) # NoError THEN AddressError(item)
    ELSE IF item.count = 0 \/ (item.transport = "bit" /\ item.count # 1) THEN "invalid"
    ELSE IF Length(item) > maxItemBytes \/ LastAddress(item) > Max24 THEN "limit"
    ELSE NoError

\* makeProtocolItem, for a count of 1..65535.
ProtocolItem(item) ==
    [wordLength |-> Layout[item.transport].wordLength,
     responseTransport |-> Layout[item.transport].responseTransport,
     amount |-> item.count, db |-> item.db, area |-> WireArea[item.area],
     address |-> WireAddress(item), dataBytes |-> Length(item),
     lengthInBits |-> LengthInBits(item.transport)]

\* encodedLength of src/internal/protocol/protocol.go; above 65535 an error.
EncodedLength(p) ==
    IF p.wordLength = 1 THEN p.amount
    ELSE IF p.lengthInBits THEN p.dataBytes * 8 ELSE p.dataBytes

\* validateWriteItem; data are the bytes to write.
WriteItemError(item, data, maxItemBytes) ==
    IF ReadItemError(item, maxItemBytes) # NoError THEN ReadItemError(item, maxItemBytes)
    ELSE IF item.count > MaxUint16 \/ EncodedLength(ProtocolItem(item)) > MaxUint16 THEN "limit"
    ELSE IF \/ Len(data) # Length(item)
            \/ item.transport = "bit" /\ data[1] > 1 THEN "invalid"
    ELSE NoError
=============================================================================
