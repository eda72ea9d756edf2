-------------------------------- MODULE Wire --------------------------------
(***************************************************************************)
(* One exchange, byte by byte: an application names items by address text, *)
(* the client validates and encodes them (src/item.go, src/client.go,      *)
(* src/internal/protocol, src/internal/isotcp), the scripted PLC of        *)
(* src/internal/testplc decodes the request and works on its memory, and   *)
(* the client decodes an answer that may have been damaged in one place.   *)
(*                                                                         *)
(* Bytes are 0..255, and index k + 1 here is index k in the code.          *)
(***************************************************************************)
EXTENDS AddressText, PDUSize, Bytes, SequencesExt

CONSTANTS
    TextBatches,    \* the addresses of one call: sequences of texts
    Counts,         \* element counts the application asks for
    Memories,       \* initial memory of the PLC, from <<area, db, byte>> to bytes
    Reference,      \* PDU reference of the request
    RejectCodes,    \* codes RejectNextItem may be given
    Damage,         \* byte values that may turn up in a damaged answer
    MaxItemBytes, MaxFrameBytes,
    PDU, TPDU       \* negotiated sizes; Connect checks that the PDU fits TPDU and frame

IsMemory(m) == m = [key \in DOMAIN m |-> m[key]] /\ \A key \in DOMAIN m : m[key] \in Byte

ASSUME WireAssumption ==
    /\ TextBatches \subseteq Seq(Texts) \ {<<>>}
    /\ \A m \in Memories : IsMemory(m)
    /\ Counts \subseteq Nat /\ Reference \in 1..MaxUint16
    /\ RejectCodes \subseteq 1..254 /\ Damage \subseteq Byte
    /\ MaxItemBytes \in Nat \ {0} /\ MaxFrameBytes \in 32..MaxUint16
    /\ {PDU, TPDU} \subseteq Nat /\ PDU + 7 <= MaxFrameBytes /\ PDU + 3 <= TPDU

VARIABLES
    texts, write,   \* the call: Read or Write of these addresses
    pc, items, data,
    request,        \* the frame the client has sent
    memory,         \* of the PLC; 0 where nothing was stored
    before,         \* history: the memory when the request arrived
    refused,        \* the code the PLC gave the first item, 255 if none
    reply, damaged, \* what the client will read, and whether it is what was sent
    result          \* what the client made of it

callVars == <<texts, write, items, data>>
vars == <<callVars, pc, request, memory, before, refused, reply, damaged, result>>

NoResult == [error |-> "pending", items |-> <<>>]
Malformed == [error |-> "protocol", items |-> <<>>]

-----------------------------------------------------------------------------
\* Frames: WrapData, ReadFrame and UnwrapData of src/internal/isotcp/framing.go

DataHeaderSize == 7

WrapData(payload) ==
    LET length == DataHeaderSize + Len(payload)
    IN <<3, 0, Hi(length), Lo(length), 2, 240, 128>> \o payload

ReadFrameFails(stream) ==
    \/ Len(stream) < 4
    \/ stream[1] # 3 \/ stream[2] # 0
    \/ At16(stream, 3) \notin DataHeaderSize..MaxFrameBytes
    \/ At16(stream, 3) > Len(stream)
Frame(stream) == SubSeq(stream, 1, At16(stream, 3))

UnwrapFails(frame) == frame[5] # 2 \/ frame[6] # 240 \/ frame[7] < 128
Payload(frame) == SubSeq(frame, DataHeaderSize + 1, Len(frame))

\* exchange holds requests and responses to both negotiated sizes.
TPKTHeaderSize == 4
ExceedsLimits(frame) == Len(frame) - TPKTHeaderSize > TPDU \/ Len(Payload(frame)) > PDU

-----------------------------------------------------------------------------
\* The client's requests (src/internal/protocol/protocol.go)

ProtocolItems == [i \in DOMAIN items |-> ProtocolItem(items[i])]

\* writeItemSpec
ItemSpec(p) ==
    <<18, 10, 16, p.wordLength, Hi(p.amount), Lo(p.amount), Hi(p.db), Lo(p.db), p.area,
      p.address \div 65536, (p.address \div 256) % 256, p.address % 256>>

\* buildJob
Job(parameters, body) ==
    <<50, 1, 0, 0, Hi(Reference), Lo(Reference), Hi(Len(parameters)), Lo(Len(parameters)),
      Hi(Len(body)), Lo(Len(body))>> \o parameters \o body

JobParameters(function, ps) ==
    <<function, Len(ps)>> \o FlattenSeq([i \in DOMAIN ps |-> ItemSpec(ps[i])])

PadNothing(i, n, length) == <<>>      \* mutant: no padding is written
Pad(i, n, length) == IF i # n /\ length % 2 # 0 THEN <<0>> ELSE <<>>

BuildReadRequest(ps) == Job(JobParameters(4, ps), <<>>)

DataHeader(code, transport, length) == <<code, transport, Hi(length), Lo(length)>>

WriteBody(ps, bytes) ==
    FlattenSeq([i \in DOMAIN ps |->
        DataHeader(0, ps[i].responseTransport, EncodedLength(ps[i]))
        \o bytes[i] \o Pad(i, Len(ps), Len(bytes[i]))])

BuildWriteRequest(ps, bytes) == Job(JobParameters(5, ps), WriteBody(ps, bytes))

\* validateItems and the length check of BuildWriteRequest.
BuildFails(ps, bytes) ==
    \/ Len(ps) \notin 1..255
    \/ \E i \in DOMAIN ps :
         \/ ps[i].amount = 0 \/ ps[i].address > Max24 \/ ps[i].dataBytes < 1
         \/ EncodedLength(ps[i]) > MaxUint16
         \/ write /\ Len(bytes[i]) # ps[i].dataBytes

-----------------------------------------------------------------------------
\* The client's view of an answer

\* parseAckData
AckFails(payload) ==
    \/ Len(payload) < AckHeaderSize
    \/ SubSeq(payload, 1, 4) # <<50, 3, 0, 0>>
    \/ At16(payload, 5) # Reference
    \/ At16(payload, 7) > Len(payload) - AckHeaderSize
    \/ At16(payload, 9) # Len(payload) - AckHeaderSize - At16(payload, 7)
AckParameters(payload) == SubSeq(payload, 13, 12 + At16(payload, 7))
AckData(payload) == SubSeq(payload, 13 + At16(payload, 7), Len(payload))
GlobalCode(payload) == At16(payload, 11)

PaddingUnchecked(body, offset) == offset >= Len(body)     \* mutant: any byte is padding
PaddingFails(body, offset) == offset >= Len(body) \/ body[offset + 1] # 0

\* One round of the loop of ParseReadResponse; acc.offset bytes are consumed.
ReadItemResult(acc, i, ps, body) ==
    LET p == ps[i]
        o == acc.offset
        code == body[o + 1]
        length == At16(body, o + 3)
        end == o + 4 + p.dataBytes
        padded == i # Len(ps) /\ p.dataBytes % 2 # 0
        Failed == [offset |-> o, items |-> acc.items, fails |-> TRUE]
        Consumed(next, value) ==
          [offset |-> next, items |-> Append(acc.items, [code |-> code, data |-> value]),
           fails |-> FALSE]
    IN IF acc.fails \/ Len(body) - o < ItemDataHeaderSize THEN Failed
       ELSE IF code # 255
         THEN IF body[o + 2] # 0 \/ length \notin {0, 4} THEN Failed
              ELSE Consumed(o + 4, <<>>)
       ELSE IF \/ body[o + 2] # p.responseTransport \/ length # EncodedLength(p)
               \/ end > Len(body)
               \/ padded /\ PaddingFails(body, end) THEN Failed
       ELSE Consumed(IF padded THEN end + 1 ELSE end, SubSeq(body, o + 5, end))

ReadLoop(ps, body) ==
    LET loop[i \in 0..Len(ps)] ==
          IF i = 0 THEN [offset |-> 0, items |-> <<>>, fails |-> FALSE]
                   ELSE ReadItemResult(loop[i - 1], i, ps, body)
    IN loop

ParseReadResponse(payload, ps) ==
    LET body == AckData(payload)
        all == ReadLoop(ps, body)[Len(ps)]
    IN IF AckParameters(payload) # <<4, Len(ps)>> \/ all.fails \/ all.offset # Len(body)
         THEN Malformed
         ELSE [error |-> NoError, items |-> all.items]

ParseWriteResponse(payload, ps) ==
    IF AckParameters(payload) # <<5, Len(ps)>> \/ Len(AckData(payload)) # Len(ps)
      THEN Malformed
      ELSE [error |-> NoError,
            items |-> [i \in DOMAIN ps |-> [code |-> AckData(payload)[i], data |-> <<>>]]]

-----------------------------------------------------------------------------
\* The scripted PLC (src/internal/testplc/server.go)

Cell(m, key) == IF key \in DOMAIN m THEN m[key] ELSE 0

\* The layouts of parseVariableItems by word length.
PLCWords == {1, 2, 4, 6, 8, 28, 29}
PLCWidth(word) == IF word \in {1, 2} THEN 1 ELSE IF word \in {6, 8} THEN 4 ELSE 2
PLCTransport(word) ==
    IF word = 1 THEN 3 ELSE IF word \in {2, 4, 6} THEN 4 ELSE IF word = 8 THEN 7 ELSE 9

\* The i-th specification begins behind index o.
PLCItem(parameters, i) ==
    LET o == 12 * i - 10
        word == parameters[o + 4]
        amount == At16(parameters, o + 5)
        bytes == amount * PLCWidth(word)
    IN [wordLength |-> word, amount |-> amount, db |-> At16(parameters, o + 7),
        area |-> parameters[o + 9],
        address |-> parameters[o + 10] * 65536 + At16(parameters, o + 11),
        dataBytes |-> bytes, transport |-> PLCTransport(word),
        length |-> IF word = 1 THEN 1 ELSE IF PLCTransport(word) = 4 THEN bytes * 8 ELSE bytes]

\* parseJob and parseVariableItems.
JobParametersOf(payload) == SubSeq(payload, 11, 10 + At16(payload, 7))
JobBodyOf(payload) == SubSeq(payload, 11 + At16(payload, 7), Len(payload))
PLCItems(payload) ==
    LET parameters == JobParametersOf(payload)
    IN [i \in 1..parameters[2] |-> PLCItem(parameters, i)]

SpecFails(parameters, i) ==
    LET o == 12 * i - 10
        item == PLCItem(parameters, i)
    IN \/ parameters[o + 1] # 18 \/ parameters[o + 2] # 10 \/ parameters[o + 3] # 16
       \/ item.wordLength \notin PLCWords
       \/ item.wordLength = 1 /\ item.amount # 1
       \/ item.length > MaxUint16

PLCRejects(payload) ==
    LET n == At16(payload, 7)
        parameters == JobParametersOf(payload)
    IN \/ Len(payload) < 10 \/ SubSeq(payload, 1, 4) # <<50, 1, 0, 0>>
       \/ At16(payload, 5) = 0 \/ n > Len(payload) - 10
       \/ At16(payload, 9) # Len(payload) - 10 - n
       \/ Len(parameters) < 2 \/ parameters[1] \notin {4, 5}
       \/ parameters[2] = 0 \/ Len(parameters) # 2 + 12 * parameters[2]
       \/ \E i \in 1..parameters[2] : SpecFails(parameters, i)
       \/ parameters[1] = 4 /\ Len(payload) # 10 + n

PLCStart(v) == IF v.wordLength \in {28, 29} THEN v.address * 2 ELSE v.address \div 8
PLCKey(v, k) == <<v.area, v.db, PLCStart(v) + k - 1>>
PLCKeys(v) == {PLCKey(v, k) : k \in 1..v.dataBytes}

\* readItem
PLCReadItem(v) ==
    IF v.wordLength = 1 THEN <<BitOf(Cell(memory, PLCKey(v, 1)), v.address % 8)>>
    ELSE [k \in 1..v.dataBytes |-> Cell(memory, PLCKey(v, k))]

\* writeItem
PLCWriteItem(m, v, bytes) ==
    [key \in DOMAIN m \cup PLCKeys(v) |->
        IF key \notin PLCKeys(v) THEN m[key]
        ELSE IF v.wordLength = 1
          THEN SetBitIn(Cell(m, key), v.address % 8, IF bytes[1] = 1 THEN 1 ELSE 0)
        ELSE bytes[key[3] - PLCStart(v) + 1]]

\* handleRead: the answer's data; a refused item has the length field 4 and no data.
PLCRead(vs, code) ==
    FlattenSeq([i \in DOMAIN vs |->
        IF i = 1 /\ code # 255 THEN DataHeader(code, 0, 4)
        ELSE DataHeader(255, vs[i].transport, vs[i].length) \o PLCReadItem(vs[i])
             \o (IF i # Len(vs) /\ vs[i].dataBytes % 2 # 0 THEN <<0>> ELSE <<>>)])

\* One round of handleWrite's loop; an error leaves the earlier items written.
CodeFor(i, code) == IF i = 1 THEN code ELSE 255
PLCWriteRound(acc, i, vs, body, code) ==
    LET v == vs[i]
        o == acc.offset
        end == o + 4 + v.dataBytes
        padded == i # Len(vs) /\ v.dataBytes % 2 # 0
    IN IF \/ acc.fails \/ Len(body) - o < 4
          \/ body[o + 1] # 0 \/ body[o + 2] # v.transport \/ At16(body, o + 3) # v.length
          \/ end > Len(body)
         THEN [offset |-> o, memory |-> acc.memory, codes |-> acc.codes, fails |-> TRUE]
         ELSE [offset |-> IF padded THEN end + 1 ELSE end,
               memory |-> IF CodeFor(i, code) = 255
                            THEN PLCWriteItem(acc.memory, v, SubSeq(body, o + 5, end))
                            ELSE acc.memory,
               codes |-> Append(acc.codes, CodeFor(i, code)),
               fails |-> padded /\ (end >= Len(body) \/ body[end + 1] # 0)]

WriteLoop(vs, body, code) ==
    LET loop[i \in 0..Len(vs)] ==
          IF i = 0 THEN [offset |-> 0, memory |-> memory, codes |-> <<>>, fails |-> FALSE]
                   ELSE PLCWriteRound(loop[i - 1], i, vs, body, code)
    IN loop

\* handleWrite
PLCWrite(vs, body, code) == WriteLoop(vs, body, code)[Len(vs)]
PLCWriteFails(vs, body, code) ==
    PLCWrite(vs, body, code).fails \/ PLCWrite(vs, body, code).offset # Len(body)

\* writeAck
Ack(reference, parameters, body) ==
    WrapData(<<50, 3, 0, 0, Hi(reference), Lo(reference), Hi(Len(parameters)),
               Lo(Len(parameters)), Hi(Len(body)), Lo(Len(body)), 0, 0>> \o parameters \o body)

-----------------------------------------------------------------------------
Init ==
    /\ texts \in TextBatches /\ write \in BOOLEAN
    /\ memory \in Memories /\ before = memory
    /\ pc = "parse" /\ items = <<>> /\ data = <<>> /\ request = <<>>
    /\ refused = 255 /\ reply = <<>> /\ damaged = FALSE /\ result = NoResult

\* ParseAddress for every text.  The application may take a double word for a REAL,
\* and decides how many elements it wants.
Parse ==
    /\ pc = "parse"
    /\ \E n \in Counts, real \in BOOLEAN :
         LET Retyped(item) ==
               [item EXCEPT !.count = n,
                            !.transport = IF real /\ @ = "dword" THEN "real" ELSE @]
         IN IF \E i \in DOMAIN texts : ParseError(texts[i]) # NoError
              THEN pc' = "rejected" /\ UNCHANGED items
              ELSE pc' = "build" /\ items' = [i \in DOMAIN texts |-> Retyped(Named(texts[i]))]
    /\ UNCHANGED <<texts, write, data, request, memory, before, refused, reply, damaged, result>>

\* What an application may put into item i: data of the item's length or one
\* byte more, counting up from first.
DataOf(item, first, more) ==
    [k \in 1..(Length(item) + more) |-> (first + k - 1) % 256]

ItemError(i, bytes) ==
    IF write THEN WriteItemError(items[i], bytes[i], MaxItemBytes)
             ELSE ReadItemError(items[i], MaxItemBytes)

\* The call is one exchange: nextReadBatch or nextWriteBatch takes all the items, and
\* none is longer than a fragment of maxReadFragmentData.  (ReadBatch and WriteBatch
\* model the calls that need several.)
CompatibilityMaxItemsPerPDU == 20
Lengths == [i \in DOMAIN items |-> Length(items[i])]
OneExchange ==
    /\ Len(items) <= CompatibilityMaxItemsPerPDU
    /\ IF write
         THEN WriteRequestSize(Lengths) <= PDU /\ WriteResponseSize(Len(items)) <= PDU
         ELSE /\ ReadRequestSize(Len(items)) <= PDU /\ ReadResponseSize(Lengths) <= PDU
              /\ \A i \in DOMAIN items :
                   LengthInBits(items[i].transport) => Length(items[i]) <= MaxUint16 \div 8

\* prepareReads or prepareWrites, the planner, makeProtocolItem, the builder and
\* WrapData.
Build ==
    /\ pc = "build"
    /\ \E first \in IF write THEN 0..2 ELSE {0}, more \in IF write THEN {0, 1} ELSE {0} :
         LET bytes == [i \in DOMAIN items |-> DataOf(items[i], first, more)]
         IN IF \E i \in DOMAIN items : ItemError(i, bytes) # NoError
              THEN pc' = "rejected" /\ UNCHANGED <<data, request>>
            ELSE IF ~OneExchange
              THEN pc' = "several" /\ UNCHANGED <<data, request>>
            ELSE IF BuildFails(ProtocolItems, bytes)
              THEN pc' = "impossible" /\ UNCHANGED <<data, request>>
            ELSE /\ pc' = "serve" /\ data' = bytes
                 /\ request' = WrapData(IF write THEN BuildWriteRequest(ProtocolItems, bytes)
                                                 ELSE BuildReadRequest(ProtocolItems))
    /\ UNCHANGED <<texts, write, items, memory, before, refused, reply, damaged, result>>

\* exchange sends the request, and handleConnection's loop makes one round.
\* RejectNextItem may be armed.
Serve ==
    /\ pc = "serve"
    /\ \E code \in RejectCodes \cup {255} :
         LET payload == Payload(request)
             function == JobParametersOf(payload)[1]
             vs == PLCItems(payload)
             body == JobBodyOf(payload)
             reference == At16(payload, 5)
         IN IF \/ ExceedsLimits(request)
               \/ ReadFrameFails(request) \/ UnwrapFails(request) \/ PLCRejects(payload)
               \/ function = 5 /\ PLCWriteFails(vs, body, code)
              THEN pc' = "impossible" /\ UNCHANGED <<memory, reply, refused>>
              ELSE /\ pc' = "receive" /\ refused' = code
                   /\ IF function = 4
                        THEN reply' = Ack(reference, <<4, Len(vs)>>, PLCRead(vs, code))
                             /\ UNCHANGED memory
                        ELSE reply' = Ack(reference, <<5, Len(vs)>>, PLCWrite(vs, body, code).codes)
                             /\ memory' = PLCWrite(vs, body, code).memory
    /\ UNCHANGED <<callVars, request, before, damaged, result>>

\* The answer is damaged in one place: a byte changes, appears or is lost.
DamageReply ==
    /\ pc = "receive" /\ ~damaged
    /\ \E k \in DOMAIN reply :
         \/ \E b \in Damage \ {reply[k]} : reply' = [reply EXCEPT ![k] = b]
         \/ \E b \in Damage : reply' = InsertAt(reply, k, b)
         \/ reply' = RemoveAt(reply, k)
    /\ damaged' = TRUE
    /\ UNCHANGED <<callVars, pc, request, memory, before, refused, result>>

\* exchange's ReadFrame, its checks of the size and UnwrapData, then the parser of
\* the operation.
Receive ==
    /\ pc = "receive" /\ pc' = "done"
    /\ result' =
         LET frame == Frame(reply)
             payload == Payload(frame)
         IN IF ReadFrameFails(reply) THEN [error |-> "transport", items |-> <<>>]
            ELSE IF ExceedsLimits(frame) \/ UnwrapFails(frame) \/ AckFails(payload) THEN Malformed
            ELSE IF GlobalCode(payload) # 0 THEN [error |-> "plc", items |-> <<>>]
            ELSE IF write THEN ParseWriteResponse(payload, ProtocolItems)
            ELSE ParseReadResponse(payload, ProtocolItems)
    /\ UNCHANGED <<callVars, request, memory, before, refused, reply, damaged>>

Next == Parse \/ Build \/ Serve \/ DamageReply \/ Receive
Spec == Init /\ [][Next]_vars

-----------------------------------------------------------------------------
\* Properties

\* The bytes of the area that an item stands for, in the terms of Address.
CellsOf(item) ==
    LET first == IF Indexed(item) THEN item.offset * 2 ELSE item.offset
    IN [k \in 1..Length(item) |-> <<WireArea[item.area], item.db, first + k - 1>>]

\* An undamaged exchange does what the application said: a read returns the very
\* bytes or the bit it named, a write changes those and nothing else, down to the
\* neighbours of a bit; a refused item returns no data and is not written.
ExchangeIsFaithful ==
    pc = "done" /\ ~damaged =>
        /\ result.error = NoError /\ Len(result.items) = Len(items)
        /\ \A i \in DOMAIN items :
             LET r == result.items[i]
                 item == items[i]
                 cells == CellsOf(item)
                 Now(key) == Cell(memory, key)
                 Was(key) == Cell(before, key)
             IN /\ r.code = IF i = 1 THEN refused ELSE 255
                /\ ~write /\ r.code = 255 =>
                     r.data = IF item.transport = "bit" THEN <<BitOf(Was(cells[1]), item.bit)>>
                              ELSE [k \in DOMAIN cells |-> Was(cells[k])]
                /\ /\ write /\ r.code = 255
                   /\ \A j \in (i + 1)..Len(items) :
                        Range(cells) \cap Range(CellsOf(items[j])) = {}
                   =>
                     IF item.transport = "bit"
                       THEN BitOf(Now(cells[1]), item.bit) = data[i][1]
                       ELSE [k \in DOMAIN cells |-> Now(cells[k])] = data[i]
        /\ LET Written == {i \in DOMAIN items : write /\ result.items[i].code = 255}
               Touched == UNION {Range(CellsOf(items[i])) : i \in Written}
           IN \A key \in DOMAIN memory \cup DOMAIN before :
                /\ key \notin Touched => Cell(memory, key) = Cell(before, key)
                /\ \A b \in 0..7 :
                     BitOf(Cell(memory, key), b) # BitOf(Cell(before, key), b) =>
                       \E i \in Written :
                         /\ key \in Range(CellsOf(items[i]))
                         /\ items[i].transport = "bit" => items[i].bit = b

\* A response that is accepted is, byte for byte, the encoding of what the client
\* reports, for the items it asked for: no damage is skipped over, no byte of one
\* item is taken for another's.  (Only the TPDU number, the low bits of the byte
\* before the payload, is not looked at.)
AcceptedMeansUnderstood ==
    pc = "done" /\ result.error = NoError =>
        LET n == Len(items)
            Encoded(r, i, length) ==
              IF write THEN <<r.code>>
              ELSE IF r.code # 255 THEN DataHeader(r.code, 0, length)
              ELSE DataHeader(255, Layout[items[i].transport].responseTransport,
                              IF items[i].transport = "bit" THEN 1
                              ELSE IF LengthInBits(items[i].transport) THEN 8 * Len(r.data)
                              ELSE Len(r.data))
                   \o r.data \o (IF i < n /\ Len(r.data) % 2 = 1 THEN <<0>> ELSE <<>>)
        IN /\ Len(result.items) = n
           /\ \A i \in 1..n : ~write /\ result.items[i].code = 255 =>
                Len(result.items[i].data) = Length(items[i])
           /\ \E lengths \in [1..n -> {0, 4}] :
                LET body == FlattenSeq([i \in 1..n |-> Encoded(result.items[i], i, lengths[i])])
                    ack == Ack(Reference, <<IF write THEN 5 ELSE 4, n>>, body)
                IN [Frame(reply) EXCEPT ![7] = 128] = ack

\* What validation accepts the builder, exchange's limits and the PLC accept too, and
\* the sizes that the planners compute are those of the frames that are built.
SizesAreAsPlanned ==
    /\ pc # "impossible"
    /\ request # <<>> =>
         Len(Payload(request)) =
           IF write THEN WriteRequestSize([i \in DOMAIN data |-> Len(data[i])])
                    ELSE ReadRequestSize(Len(items))
    /\ pc \in {"receive", "done"} /\ ~damaged /\ refused = 255 =>
         Len(Payload(reply)) =
           IF write THEN WriteResponseSize(Len(items))
                    ELSE ReadResponseSize([i \in DOMAIN items |-> Length(items[i])])

\* ParseAddress and FormatAddress agree: an accepted text and its canonical
\* spelling name the same item, every item Read accepts has a text that parses
\* back to it, and no accepted text is refused by the validation of addresses.
AddressTextIsSound ==
    /\ \A i \in DOMAIN texts : TextIsCanonicalized(texts[i])
    /\ \A i \in DOMAIN items : ItemSurvivesText(items[i])
=============================================================================
