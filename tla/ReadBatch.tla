------------------------------ MODULE ReadBatch ------------------------------
(***************************************************************************)
(* Read and ReadArea of src/client.go: validating a logical batch, cutting *)
(* its items into fragments, packing the fragments into PDUs, and putting  *)
(* the answers together when an exchange or a single fragment fails.  The  *)
(* exchange itself is the one of module Session: here it fails or returns. *)
(***************************************************************************)
EXTENDS PDUSize, Items, SequencesExt

CONSTANTS
    Requests,             \* Read: sequences of items to try
    AreaRequests,         \* ReadArea: single byte items to try
    PDU,                  \* negotiated PDU of the session
    MaxItemsPerPDU,       \* protocol.CompatibilityMaxItemsPerPDU (20)
    MaxItemsPerCall, MaxItemBytes, MaxBatchBytes, MaxFragmentsPerCall

ItemRecords ==
    [area : DOMAIN WireArea, db : Nat, offset : Nat, bit : Nat, transport : Transports,
     count : Nat]

ASSUME ReadAssumption ==
    /\ Requests \cup AreaRequests \subseteq Seq(ItemRecords)
    /\ \A r \in AreaRequests : Len(r) = 1 /\ r[1].transport = "byte"
    /\ PDU \in Nat /\ PDU >= 240
    /\ {MaxItemsPerPDU, MaxItemsPerCall, MaxItemBytes, MaxBatchBytes,
        MaxFragmentsPerCall} \subseteq Nat \ {0}

VARIABLES
    items, area,    \* the call: Read, or ReadArea
    pc,
    original, offset,   \* where readFragmentIterator stands
    batch,          \* the fragments of the request being planned or exchanged
    requestSize, responseSize,     \* of the batch, as nextReadBatch adds them up
    answer,         \* the next answer of the response to look at
    err,            \* ReadResult.Err of every item
    progress, dataLen,     \* bytes received in order, and len(Data)
    got,            \* per item: the fragments copied into Data
    asked,          \* fragments ever put into a request
    fatal,          \* the error returned with the results
    ctxDone         \* the call's context is over

inputVars == <<items, area>>
iteratorVars == <<original, offset>>
sizeVars == <<requestSize, responseSize>>
planVars == <<iteratorVars, batch, sizeVars, asked>>
dataVars == <<progress, got>>
resultVars == <<err, dataVars, dataLen, fatal>>
vars == <<inputVars, pc, planVars, answer, resultVars, ctxDone>>

Index == DOMAIN items
None == NoError

-----------------------------------------------------------------------------
\* Validation (prepareReads)

ItemError(item) == ReadItemError(item, MaxItemBytes)

\* What the loop over the items finds at item i, the running total included.
ErrorAt(i) ==
    IF ItemError(items[i]) # None THEN ItemError(items[i])
    ELSE IF Total([k \in Index |-> Length(items[k])], i) > MaxBatchBytes THEN "limit"
    ELSE None

Failing == {i \in Index : ErrorAt(i) # None}

\* The first error.
PrepareError ==
    IF items = <<>> THEN "invalid"
    ELSE IF Len(items) > MaxItemsPerCall THEN "limit"
    ELSE IF Failing = {} THEN None ELSE ErrorAt(Min(Failing))

-----------------------------------------------------------------------------
\* Fragments and their batches

\* The most data of one fragment: what is left of the response PDU, within the
\* 16-bit length field (which counts bits for some transports), in whole elements.
MaxFragmentData(t) ==
    LET most == Min({PDU - 18, IF LengthInBits(t) THEN MaxUint16 \div 8 ELSE MaxUint16})
    IN IF t = "bit" THEN 1 ELSE most - (most % Width(t))

CountUp(n, d) == (n + d - 1) \div d

FragmentCounts ==
    [i \in Index |-> CountUp(Length(items[i]), MaxFragmentData(items[i].transport))]
CountReadFragments == Total(FragmentCounts, Len(items))

AddressStepInBytes(item, x) == x     \* mutant: timers are no bytes

\* How far the address of a fragment is from its item's.
AddressStep(item, x) ==
    CASE Indexed(item) -> x \div Width(item.transport)
      [] item.transport = "bit" -> 0
      [] ~Indexed(item) /\ item.transport # "bit" -> x

FragmentLength(item, x) == Min({MaxFragmentData(item.transport), Length(item) - x})

\* readFragmentIterator.next: the fragment of item i at byte x.
Fragment(i, x) ==
    LET item == items[i]
        length == FragmentLength(item, x)
    IN [original |-> i, offset |-> x, length |-> length,
        amount |-> length \div Width(item.transport),
        address |-> WireAddress([item EXCEPT !.offset = @ + AddressStep(item, x)])]

\* Whether the iterator yields a fragment, and which; putBack is not taking it.
More == original <= Len(items)
Current == Fragment(original, offset)

AdvanceTooFar ==                 \* mutant: the last byte of an item is left out
    IF offset + Current.length + 1 < Length(items[original])
      THEN offset' = offset + Current.length /\ UNCHANGED original
      ELSE original' = original + 1 /\ offset' = 0

\* Taking it. An item that is cut up completely is left at once.
Advance ==
    IF offset + Current.length < Length(items[original])
      THEN offset' = offset + Current.length /\ UNCHANGED original
      ELSE original' = original + 1 /\ offset' = 0

SkipNothing == FALSE             \* mutant: failed items are asked for again
Skip == err[original] # None

NoPadding == 0                   \* mutant: padding forgotten
Padding == IF batch # <<>> /\ batch[Len(batch)].length % 2 # 0 THEN 1 ELSE 0

CandidateRequest == requestSize + 12
CandidateResponse == responseSize + 4 + Current.length + Padding

Fits ==
    /\ Len(batch) # MaxItemsPerPDU
    /\ CandidateRequest <= PDU /\ CandidateResponse <= PDU

-----------------------------------------------------------------------------
Init ==
    /\ \/ items \in Requests /\ area = FALSE
       \/ items \in AreaRequests /\ area = TRUE
    /\ pc = "prepare" /\ original = 1 /\ offset = 0
    /\ batch = <<>> /\ requestSize = 12 /\ responseSize = 14 /\ asked = <<>> /\ answer = 1
    /\ err = [i \in Index |-> None] /\ fatal = None
    /\ progress = [i \in Index |-> 0] /\ dataLen = [i \in Index |-> 0]
    /\ got = [i \in Index |-> <<>>]
    /\ ctxDone = FALSE

\* Read and ReadArea return before any I/O; makeReadFailureResults.
Reject ==
    /\ pc = "prepare" /\ PrepareError # None
    /\ err' = [i \in Index |-> PrepareError]
    /\ fatal' = PrepareError
    /\ pc' = "return"
    /\ UNCHANGED <<inputVars, planVars, answer, dataVars, dataLen, ctxDone>>

Accept ==
    /\ pc = "prepare" /\ PrepareError = None
    /\ pc' = "begin"
    /\ UNCHANGED <<inputVars, planVars, answer, resultVars, ctxDone>>

\* markReadIncomplete
MarkReadFailed(k) ==             \* mutant: finished items lose their result
    /\ err' = [i \in Index |-> IF err[i] = None THEN k ELSE err[i]]
    /\ dataLen' = [i \in Index |-> Min({progress[i], dataLen[i]})]

MarkReadIncomplete(k) ==
    /\ err' = [i \in Index |->
         IF err[i] = None /\ progress[i] < Length(items[i]) THEN k ELSE err[i]]
    /\ dataLen' = [i \in Index |-> Min({progress[i], dataLen[i]})]

Fail(k) ==
    /\ MarkReadIncomplete(k)
    /\ fatal' = k
    /\ batch' = <<>>
    /\ pc' = "return"
    /\ UNCHANGED <<inputVars, iteratorVars, sizeVars, asked, answer, dataVars, ctxDone>>

\* acquire or readyPDU, the fragment limit, the context.
Refuse ==
    /\ pc = "begin"
    /\ \/ \E k \in {"closed", "canceled", "notConnected"} : Fail(k)
       \/ CountReadFragments > MaxFragmentsPerCall /\ Fail("limit")
       \/ CountReadFragments <= MaxFragmentsPerCall /\ ctxDone /\ Fail("canceled")

\* Data is allocated, or is the caller's buffer.
Begin ==
    /\ pc = "begin" /\ CountReadFragments <= MaxFragmentsPerCall /\ ~ctxDone
    /\ dataLen' = [i \in Index |-> Length(items[i])]
    /\ original' = 1 /\ offset' = 0
    /\ pc' = "plan"
    /\ UNCHANGED <<inputVars, batch, sizeVars, asked, answer, err, dataVars, fatal, ctxDone>>

\* nextReadBatch: the loop starts, passes over fragments of items that have
\* failed, adds a fragment, and ends.
NextReadBatch ==
    /\ pc = "plan"
    /\ batch' = <<>> /\ requestSize' = 12 /\ responseSize' = 14
    /\ pc' = "pack"
    /\ UNCHANGED <<inputVars, iteratorVars, asked, answer, resultVars, ctxDone>>

SkipFragment ==
    /\ pc = "pack" /\ More /\ Skip
    /\ Advance
    /\ UNCHANGED <<inputVars, pc, batch, sizeVars, asked, answer, resultVars, ctxDone>>

Pack ==
    /\ pc = "pack" /\ More /\ ~Skip /\ Fits
    /\ batch' = Append(batch, Current)
    /\ requestSize' = CandidateRequest /\ responseSize' = CandidateResponse
    /\ Advance
    /\ UNCHANGED <<inputVars, pc, asked, answer, resultVars, ctxDone>>

Packed == pc = "pack" /\ (More => ~Skip /\ ~Fits)

\* A fragment alone exceeds the PDU (NoLateSurprise: never), or the context is over.
PlanStops ==
    /\ Packed
    /\ IF batch = <<>> THEN More ELSE ctxDone
    /\ Fail(IF batch = <<>> THEN "limit" ELSE "canceled")

Plan ==
    /\ Packed /\ batch # <<>> /\ ~ctxDone
    /\ asked' = asked \o batch
    /\ pc' = "exchange"
    /\ UNCHANGED <<inputVars, iteratorVars, batch, sizeVars, answer, resultVars, ctxDone>>

\* exchange fails, or its response does not decode.
ExchangeFails ==
    /\ pc = "exchange"
    /\ \E k \in {"canceled", "transport", "protocol"} : Fail(k)

ReadGlobalCode ==
    /\ pc = "exchange"
    /\ LET Hit == {batch[k].original : k \in DOMAIN batch}
           marked == [i \in Index |-> IF i \in Hit /\ err[i] = None THEN "plc" ELSE err[i]]
       IN err' = [i \in Index |->
            IF marked[i] = None /\ progress[i] < Length(items[i]) THEN "plc"
                                                                  ELSE marked[i]]
    /\ dataLen' = [i \in Index |-> Min({progress[i], dataLen[i]})]
    /\ fatal' = "plc" /\ batch' = <<>> /\ pc' = "return"
    /\ UNCHANGED <<inputVars, iteratorVars, sizeVars, asked, answer, dataVars, ctxDone>>

\* A response that decodes has one answer for each fragment, in order.
ReadCodes ==
    /\ pc = "exchange"
    /\ pc' = "merge" /\ answer' = 1
    /\ UNCHANGED <<inputVars, planVars, resultVars, ctxDone>>

\* One answer; it is refused when its return code is not 0xff.  Data that is out of
\* order, or of an item that has failed, is ignored.
Merge ==
    /\ pc = "merge" /\ answer <= Len(batch)
    /\ \E refused \in BOOLEAN :
         LET f == batch[answer]
             i == f.original
         IN /\ err' = IF refused /\ err[i] = None THEN [err EXCEPT ![i] = "plc"] ELSE err
            /\ IF ~refused /\ err[i] = None /\ f.offset = progress[i]
                 THEN /\ progress' = [progress EXCEPT ![i] = @ + f.length]
                      /\ got' = [got EXCEPT ![i] = Append(@, f)]
                 ELSE UNCHANGED dataVars
    /\ answer' = answer + 1
    /\ UNCHANGED <<inputVars, pc, planVars, dataLen, fatal, ctxDone>>

Merged ==
    /\ pc = "merge" /\ answer > Len(batch)
    /\ batch' = <<>> /\ pc' = "plan"
    /\ UNCHANGED <<inputVars, iteratorVars, sizeVars, asked, answer, resultVars, ctxDone>>

\* The last loop of readLocked.
Finish ==
    /\ Packed /\ batch = <<>> /\ ~More
    /\ LET Gap(i) == err[i] = None /\ progress[i] # Length(items[i])
       IN /\ err' = [i \in Index |-> IF Gap(i) THEN "invariant" ELSE err[i]]
          /\ fatal' = IF \E i \in Index : Gap(i) THEN "invariant" ELSE None
    /\ dataLen' = [i \in Index |-> IF err'[i] # None THEN progress[i] ELSE dataLen[i]]
    /\ pc' = "return"
    /\ UNCHANGED <<inputVars, planVars, answer, dataVars, ctxDone>>

CtxDone ==
    /\ pc \notin {"prepare", "return"} /\ ~ctxDone
    /\ ctxDone' = TRUE
    /\ UNCHANGED <<inputVars, pc, planVars, answer, resultVars>>

\* The error ReadArea returns with progress[1].
AreaErrorFatalOnly == fatal      \* mutant: the item's own error is dropped
AreaError == IF fatal # None THEN fatal ELSE err[1]

Next ==
    \/ Reject \/ Accept \/ Refuse \/ Begin
    \/ NextReadBatch \/ SkipFragment \/ Pack \/ PlanStops \/ Plan
    \/ ExchangeFails \/ ReadGlobalCode \/ ReadCodes \/ Merge \/ Merged
    \/ Finish \/ CtxDone

Spec == Init /\ [][Next]_vars

-----------------------------------------------------------------------------
\* Properties

\* The bytes of the fragments before fragment k of the sequence g.
Before(g, k) == Total([j \in DOMAIN g |-> g[j].length], k - 1)

\* The fragments g are the first n bytes of item.
Received(item, g, n) ==
    /\ n = Before(g, Len(g) + 1)
    /\ \A k \in DOMAIN g :
         /\ g[k].offset = Before(g, k)
         /\ g[k].amount * Width(item.transport) = g[k].length
         /\ g[k].address = IF Indexed(item)
              THEN item.offset + Before(g, k) \div Width(item.transport)
              ELSE (item.offset + Before(g, k)) * 8 + item.bit

\* Every byte of Data comes from its own address: the fragments that were copied
\* into an item are consecutive from its start, whole elements each, and none of
\* them is behind a gap that a refused fragment left.
DataIsPrefix == \A i \in Index : Received(items[i], got[i], progress[i])

\* An item is either complete and without error, or has an error and the part
\* of its data that was received; an error of the call does not take away what
\* other items have already got.
ResultIsWhole ==
    pc = "return" =>
        \A i \in Index :
            /\ dataLen[i] = progress[i]
            /\ err[i] = None <=> progress[i] = Length(items[i]) /\ Length(items[i]) > 0

\* "incomplete logical item" and "one fragment exceeds negotiated PDU" after the
\* first exchange cannot happen: planning, fragmenting and merging agree.
NoLateSurprise ==
    /\ fatal # "invariant"
    /\ fatal = "limit" => asked = <<>>

\* Every request and its largest answer fit the negotiated PDU, and the fields
\* on the wire are wide enough, so that BuildReadRequest does not fail.
ReadBatchFits ==
    pc = "exchange" =>
        /\ Len(batch) \in 1..MaxItemsPerPDU
        /\ ReadRequestSize(Len(batch)) <= PDU
        /\ ReadResponseSize([k \in DOMAIN batch |-> batch[k].length]) <= PDU
        /\ \A k \in DOMAIN batch :
             LET t == items[batch[k].original].transport IN
             /\ batch[k].address <= Max24
             /\ batch[k].amount \in 1..MaxUint16
             /\ (IF LengthInBits(t) THEN 8 ELSE 1) * batch[k].length <= MaxUint16

\* Nothing is asked for twice, and nothing of an item that has already failed;
\* MaxFragmentsPerCall bounds the fragments that are really sent.
AskedOnce ==
    /\ IsInjective(asked)
    /\ Len(asked) <= MaxFragmentsPerCall
    /\ asked # <<>> => Len(asked) <= CountReadFragments
    /\ pc = "exchange" => \A k \in DOMAIN batch : err[batch[k].original] = None

\* ReadArea never returns a short count without an error.
AreaIsWhole ==
    pc = "return" /\ area =>
        (AreaError = None <=> progress[1] = Length(items[1]) /\ progress[1] > 0)

-----------------------------------------------------------------------------
\* The inductive invariant behind the properties

Packing == {"pack", "exchange", "merge"}
Reading == Packing \cup {"plan"}

Errors == {None, "invalid", "limit", "closed", "canceled", "notConnected", "transport",
           "protocol", "plc", "invariant"}
Fragments ==
    [original : Index, offset : Nat, length : Nat \ {0}, amount : Nat, address : Nat]
End(f) == f.offset + f.length

TypeInv ==
    /\ items \in Seq(ItemRecords) /\ area \in BOOLEAN /\ (area => Len(items) = 1)
    /\ pc \in Reading \cup {"prepare", "begin", "return"}
    /\ original \in Nat \ {0} /\ offset \in Nat /\ answer \in Nat \ {0}
    /\ batch \in Seq(Fragments) /\ asked \in Seq(Fragments)
    /\ requestSize \in Int /\ responseSize \in Int
    /\ err \in [Index -> Errors] /\ fatal \in Errors
    /\ progress \in [Index -> Nat] /\ dataLen \in [Index -> Nat]
    /\ got \in [Index -> Seq(Fragments)]

\* Validation is behind us, and the fragments may be counted.
AcceptedInv ==
    /\ pc \in Reading \cup {"begin"} =>
         items # <<>> /\ \A i \in Index : ItemError(items[i]) = None
    /\ pc \in Reading => CountReadFragments <= MaxFragmentsPerCall

\* x is where fragment j + 1 of item i begins.
Cut(i, j, x) ==
    x = j * MaxFragmentData(items[i].transport) /\ x < Length(items[i])

\* The iterator has been asked for at least as many fragments as have been packed.
Taken == Len(asked) + (IF pc = "pack" THEN Len(batch) ELSE 0)

IteratorInv ==
    pc \in Reading =>
        /\ original <= Len(items) + 1
        /\ \E j \in 0..offset :
             /\ IF More THEN Cut(original, j, offset) ELSE j = 0 /\ offset = 0
             /\ Taken <= Total(FragmentCounts, original - 1) + j

CountInv ==
    /\ Len(asked) <= MaxFragmentsPerCall
    /\ asked # <<>> => Len(asked) <= CountReadFragments

\* Fragments go up, and all that were taken lie before the iterator.
Precedes(f, i, x) == f.original < i \/ (f.original = i /\ End(f) <= x)
Ordered(s) ==
    \A j, k \in DOMAIN s : j < k => Precedes(s[j], s[k].original, s[k].offset)

OrderInv ==
    /\ Ordered(asked) /\ Ordered(batch)
    /\ pc \in Reading =>
         /\ \A k \in DOMAIN asked : Precedes(asked[k], original, offset)
         /\ \A k \in DOMAIN batch : Precedes(batch[k], original, offset)
    /\ pc = "pack" =>
         \A j \in DOMAIN asked, k \in DOMAIN batch :
             Precedes(asked[j], batch[k].original, batch[k].offset)

\* A fragment as the iterator makes it.
IsFragment(f) ==
    f = Fragment(f.original, f.offset) /\ \E j \in 0..f.offset : Cut(f.original, j, f.offset)

BatchInv ==
    /\ pc \notin Packing => batch = <<>>
    /\ pc \in {"exchange", "merge"} => batch # <<>>
    /\ pc \in Packing =>
         /\ \A k \in DOMAIN batch : IsFragment(batch[k])
         /\ Len(batch) <= MaxItemsPerPDU
         /\ requestSize = ReadRequestSize(Len(batch))
         /\ responseSize = ReadResponseSize([k \in DOMAIN batch |-> batch[k].length])
         /\ batch # <<>> => requestSize <= PDU /\ responseSize <= PDU
    /\ pc \in {"pack", "exchange"} => \A k \in DOMAIN batch : err[batch[k].original] = None

\* Of an item that has not failed, the fragments still to be answered lead without
\* a gap from what has been received to where the iterator is.
Rest == {k \in DOMAIN batch : pc = "merge" => k >= answer}
Reached(i) ==
    IF i < original THEN Length(items[i]) ELSE IF i = original THEN offset ELSE 0

ChainInv(i) ==
    pc \in Reading /\ err[i] = None =>
        /\ \A k \in Rest : batch[k].original = i =>
             /\ progress[i] <= batch[k].offset
             /\ \/ batch[k].offset = progress[i]
                \/ \E j \in Rest : j < k /\ batch[j].original = i
                                     /\ End(batch[j]) = batch[k].offset
        /\ \/ progress[i] = Reached(i)
           \/ \E k \in Rest : batch[k].original = i /\ End(batch[k]) = Reached(i)

\* Results before the call returns.
ItemInv(i) ==
    /\ pc # "return" /\ err[i] # None => progress[i] < Length(items[i])
    /\ pc \in {"prepare", "begin"} => err[i] = None /\ progress[i] = 0 /\ dataLen[i] = 0
    /\ pc \in Reading => dataLen[i] = Length(items[i]) /\ progress[i] <= Length(items[i])

CallInv ==
    /\ pc # "return" => fatal = None
    /\ pc \in {"prepare", "begin"} => asked = <<>>
    /\ pc = "return" /\ area /\ fatal # None => err[1] # None

\* The iterator, the batch, the answers and the results agree at every point at which
\* Read or ReadArea can fail.
ReadInv ==
    /\ TypeInv /\ AcceptedInv /\ IteratorInv /\ CountInv /\ OrderInv /\ BatchInv /\ CallInv
    /\ \A i \in Index : ChainInv(i) /\ ItemInv(i)
    /\ DataIsPrefix /\ ResultIsWhole /\ NoLateSurprise
=============================================================================
