----------------------------- MODULE WriteBatch -----------------------------
(***************************************************************************)
(* Write and WriteArea of src/client.go against a PLC: planning a logical  *)
(* batch into PDUs, the exchange of each PDU, and the outcome reported for *)
(* every item when the exchange fails at any point.  The gate (module      *)
(* Session) lets one call run at a time.                                   *)
(*                                                                         *)
(* The application follows the README: it never submits an item again      *)
(* unless the item came back as not attempted, and reconnects explicitly.  *)
(* A request the client gave up on may still reach the PLC later.          *)
(***************************************************************************)
EXTENDS PDUSize, SequencesExt

CONSTANTS
    Batches,              \* Write: sequences of item data lengths to try
    Areas,                \* WriteArea: numbers of bytes to try
    PDU,                  \* negotiated PDU of the session
    MaxItemsPerPDU,       \* protocol.CompatibilityMaxItemsPerPDU (20)
    MaxItemBytes,         \* configuration
    MaxFragmentsPerCall,  \* configuration
    MaxCalls              \* bound: Write calls made by the application

ASSUME WriteAssumption ==
    /\ Batches \subseteq Seq(Nat \ {0}) /\ <<>> \notin Batches
    /\ Areas \subseteq Nat \ {0}
    /\ PDU \in Nat /\ PDU >= 240
    /\ MaxItemsPerPDU \in Nat \ {0}
    /\ MaxItemBytes \in Nat \ {0}
    /\ MaxFragmentsPerCall \in Nat \ {0}
    /\ MaxCalls \in Nat \ {0}

VARIABLES
    items,      \* data length of every logical item, or of every chunk
    area,       \* the call is WriteArea, which streams its chunks
    todo,       \* the items given to writeLocked, by index into items
    pc, at,     \* next position of todo to plan
    batch,      \* the items of the request being planned or exchanged
    requestSize, responseSize,     \* of the batch, as nextWriteBatch adds them up
    outcome, failed,       \* WriteResult.Outcome, and whether Err is set
    fatal,      \* the error returned with the results
    confirmed,  \* WriteArea's n
    ctxDone,    \* the call's context is over
    session, generation,
    net,        \* requests the PLC has yet to execute
    reply,      \* what waits in the session's socket
    read,       \* the kind of response the call read last
    issued, applied,       \* per item: requests begun, executions by the PLC
    calls

callVars == <<items, area, todo>>
sizeVars == <<requestSize, responseSize>>
planVars == <<at, batch, sizeVars>>
resultVars == <<outcome, failed, fatal>>
sessionVars == <<session, generation>>
plcVars == <<net, applied>>
vars == <<callVars, pc, planVars, resultVars, confirmed, ctxDone, sessionVars,
          plcVars, reply, read, issued, calls>>

Outcomes == {"notAttempted", "acknowledged", "rejected", "unknown"}
Index == DOMAIN items
Chosen == Range(todo)
Batch == Range(batch)
NoReply == [kind |-> "none", refused |-> {}]

-----------------------------------------------------------------------------
\* Planning

NoPadding == 0     \* mutant: padding forgotten
Padding == IF batch # <<>> /\ items[batch[Len(batch)]] % 2 # 0 THEN 1 ELSE 0

CandidateRequest == requestSize + 12 + 4 + items[todo[at]] + Padding
CandidateResponse == responseSize + 1

\* The loop of nextWriteBatch goes on.
Fits ==
    /\ at <= Len(todo)
    /\ Len(batch) # MaxItemsPerPDU
    /\ CandidateRequest <= PDU /\ CandidateResponse <= PDU
    /\ ~(area /\ batch # <<>>)

\* writeLocked's check of every item alone, before anything is sent.
PreflightFirstOnly(lens) ==     \* mutant: only the first item is looked at
    WriteRequestSize(<<lens[1]>>) <= PDU

Preflight(lens) ==
    \A k \in DOMAIN lens :
        WriteRequestSize(<<lens[k]>>) <= PDU /\ WriteResponseSize(1) <= PDU

\* WriteArea: the chunks of n bytes.
MaxChunk == Min({PDU - 28, 65535 \div 8, MaxItemBytes})
ChunkCount(n) == (n + MaxChunk - 1) \div MaxChunk
Chunks(n) == [k \in 1..ChunkCount(n) |-> Min({MaxChunk, n - (k - 1) * MaxChunk})]

LensOf(s) == [k \in DOMAIN s |-> items[s[k]]]

-----------------------------------------------------------------------------
\* prepareWrites has accepted the input; WriteArea rejects too many chunks and
\* gives writeLocked one chunk at a time.
Init ==
    /\ \/ items \in Batches /\ area = FALSE
       \/ \E n \in Areas : items = Chunks(n) /\ area = TRUE
    /\ todo = IF area THEN <<1>> ELSE [k \in DOMAIN items |-> k]
    /\ pc = IF area /\ Len(items) > MaxFragmentsPerCall THEN "done" ELSE "begin"
    /\ fatal = IF pc = "done" THEN "limit" ELSE "none"
    /\ at = 1 /\ batch = <<>> /\ requestSize = 12 /\ responseSize = 14
    /\ outcome = [i \in Index |-> "notAttempted"]
    /\ failed = [i \in Index |-> pc = "done"]
    /\ confirmed = 0 /\ ctxDone = FALSE
    /\ session = "ready" /\ generation = 1
    /\ net = {} /\ reply = NoReply /\ read = "none"
    /\ issued = [i \in Index |-> 0] /\ applied = [i \in Index |-> 0]
    /\ calls = 1

\* markUnattemptedWrites
MarkNothing(out, err) == err                     \* mutant: forgotten

MarkUnattempted(out, err) ==
    [i \in Index |->
        err[i] \/ (i \in Chosen /\ out[i] = "notAttempted")]

\* writeLocked returns with error k; the items of the batch get outcome o.
Stop(k, o) ==
    LET out == [i \in Index |-> IF i \in Batch THEN o ELSE outcome[i]]
        err == [i \in Index |-> failed[i] \/ i \in Batch]
    IN /\ outcome' = out
       /\ failed' = MarkUnattempted(out, err)
       /\ fatal' = k
       /\ batch' = <<>>
       /\ pc' = "return"

\* Nothing can be sent: readyPDU, the context, the preflight.
Refuse ==
    /\ pc = "begin"
    /\ \/ session # "ready" /\ Stop("notConnected", "notAttempted")
       \/ session = "ready" /\ ctxDone /\ Stop("canceled", "notAttempted")
       \/ /\ session = "ready" /\ ~ctxDone /\ ~Preflight(LensOf(todo))
          /\ Stop("limit", "notAttempted")
    /\ UNCHANGED <<callVars, at, sizeVars, confirmed, ctxDone, sessionVars, plcVars,
                   reply, read, issued, calls>>

Begin ==
    /\ pc = "begin" /\ session = "ready" /\ ~ctxDone /\ Preflight(LensOf(todo))
    /\ pc' = "plan" /\ at' = 1
    /\ UNCHANGED <<callVars, batch, sizeVars, resultVars, confirmed, ctxDone, sessionVars,
                   plcVars, reply, read, issued, calls>>

\* nextWriteBatch: the loop starts, adds an item, and ends.
NextWriteBatch ==
    /\ pc = "plan" /\ at <= Len(todo)
    /\ batch' = <<>> /\ requestSize' = 12 /\ responseSize' = 14
    /\ pc' = "pack"
    /\ UNCHANGED <<callVars, at, resultVars, confirmed, ctxDone, sessionVars, plcVars,
                   reply, read, issued, calls>>

Pack ==
    /\ pc = "pack" /\ Fits
    /\ batch' = Append(batch, todo[at])
    /\ requestSize' = CandidateRequest /\ responseSize' = CandidateResponse
    /\ at' = at + 1
    /\ UNCHANGED <<callVars, pc, resultVars, confirmed, ctxDone, sessionVars, plcVars,
                   reply, read, issued, calls>>

\* One item exceeds the PDU (LimitBeforeIO: not here), which every result without an
\* Err gets to know, acknowledged or not; or the context is over.
PlanStops ==
    /\ pc = "pack" /\ ~Fits
    /\ batch = <<>> \/ ctxDone
    /\ IF batch = <<>>
         THEN /\ failed' = [i \in Index |-> failed[i] \/ i \in Chosen]
              /\ fatal' = "limit" /\ pc' = "return" /\ UNCHANGED <<outcome, batch>>
         ELSE Stop("canceled", "notAttempted")
    /\ UNCHANGED <<callVars, at, sizeVars, confirmed, ctxDone, sessionVars, plcVars,
                   reply, read, issued, calls>>

Plan ==
    /\ pc = "pack" /\ ~Fits
    /\ batch # <<>> /\ ~ctxDone
    /\ pc' = "exchange"
    /\ UNCHANGED <<callVars, planVars, resultVars, confirmed, ctxDone, sessionVars, plcVars,
                   reply, read, issued, calls>>

\* Every batch is answered.
Finish ==
    /\ pc = "plan" /\ at > Len(todo)
    /\ pc' = "return" /\ fatal' = "none"
    /\ UNCHANGED <<callVars, planVars, outcome, failed, confirmed, ctxDone,
                   sessionVars, plcVars, reply, read, issued, calls>>

-----------------------------------------------------------------------------
\* exchange

\* breakSession: the socket and what it buffers are gone.
BreakSession ==
    /\ session' = "broken" /\ reply' = NoReply
    /\ UNCHANGED generation

\* The outcome of a batch whose exchange failed.
AlwaysNotAttempted(sent) == "notAttempted"   \* mutant: sent is ignored

OutcomeOfFailure(sent) == IF sent THEN "unknown" ELSE "notAttempted"

\* The context is over before the request is written.
ExchangeCanceled ==
    /\ pc = "exchange" /\ ctxDone
    /\ Stop("canceled", OutcomeOfFailure(FALSE))
    /\ UNCHANGED <<callVars, at, sizeVars, confirmed, ctxDone, sessionVars, plcVars,
                   reply, read, issued, calls>>

\* No deadline can be set, or the socket accepts no byte of the frame.
WriteFailsUnsent ==
    /\ pc = "exchange"
    /\ Stop("transport", OutcomeOfFailure(FALSE))
    /\ BreakSession
    /\ UNCHANGED <<callVars, at, sizeVars, confirmed, ctxDone, plcVars, read, issued, calls>>

Issue == issued' = [i \in Index |-> IF i \in Batch THEN issued[i] + 1 ELSE issued[i]]

Request == [session |-> generation, items |-> Batch]

\* The socket accepts a part of the frame, so that the PLC never sees a whole
\* request, or reports an error with the last byte.
WriteFailsPartial ==
    /\ pc = "exchange"
    /\ Issue
    /\ net' \in {net, net \cup {Request}}
    /\ Stop("transport", OutcomeOfFailure(TRUE))
    /\ BreakSession
    /\ UNCHANGED <<callVars, at, sizeVars, confirmed, ctxDone, applied, read, calls>>

WriteRequest ==
    /\ pc = "exchange"
    /\ Issue
    /\ net' = net \cup {Request}
    /\ pc' = "await"
    /\ UNCHANGED <<callVars, planVars, resultVars, confirmed, ctxDone, sessionVars,
                   applied, reply, read, calls>>

\* No whole frame arrives: timeout, cancellation, reset or Close.
ReadFails ==
    /\ pc = "await"
    /\ Stop("transport", OutcomeOfFailure(TRUE))
    /\ BreakSession
    /\ UNCHANGED <<callVars, at, sizeVars, confirmed, ctxDone, plcVars, read, issued, calls>>

\* A header that is no TPKT is an error of ReadFrame (classified like a failed
\* read); a bad COTP header, an oversized PDU or an AckData that does not match
\* the request (reference, function, item count) is a protocol error.
ReadMalformed ==
    /\ pc = "await" /\ reply.kind \in {"badFrame", "badPayload"}
    /\ read' = reply.kind
    /\ Stop(IF reply.kind = "badFrame" THEN "transport" ELSE "protocol",
            OutcomeOfFailure(TRUE))
    /\ BreakSession
    /\ UNCHANGED <<callVars, at, sizeVars, confirmed, ctxDone, plcVars, issued, calls>>

ReadGlobalCode ==
    /\ pc = "await" /\ reply.kind = "globalCode"
    /\ read' = reply.kind /\ reply' = NoReply
    /\ Stop("plc", "rejected")
    /\ UNCHANGED <<callVars, at, sizeVars, confirmed, ctxDone, sessionVars, plcVars, issued,
                   calls>>

\* The return codes, one per item of the batch.
ResultsIgnoringCodes(refused) ==    \* mutant: any response acknowledges
    /\ outcome' = [i \in Index |-> IF i \in Batch THEN "acknowledged" ELSE outcome[i]]
    /\ UNCHANGED failed

Results(refused) ==
    /\ outcome' = [i \in Index |->
         CASE i \in Batch \ refused -> "acknowledged"
           [] i \in Batch \cap refused -> "rejected"
           [] OTHER -> outcome[i]]
    /\ failed' = [i \in Index |-> failed[i] \/ i \in Batch \cap refused]

\* WriteArea (stopAfterFailure) ends at the first refused chunk.
ReadCodes ==
    /\ pc = "await" /\ reply.kind = "codes"
    /\ read' = reply.kind /\ reply' = NoReply
    /\ Results(reply.refused)
    /\ IF area /\ reply.refused # {}
         THEN fatal' = "plc" /\ pc' = "return"
         ELSE pc' = "plan" /\ UNCHANGED fatal
    /\ batch' = <<>>
    /\ UNCHANGED <<callVars, at, sizeVars, confirmed, ctxDone, sessionVars, plcVars, issued,
                   calls>>

-----------------------------------------------------------------------------
\* WriteArea's loop, the application, and the PLC

AreaNextUnchecked ==         \* mutant: goes on after a chunk that failed
    /\ pc = "return" /\ area
    /\ IF todo[1] = Len(items)
         THEN pc' = "done" /\ UNCHANGED todo
         ELSE pc' = "begin" /\ todo' = <<todo[1] + 1>>
    /\ confirmed' = confirmed + items[todo[1]]
    /\ UNCHANGED <<items, area, planVars, resultVars, ctxDone, sessionVars, plcVars,
                   reply, read, issued, calls>>

AreaNext ==
    /\ pc = "return" /\ area
    /\ IF outcome[todo[1]] # "acknowledged"
         THEN pc' = "done" /\ UNCHANGED <<todo, confirmed>>
         ELSE /\ confirmed' = confirmed + items[todo[1]]
              /\ IF todo[1] = Len(items)
                   THEN pc' = "done" /\ UNCHANGED todo
                   ELSE pc' = "begin" /\ todo' = <<todo[1] + 1>>
    /\ UNCHANGED <<items, area, planVars, resultVars, ctxDone, sessionVars, plcVars,
                   reply, read, issued, calls>>

WriteReturns ==
    /\ pc = "return" /\ ~area
    /\ pc' = "done"
    /\ UNCHANGED <<callVars, planVars, resultVars, confirmed, ctxDone, sessionVars,
                   plcVars, reply, read, issued, calls>>

CtxDone ==
    /\ pc \notin {"return", "done"} /\ ~ctxDone
    /\ ctxDone' = TRUE
    /\ UNCHANGED <<callVars, pc, planVars, resultVars, confirmed, sessionVars,
                   plcVars, reply, read, issued, calls>>

\* Another Write with what was not attempted, in any order.
Unattempted == {i \in Index : outcome[i] = "notAttempted"}

SubmitAgain ==
    /\ pc = "done" /\ ~area /\ calls < MaxCalls /\ Unattempted # {}
    /\ todo' \in SetToSeqs(Unattempted)
    /\ failed' = [i \in Index |-> failed[i] /\ i \notin Unattempted]
    /\ pc' = "begin" /\ fatal' = "none" /\ ctxDone' = FALSE
    /\ read' = "none"
    /\ calls' = calls + 1
    /\ UNCHANGED <<items, area, planVars, outcome, confirmed, sessionVars, plcVars,
                   reply, issued>>

Reconnect ==
    /\ pc = "done" /\ session = "broken" /\ generation < MaxCalls
    /\ session' = "ready" /\ generation' = generation + 1
    /\ UNCHANGED <<callVars, pc, planVars, resultVars, confirmed, ctxDone, plcVars,
                   reply, read, issued, calls>>

\* An answer reaches only the session it belongs to, if that is still there.
Answer(r, kind, refused) ==
    reply' = IF session = "ready" /\ r.session = generation
               THEN [kind |-> kind, refused |-> refused] ELSE reply

\* The PLC writes the items it does not refuse; its answer may be dropped or
\* come out malformed.
PLCExecutes(r) ==
    /\ \E refused \in SUBSET r.items :
         /\ applied' = [i \in Index |->
              IF i \in r.items \ refused THEN applied[i] + 1 ELSE applied[i]]
         /\ \/ \E k \in {"codes", "badFrame", "badPayload"} : Answer(r, k, refused)
            \/ UNCHANGED reply
    /\ net' = net \ {r}
    /\ UNCHANGED <<callVars, pc, planVars, resultVars, confirmed, ctxDone,
                   sessionVars, read, issued, calls>>

PLCRejectsRequest(r) ==
    /\ Answer(r, "globalCode", r.items)
    /\ net' = net \ {r}
    /\ UNCHANGED <<callVars, pc, planVars, resultVars, confirmed, ctxDone,
                   sessionVars, applied, read, issued, calls>>

-----------------------------------------------------------------------------
Next ==
    \/ Refuse \/ Begin \/ NextWriteBatch \/ Pack \/ PlanStops \/ Plan \/ Finish
    \/ ExchangeCanceled \/ WriteFailsUnsent \/ WriteFailsPartial \/ WriteRequest
    \/ ReadFails \/ ReadMalformed \/ ReadGlobalCode \/ ReadCodes
    \/ AreaNext \/ WriteReturns \/ CtxDone \/ SubmitAgain \/ Reconnect
    \/ \E r \in net : PLCExecutes(r) \/ PLCRejectsRequest(r)

Spec == Init /\ [][Next]_vars

-----------------------------------------------------------------------------
\* Properties

InNet(i) == \E r \in net : i \in r.items
Settled(i) == i \notin Batch

\* WriteOutcome tells the truth about the PLC, whatever failed where: an
\* acknowledged item was executed exactly once, a rejected one never was and
\* never will be.
OutcomeIsTrue ==
    \A i \in Index :
        /\ outcome[i] = "acknowledged" => applied[i] = 1 /\ ~InNet(i)
        /\ outcome[i] = "rejected" => applied[i] = 0 /\ ~InNet(i)

\* An item that comes back as not attempted was in no request, not even in part.
NotAttemptedWasNotIssued ==
    \A i \in Index :
        Settled(i) /\ outcome[i] = "notAttempted" =>
            issued[i] = 0 /\ applied[i] = 0 /\ ~InNet(i)

\* An application that resubmits only what was not attempted never makes the PLC
\* execute an item twice, even if an abandoned request is executed late.
AtMostOnce ==
    \A i \in Index : applied[i] + (IF InNet(i) THEN 1 ELSE 0) <= 1

\* No item fails silently: when writeLocked returns, an item has an Err unless
\* it was acknowledged; without a returned error every item has an answer.
NoSilentFailure ==
    pc = "return" =>
        /\ \A i \in Chosen : failed[i] <=> outcome[i] # "acknowledged"
        /\ fatal = "none" =>
             \A i \in Chosen : outcome[i] \in {"acknowledged", "rejected"}

\* A size error is found before the first byte is sent, never between two PDUs.
LimitBeforeIO ==
    fatal = "limit" => \A i \in Chosen : issued[i] = 0

\* Every request in an exchange fits the negotiated PDU, as does its answer.
BatchFits ==
    pc = "exchange" =>
        /\ batch # <<>> /\ Len(batch) <= MaxItemsPerPDU
        /\ WriteRequestSize(LensOf(batch)) <= PDU
        /\ WriteResponseSize(Len(batch)) <= PDU

\* WriteArea: n counts the contiguous acknowledged prefix, and nothing behind the
\* first chunk that was not acknowledged was ever sent.
ConfirmedPrefix ==
    area =>
        \E k \in 0..Len(items) :
            /\ \A i \in 1..k : outcome[i] = "acknowledged"
            /\ \A i \in (k + 1)..Len(items) : outcome[i] # "acknowledged"
            /\ \A i \in (k + 2)..Len(items) : issued[i] = 0
            /\ pc = "done" => confirmed = Total(items, k)

\* docs/spec.md section 10.1: a malformed response of the peer is a protocol error.
MalformedIsProtocolError ==
    pc = "return" /\ read \in {"badFrame", "badPayload"} => fatal = "protocol"

-----------------------------------------------------------------------------
\* The inductive invariant behind the properties

Working == {"plan", "pack", "exchange", "await"}
Holding == {"pack", "exchange", "await"}

TypeInv ==
    /\ items \in Seq(Int) /\ items # <<>>
    /\ todo \in Seq(Index) /\ todo # <<>> /\ batch \in Seq(Index)
    /\ {area, ctxDone} \subseteq BOOLEAN
    /\ pc \in Working \cup {"begin", "return", "done"}
    /\ at \in Nat /\ {requestSize, responseSize, confirmed} \subseteq Int
    /\ outcome \in [Index -> Outcomes] /\ failed \in [Index -> BOOLEAN]
    /\ session \in {"ready", "broken"} /\ generation \in Nat
    /\ net \subseteq [session : Nat, items : SUBSET Index]
    /\ reply \in [kind : {"none", "codes", "globalCode", "badFrame", "badPayload"},
                  refused : SUBSET Index]
    /\ issued \in [Index -> Nat] /\ applied \in [Index -> Nat]

\* The batch is the part of todo that ends before at; no item is in todo twice.
PlanInv ==
    /\ \A j, k \in DOMAIN todo : todo[j] = todo[k] => j = k
    /\ pc \notin Holding => batch = <<>>
    /\ pc \in {"exchange", "await"} => batch # <<>>
    /\ pc \in Working =>
         /\ session = "ready"
         /\ at <= Len(todo) + 1 /\ Len(batch) < at
         /\ pc = "pack" => at <= Len(todo) \/ batch # <<>>
         /\ \A k \in DOMAIN batch : batch[k] = todo[at - 1 - Len(batch) + k]

\* The running sizes are those of the batch, and every item has passed the preflight.
SizeInv ==
    /\ pc \in Holding =>
         /\ Len(batch) <= MaxItemsPerPDU
         /\ requestSize = WriteRequestSize(LensOf(batch))
         /\ responseSize = WriteResponseSize(Len(batch))
         /\ batch # <<>> => requestSize <= PDU /\ responseSize <= PDU
    /\ pc \in Working => \A k \in DOMAIN todo : 28 + items[todo[k]] <= PDU

\* What has been answered, what is still to come, and which items have an Err.
ResultInv ==
    /\ pc \in Working \cup {"begin"} => fatal = "none"
    /\ pc = "begin" => \A i \in Chosen : outcome[i] = "notAttempted" /\ ~failed[i]
    /\ pc \in Working => \A k \in DOMAIN todo :
         /\ k < at - Len(batch) => outcome[todo[k]] \in {"acknowledged", "rejected"}
         /\ k >= at - Len(batch) => outcome[todo[k]] = "notAttempted"
         /\ failed[todo[k]] <=> outcome[todo[k]] = "rejected"
    /\ pc = "return" /\ area /\ outcome[todo[1]] = "acknowledged" => fatal = "none"

\* Where the requests are, and what the PLC has made of an item.
Pending(i) == pc = "await" /\ i \in Batch

NetInv ==
    /\ \A r, s \in net : r.items \cap s.items # {} => r = s
    /\ \A r \in net : r.session <= generation
    /\ session = "ready" =>
         \A r \in net : r.session = generation =>
             pc = "await" /\ r.items = Batch /\ reply.kind = "none"
    /\ reply.kind # "none" => pc = "await" /\ reply.refused \subseteq Batch

ItemInv(i) ==
    /\ outcome[i] = "notAttempted" /\ ~Pending(i) =>
         issued[i] = 0 /\ applied[i] = 0 /\ ~InNet(i)
    /\ outcome[i] = "acknowledged" => applied[i] = 1 /\ ~InNet(i)
    /\ outcome[i] = "rejected" => applied[i] = 0 /\ ~InNet(i)
    /\ applied[i] = 0 \/ (applied[i] = 1 /\ ~InNet(i))
    /\ Pending(i) /\ reply.kind = "codes" =>
         ~InNet(i) /\ applied[i] = IF i \in reply.refused THEN 0 ELSE 1
    /\ Pending(i) /\ reply.kind = "globalCode" => ~InNet(i) /\ applied[i] = 0

\* WriteArea has one chunk to do, all before it are acknowledged and counted.
AreaInv ==
    area =>
        /\ Len(todo) = 1
        /\ \A i \in Index : i < todo[1] => outcome[i] = "acknowledged"
        /\ \A i \in Index : i > todo[1] => outcome[i] = "notAttempted"
                                            /\ (failed[i] => pc = "done")
        /\ confirmed = Total(items, IF pc = "done" /\ outcome[todo[1]] = "acknowledged"
                                      THEN todo[1] ELSE todo[1] - 1)

\* The plan, the results and the requests under way agree at every point at which
\* Write or WriteArea can fail.
WriteInv ==
    /\ TypeInv /\ PlanInv /\ SizeInv /\ ResultInv /\ NetInv /\ AreaInv
    /\ \A i \in Index : ItemInv(i)
    /\ NoSilentFailure /\ LimitBeforeIO
=============================================================================
