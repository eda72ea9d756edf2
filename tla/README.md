# A TLA+ specification of gos7

gos7 is a Go client for Siemens S7 controllers over ISO-on-TCP. This directory
holds a formal model of it: TLA+ modules translated from the source, TLC
configurations that model-check them, and TLAPS proofs of the results that
should hold for any number of goroutines, any items and any bytes. `PROJECT.json` maps each
definition to the lines it models.

## 1. The system

| Part | Source | State | Operations |
|---|---|---|---|
| Session core | `client.go` 19-347, 1050-1266 | `state`, `conn`, `limits`, generation, PDU reference, last failure under `mu`; the one-place channel `gate`; `lifeCtx`; per call: a context with a timeout, a deadline watcher | `Connect`, `Close`, `acquire`/`release`, `exchange`, `armConnection`, `failConnect`, `breakSession` |
| Observers | `diagnostics.go`, `client.go` 307-347 | none of their own | `State`, `Limits`, `Diagnostics` |
| Write | `client.go` 377-404, 446-531, 712-837, 969-997 | the plan of a batch, per-item outcome, `WriteArea`'s count | `Write`, `WriteArea` |
| Read | `client.go` 349-375, 406-444, 543-710, 839-967 | fragment iterator with one put back, per-item progress and error | `Read`, `ReadArea` |
| Items | `item.go` | none | validation, layout, data length |
| S7 PDUs | `internal/protocol` | none | build, parse, size |
| Framing | `internal/isotcp` | none | `ReadFrame`, `WriteFull`, COTP connection request and confirm |
| Configuration, addresses, errors | `config.go`, `address.go`, `errors.go` | none | `normalizeConfig`, `ParseAddress`, `newError` |
| Scalar codec | `codec/scalar.go` | none | numbers, strings, counters, S5TIME |
| Test PLC | `internal/testplc` | memory, scripted faults, the registered connections, a wait group | `Start`, `acceptLoop`, one `handleConnection` per connection, `Close`, the script setters |

How they interact. Any number of goroutines call one `Client`. All of `Connect`,
`Read` and `Write` queue on `gate`, so there is at most one conversation with
the PLC. `Close` deliberately does *not* take the gate: it changes the state
under `mu`, cancels `lifeCtx`, then closes the socket, while a call may be
anywhere between its snapshot of the session and its own critical section. A
blocked read ends by a frame, by the deadline of the socket, by the watcher
goroutine that moves this deadline to now when the call's context ends, or by
`Close`. A failure of the session closes whatever socket the client stores at that
time. Nothing reconnects or retries by itself: resubmission is the
application's, guided by `WriteOutcome`.

What is hard in it, and what makes each part correct:

* *Session core.* Interleavings of `Close` with every step of `Connect` and
  `exchange`; watchers that must not outlive their call; a late response that
  the next call would misread; a caller queued behind a call that never ends.
  Correct means: Ready always denotes one usable session, no socket is lost,
  the failing call closes only its own session, Closing is final, a Ready
  session without a call is aligned, and everybody returns.
* *Write.* An exchange fails before, during or after the transmission, and a
  request that was given up on may still be executed. Correct means: outcomes are true
  and an application that resubmits only `NotAttempted` items never writes twice.
* *Read.* Splitting, packing, partial refusals, two separate computations of the number
  of fragments. Correct means: data are a prefix from the right addresses,
  results are complete or marked, requests fit.
* *Handshake.* Four sizes are agreed one after the other (frame limit, TPDU, proposed
  PDU, negotiated PDU), with a peer that may name them in any order and number.
  Correct means: what was agreed fits whatever is exchanged later.
* *Protocol, framing, addresses.* Three ways to count an address, padding between
  items, an answer that is damaged but plausible. Correct means: a read or write
  touches exactly what the address text names, and no damaged answer is misread.
* *Codec.* Buffers used again, the edges of BCD and S5TIME.
* *Test PLC.* `Close` in a race with the accept loop and the handlers. The tests of
  the client rest on it.

The complete list, with lines and the properties that cover each entry, is
`hazards` in `PROJECT.json`.

## 2. Modules

| Module | What it is |
|---|---|
| `Session` | The client and its goroutines, the core of the model |
| `Lifecycle` | Abstract specification: the state diagram of `docs/spec.md` 7.1, as `State`, `Limits` and `Diagnostics` show it |
| `SessionInvariant` | The two inductive invariants of `Session` |
| `SessionProofs` | Type correctness, the two inductive invariants with all that follows from them, and the refinement, proved |
| `PDUSize` | The size functions of `internal/protocol` |
| `PDUSizeProofs` | Lemmas about running totals; what one more item adds to a PDU, proved |
| `WriteBatch` | `Write` and `WriteArea` with a PLC and an application around them |
| `WriteBatchProofs` | The inductive invariant of `WriteBatch` and its properties, proved |
| `ReadBatch` | `Read` and `ReadArea` |
| `ReadBatchProofs` | The inductive invariant of `ReadBatch` and its properties, proved |
| `Bytes` | Bits of a byte and numbers of two bytes, shared by `Codec` and `Wire` |
| `Items` | Validation and wire descriptors of items: pure operators, shared by `ReadBatch`, `AddressText` and `Wire` |
| `Handshake` | From `Config` to a negotiated session: normalization, COTP confirm, setup, and the sizes of later exchanges |
| `HandshakeProofs` | The properties of `Handshake`, proved |
| `AddressText` | `ParseAddress` and `FormatAddress`: pure operators |
| `Wire` | One exchange byte by byte: client, framing, test PLC with its memory, and back through the parsers |
| `WireProofs` | The inductive invariant of one exchange and the four properties of `Wire`, proved |
| `Codec` | `codec/scalar.go`, as a machine that applies codecs to one buffer |
| `CodecProofs` | The properties of `Codec` for every buffer and value, proved |
| `TestPLC` | The goroutines of the test PLC |
| `TestPLCProofs` | Its inductive invariant and `CloseIsClean`, proved |
| `MCSession`, `MCWriteBatch`, `MCReadBatch`, `MCHandshake`, `MCWire`, `MCCodec` | Instances for TLC |

`SessionInvariant` extends `Session`; `Session` instantiates `Lifecycle` with a
refinement mapping; `WriteBatch`, `ReadBatch` and `Wire` extend `PDUSize`; `ReadBatch` and
`AddressText` extend `Items`, and `Wire` extends `AddressText`; `Wire` and `Codec` extend `Bytes`. What `WriteBatch` and
`ReadBatch` take from `Session` is that the gate lets one call run at a time and that a failed
exchange breaks the session.

Definitions marked `\* mutant` are deliberately wrong variants of the definition
that follows them. No specification uses them; they are put in its place to see that a
property notices (`mutants` in `PROJECT.json`).

### Session and `client.go`

A step of `Session` is what the code does between two points at which another
goroutine can see it: one critical section of `mu`, one operation on the gate,
one look at a context, one socket call. `pc[c]` names the point a caller is at.

| Action | Code |
|---|---|
| `StartConnect`, `StartData`, `EnterData` | entry of the public methods |
| `QueueCanceled`, `QueueClosed`, `TakeGate`, `Recheck` | the cases of `acquire`'s `select`, any of those that are ready, and the second look behind it |
| `ConnectState`, `ConnectCtx`, `ConnectMark` | the checks of `Connect` and its step to Connecting |
| `DialOpens`, `DialOptionFails`, `DialFails`, `Publish` | dialling; publication of the socket, unless `Close` came first |
| `ConnectLimits`, `Commit` | the negotiated limits; the last critical section of `Connect` |
| `Ready`, `NextBatch`, `Begin`, `Parse` | `readLocked`/`writeLocked` seen as a loop of exchanges; `exchange`'s snapshot and reference |
| `Arm`, `Send`, `Recv`, `IO...` | `armConnection`, `WriteFull`, `ReadFrame`, and the ways in which they fail |
| `Disarm`, `DisarmWait` | the stop function of `armConnection`, which waits for the watcher |
| `ClassifyLife`, `ClassifyCtx` | `classifyContextError`, whose two looks at contexts are separate steps |
| `FailConnect`, `BreakSession`, `DropClose` | critical section, then the close of the socket outside it |
| `CloseMark`, `CloseCancel`, `CloseSocket`, `CloseFinish` | `Close` |
| `ShutdownWatcher`, `WatcherFires`, `WatcherStops` | goroutines of `contextWithShutdown` and `armConnection` |
| `CallerCtxDone`, `Timeout`, `PeerAnswers` | the environment |

Abstractions. A response is well formed, malformed, or refuses, at the peer's
choice. `wire[s]` records whether a request is unanswered, a response is
buffered, or neither. A deadline is none, set, or now. `late` and `cut` are history
variables for the properties: the call started after `Close` had returned; the
call found its socket closed by `Close`, in I/O or in `armConnection`.
Contexts are sticky: once a context reports an error, it keeps that error.
The peer answers each request at most once and in its own time; a response with a wrong
reference or of a wrong shape is one of those that `Parse` finds malformed. The
local invariant errors of `exchange` (a request larger than the negotiated PDU)
are left out: `BatchFits` and `ReadBatchFits` show that no batch causes them. `Dial` is
`New`, `Connect` and, if that fails, `Close`, and has no steps of its own.

### WriteBatch and ReadBatch

Both keep the whole control flow of `writeLocked`, `readLocked` and the area
methods. `WriteBatch` adds the PLC (`net`: requests it has yet to execute; `applied`:
executions per item) and the application (`SubmitAgain`, `Reconnect`). The loop of
`nextWriteBatch` is three actions, so that its running sizes can be compared with the size
functions: `NextWriteBatch` (start), `Pack` (one round), `Plan` or `PlanStops` (end). Item data is
its length. In `ReadBatch` the data of an item is the sequence of fragments copied
into it, so that an address or an order that is wrong shows. Its loops are actions too:
`original` and `offset` are the place of `readFragmentIterator` (a fragment that is put back is
one that was not taken), `NextReadBatch` starts a batch, `SkipFragment` passes over a fragment of
an item that has failed, `Pack` adds one, `Plan`, `PlanStops` or `Finish` ends the loop, and
`Merge` looks at one answer of a response. Only the loops over all items that cannot be
interrupted (`prepareReads`, `countReadFragments`, `markReadIncomplete`) are one step.

### Handshake

One step per phase of `New` and `Connect`: `New` (defaults, limits, addressing),
`ConnectionRequest`, one `Parameter` step per round of the loop in
`ParseConnectionConfirm`, `SetupRequest`, `SetupResponse`, then any number of
`Exchange` steps with requests and answers of any size. The other side is either
the test PLC, which answers as `buildConnectionConfirm` and `handleConnection` do,
or any peer at all. A header field is the value it carries; wrong headers are
`MalformedConfirm` or an answer that is not well formed; a bad TPKT header is an error of
`ReadFrame` and ends `Connect` with a transport error, any other with a protocol error. I/O failures and
cancellation between the phases are `Session`'s subject.

### AddressText and Wire

`AddressText` works on what the four regular expressions take apart (form, area
prefix, DB number, width, number, bit), with a value that stands for a number too
big for 32 bits. `Wire` joins the pieces that a unit test looks at one by one: `Parse`
(address texts to items), `Build` (validation, `makeProtocolItem`, the builders,
`WrapData`), `Serve` (`exchange`'s checks of the request, `parseJob`, `parseVariableItems`,
`handleRead`, `handleWrite` on the memory of the PLC), `DamageReply` (one byte changes, appears or is
lost, or nothing happens) and `Receive` (`ReadFrame`, `exchange`'s checks of the response,
`UnwrapData`, `parseAckData`, the parsers). `PDU` and `TPDU` are the negotiated sizes, of which
`WireAssumption` says what `Connect` has checked: the PDU fits the TPDU and the frame limit. A
checked error of a builder, of `exchange` or of the PLC after successful validation leads to the place `impossible`, which `SizesAreAsPlanned` excludes. A call that is not one
exchange of the negotiated PDU (`OneExchange`, the test of `nextReadBatch` and
`nextWriteBatch` for all its items at once) ends in `several` and is the subject of `ReadBatch`
and `WriteBatch`.

### Codec

`Apply` is the common shape of all encoders: an error leaves the buffer alone. `PutInt` and
`PutUint` are the signed and the unsigned ones; REAL and LREAL are their bit patterns, put as unsigned
numbers. The decoders, with `Bool`'s and `DecodeClassicString`'s errors, are the operators the
properties compare with. A duration is a number of some unit of which `Millisecond` make a
millisecond: the code's is the nanosecond, TLC takes a hundredth of a millisecond, the proofs any.

### TestPLC

| Action | Code |
|---|---|
| `Accept`, `Register`, `Spawn` | the steps of `acceptLoop`; `Register` takes the mutex, `Spawn` is `wg.Add` and `go` |
| `AcceptFails`, `AcceptBreaks` | the end of `acceptLoop`: `Accept` fails because `Close` has closed the listener, or on an open one; the error is recorded unless the server is closed |
| `ReadRequest`, `Refuse`, `ReadFails` | what `ReadFrame` and the parsers return to `handleConnection` |
| `Delay`, `Wake`, `Reply`, `Ack` | `delayResponse`, `consumeDropWriteResponse`, `writeAck` |
| `Unregister`, `CloseConnection`, `Finish` | the deferred calls of a connection's goroutine, the last of which is `wg.Done` |
| `CloseChannel`, `CloseListener`, `CloseConnections`, `CloseReturns` | `Close` |
| `Script` | `DropNextWriteResponse`, `DelayNextResponse` |
| `Dial`, `Send`, `HangUp` | the clients |

A client sends whole frames, one request at a time. One that leaves in mid-session
may reset its connection, which `isExpectedClose` does not know as a close.
`Accept` may fail at any time (no file descriptor is left, say). Then `acceptLoop` is over while
the listener is still open: sessions go on, but a client in the backlog, and each one that
dials after it, is served by nobody and waits until `Close` drops it. The history variable
`acceptFault` marks these behaviours. `CloseIsClean` allows the recorded error for them, and
`NoClientIsLeftWaiting` excepts the client in the backlog (`Stranded`) until `Close` begins; after
that it must see its connection end.
`RejectNextItem` and `RejectItemAfter` change a return code and no step of the server; the
code is part of `Wire`.

## 3. Runs

| Run | Instance | What it shows |
|---|---|---|
| `session` | 2 callers, 2 sockets, 1 exchange per operation, all faults, cancellation | All safety properties of the session and its refinement of `Lifecycle` |
| `session_deep` | 1 caller, 3 sockets, 3 exchanges, references 1..3, both context errors | The invariant of the socket I/O over long histories: broken and reconnected twice, references that wrap |
| `session_live` | 2 callers, 1 socket, no fault, no cancellation | `Close` returns and unblocks everyone by itself, without timers; with timers every call returns even if the peer is silent |
| `session_cut` | 1 caller, 1 socket | Finding 1 (a violation) |
| `write` | PDU 240, 3 items per PDU, batches and areas at the size limits, 3 calls | Truth of outcomes and counts |
| `write_malformed` | same, 1 call | Finding 2 (a violation) |
| `read` | PDU 240, 3 items per PDU, limits of items, fragments and 24-bit addresses | Completeness and truth of read results |
| `handshake` | configurations at, below and above every limit, 4 COTP parameters in any order, test PLCs of 5 sizes | The agreed sizes fit each other and every exchange |
| `wire` | address texts at every limit, pairs and triples with padding and overlap, one place of damage anywhere in the answer | Reads and writes are faithful; nothing damaged is misread |
| `codec` | two codec calls in a row on buffers of 0 to 8 bytes, timer words of every base | Values survive; S5TIME is exact |
| `plc` | 2 connections, handshake and one data request each, one scripted fault, `Accept` failing at any time | `Close` is clean; nobody is left waiting |
| `plc_close` | 1 connection | Finding 3 (a violation) |

Properties of the session runs: `ReadyIsUsable`, `NoSocketLeak`,
`DropsOwnSocket`, `AlignedWhenIdle`, `NoStrayInterrupt`, `ClosedForGood`,
`CutIOReportsClosed`, `FailureIsOfSession`, the inductive `SessionInv` and (in
`session_deep`) `SessionIOInv`, `ImplementsLifecycle`, and the
two liveness properties `CloseUnblocks` and `EveryCallReturns`. Of the write run:
`OutcomeIsTrue`, `NotAttemptedWasNotIssued`, `AtMostOnce`, `NoSilentFailure`,
`LimitBeforeIO`, `BatchFits`, `ConfirmedPrefix`. Of the read run: `DataIsPrefix`,
`ResultIsWhole`, `NoLateSurprise`, `ReadBatchFits`, `AskedOnce`, `AreaIsWhole`. Of the
handshake: `NegotiatedPDUIsUsable`, `TPDUIsAgreed`, `ConformingPeerIsAccepted`,
`PeerIsTheAddressedOne`. Of the wire: `ExchangeIsFaithful`, `AcceptedMeansUnderstood`,
`SizesAreAsPlanned`, `AddressTextIsSound`. Of the codec: `BufferHoldsValue`, `TimersAreExact`. Of
the test PLC: `CloseIsClean`, `CloseReturnsInTheEnd`, `NoClientIsLeftWaiting`. Each is
stated in words where it is defined.

Bounds, and why they are enough:

* Two callers and `Close`: the gate admits one caller, so a second one is
  everything a call can meet besides `Close`: queued, about to enter, or
  leaving. The proofs in section 5 do not depend on the number. Callers are symmetric, and
  the run without liveness uses that.
* Two sockets: the session that fails and the one after it, which a stale
  failure might close. Three in `session_deep`.
* `MaxReference` stands for 65535. With 1 every increment wraps; with 3 wrapping and
  not wrapping both occur.
* One socket in the liveness run: a second session adds no way of waiting.
  A caller that would dial when all sockets are used waits for its timeout or for
  `Close`, which is how a peer that drops the SYN behaves.
* PDU 240 is the smallest that the code accepts, and the item sizes are chosen
  one below, at and one above what fits, alone, in pairs and with the pad byte.
  `MaxItemsPerPDU` is 3 instead of 20 so that the count, not only the size, ends a
  batch.
* `MaxFragmentsPerCall` 6 (read) and 4 (write): areas below, at and above the limit.
* `MaxCalls` 3: two resubmissions, each after a different failure.
* `MaxParameters` 4: both TSAPs and two TPDU sizes, or one of them three times. The frame
  limits and PDUs of `handshake` lie on both sides of each comparison in
  `normalizeConfig` and `Connect`.
* In `wire` a frame limit of 512, a PDU of 72 and items of at most 12 bytes keep frames short;
  triples lie on both sides of that PDU. A real PDU has at least 240 bytes, but neither `Wire` nor
  its proofs depend on that. Damage bytes 0, 4 and 255 are those that the parsers treat specially. Two errors in one
  answer are not tried; the proof of `AcceptedMeansUnderstood` does not depend on where and
  how often an answer is damaged.
* `codec`: values of 32 bits (unsigned ones below 2^31) also for the 64-bit functions, since TLC's
  integers end there; the proofs are about all 64 bits. Durations in nanoseconds do not
  fit either; hundredths of a millisecond do, up to the longest S5TIME, and have values
  between the multiples of every base.
* `plc`: one data request per connection reaches every step of a handler; two
  connections compete for the scripted fault and for the accept loop.

`CHECK_DEADLOCK FALSE` is used where a call has an end and nothing follows it
(`write`, `read`, `handshake`, `wire`, `codec`, `plc`); the session runs check for deadlock.

## 4. Fairness

`Scheduled` assumes weak fairness for a goroutine that can run (callers, watchers, `Close` once it
has begun): the Go scheduler is preemptive and fair to
runnable goroutines. Taking the gate has strong fairness: goroutines blocked in a
channel send queue first in, first out, so one that waits is
served although the gate is busy at times in between. Nothing is assumed of
the peer, the network, the application, `Close` being called, or a caller's
context. A dial is only assumed to end when its context ends. `TimersRun` adds that timers
fire; it is justified because `normalizeConfig` replaces zero timeouts by defaults and rejects
negative ones, so that every operation context has a finite deadline.
`CloseUnblocks` does without it. (`handshake` has the normalization in `New`.)

`TestPLC` assumes weak fairness for its accept loop, its handlers and a `Close` that has
begun, timers included; nothing makes `Accept` fail on an open listener, so `AcceptBreaks` has no
fairness. `CloseReturnsInTheEnd` also assumes that clients leave
(`ClientsLeave`), which the tests see to by closing their clients; `NoClientIsLeftWaiting` and
`CloseStopsSessions` assume nothing of clients.

## 5. Proofs

Checked by TLAPS for every set of callers and every bound, from
`ConstantsAssumption` alone:

* `TypeCorrect`: `Spec => []TypeOK`.
* `InvariantHolds`: `Spec => []SessionInv`.
* From it `ReadyUsable`, `FailureOfSession`, `OwnSocketDropped`, `NoLeak`.
* `Refinement`: `Spec => ImplementsLifecycle`.

Why an invariant is needed: that Ready is usable, or that a failing call closes only its own socket,
is not preserved by itself. It depends on what the call knows
at the point it has reached, and on what `Close` may have done since. `SessionInv`
says just that:

1. `GateInv`: whoever is behind `acquire` owns the gate. So all callers but one
   are at points about which the rest of the invariant promises nothing
   (lemma `Bystander`), and a step of the owner has to be examined for the owner only.
2. `HandshakeInv`, `ExchangeInv`: from `ConnectMark` to the end of `Connect` the state is
   Connecting and the stored socket is the one that was dialled; during an exchange
   the state is Ready and the stored socket is the one of the snapshot. Each of them
   reads "or the client is shut": `Close` is the only one to interfere, and
   interfering makes the promise void instead of false (lemma `CloseStep`).
3. `OwnInv`, `OpenInv`, `ConnectingInv`: every open socket has a holder, and
   Connecting has a `Connect` that will end it.
4. `ResultInv`: what `failConnect` and `breakSession` record is a failure of the session, or
   the client is shut and they record nothing.

Most steps change only the caller's own variables (`LocalAction`) and are dealt with together;
the steps that change the client have one lemma each (`ConnectMarkStep`, `DialStep`,
`PublishStep`, `CommitStep`, `DropStep`, `DropCloseStep`, `CloseStep`). TLC
checks `SessionInv` too, in run `session`.

The four properties of `Handshake` are proved in `HandshakeProofs`, from
`HandshakeAssumption` (the types of `Config`, of `Addressing` and of what a peer may send) and for
any set of configurations, parameters, answers and payload sizes:

* `SizesFit` and `ConformingPeer` rest on `SizesInv`, what is known of the sizes after each
  phase: an accepted configuration has a PDU of 240 to 960 bytes that fits its frame
  limit, the proposal fits the TPDU, the negotiated PDU fits all three. None of it can be
  seen from the last phase alone, which is why the property itself is not inductive.
  `ConformingPeer` adds `PLCInv`, the three parameters of the test PLC's confirm one by one.
* `SmallestTPDU` rests on `TPDUInv`: at each parameter the size is the least of those met so far.
* `AddressedPeer` rests on `PeerInv`: TSAPs of an accepted configuration are numbers and
  have been compared before the setup.

The second part of `SessionProofs` adds what happens on the sockets. `IOInvariantHolds` proves `SessionIOInv`
on top of `SessionInv`, and from it follow `IdleAligned`, `OwnInterrupt`, `LateIsClosed` and
`CutIsClosed`. The invariant says, for the owner of the gate and each point it can
be at, what its socket carries (nothing before the request, one request or its answer
until the frame is read, nothing after it), that the watcher of a call ends before the
call gives the gate away, and that `lifeCtx` is done wherever a call can notice that
it is late or that `Close` has closed its socket. The properties are not inductive:
that a session is aligned when nobody uses it depends on what each failing read
left on the wire and on the session being broken for it before the gate is free.

`WriteBatchProofs`, from `WriteAssumption` alone, for any batches and areas, any PDU of at
least 240 bytes, any limits and any number of calls: `WriteInvariant`, and from it
`OutcomesAreTrue`, `NotAttemptedNotIssued`, `WrittenAtMostOnce`, `FailuresAreReported`,
`LimitsComeFirst`, `WriteBatchesFit`, `ConfirmedIsPrefix`. `WriteInv` has these parts:

1. `PlanInv`: the batch is the stretch of `todo` that ends before `at`, and no item is in
   `todo` twice. This ties results to positions and makes batches disjoint.
2. `SizeInv`: the running sizes are those of the encoded request and answer (`WriteSizeGrows`),
   and every item fits alone. Hence the loop always takes at least one item, which is
   `LimitBeforeIO` where it is not obvious.
3. `ResultInv`: before the batch everything has an answer, from it on nothing has been attempted.
4. `NetInv`, `ItemInv`: requests under way are disjoint; the one of the present session is the
   batch that is awaited, and only while its answer is not there; an item has been
   executed at most once, and then is in no request any more. An old session's request has an older
   generation, so its late answer reaches nobody.
5. `AreaInv`: one chunk to do, all before it acknowledged and counted, nothing behind it sent.

`ReadBatchProofs` does the same for `Read` and `ReadArea`: `ReadInvariant` proves `ReadInv` for every
list of items, PDU size and limit, whatever is refused and whichever exchange fails, and
`ReceivedInOrder`, `ResultsAreWhole`, `NothingIsLate`, `ReadBatchesFit`, `AskedAtMostOnce`, `AreasAreWhole`
follow, which are all properties of the run `read`. Assumed are a negotiated PDU of at least 240, which
`Connect` enforces, positive limits, and that `ReadArea` asks for one item of bytes. The
argument:

1. `IteratorInv`: the iterator stands at a multiple of `MaxFragmentData` within an item, and
   has made no more fragments than `countReadFragments` counts up to there: the count and the
   iterator, written apart from each other, agree (`CountUpCovers`, `Iteration`).
2. `BatchInv`: every fragment of a batch is one the iterator makes, so that its length, address
   and amount are right and fit their fields (`FragmentFacts`); the running sizes are those of
   the encoded PDUs (`CandidateSizes`), and one fragment alone always fits (`OneFits`).
3. `OrderInv`: fragments that were taken go up and lie before the iterator; hence none is
   asked for twice.
4. `ChainInv`: of an item that has not failed, the fragments not yet answered lead without a gap
   from `progress` to the iterator. So the next answer always continues the data (`NextAnswer`),
   data out of order only occurs behind a refusal, and when the
   iterator is through, every item without an error is complete (`FinishRead`): the invariant
   error "incomplete logical item" is unreachable.
5. `ItemInv`, `CallInv`: an item with an error is not complete, and a failing `ReadArea` has the
   error at its item too; this is what `markReadIncomplete` needs to leave results whole.

`PDUSizeProofs` holds what this needs of arithmetic over sequences. A loop that adds up is the
recursive function `Totals`. The library's induction schemes cannot be used with the
installed provers, so induction is over sets: a set of natural numbers that is not empty has a
least element (`LeastNatural`, from the well-founded order of finite sets by inclusion), hence a set
that holds 0 and with each k its successor holds all (`UpTo`). From that follow
that the recursive function exists, adds up, and does not depend on elements behind
its end (`TotalsExist`, `TotalsStep`, `TotalsAgree`), and the theorems `WriteSizeGrows` and
`ReadSizeGrows`.

`TestPLCProofs`: `ServerInvariant` proves `ServerInv` for any set of connections: the wait
group counts the accept loop and the handlers that have not finished, every open server side of a
connection is in the hands of one of them, `Close` has passed its steps in order, the accept
loop has ended only because the listener was closed or `Accept` failed by itself, and a recorded
error has such a failure or a client behind it. `ServerCloseIsClean` follows; the order of the
deferred calls matters in it, since `wg.Done` before `connection.Close` would let `Close` return
with an open connection.

`CodecProofs`, from `CodecAssumption` (the arguments have the types of the Go functions), for
any buffers, any arguments, any unit of durations and any number of calls in a row: `CodecIsSound`, and from it
`CodecHoldsValue` and `CodecTimersAreExact`. Here the two properties together
are inductive (`CodecInv`), since each call is checked against the buffer it found. What
is hard is the arithmetic: that joining the bytes of `PutBytes` gives the value back, signed or
not, up to 64 bits (`BytesSurvive`, step by step along the quotients of `Shifted`, then `IntSurvives`
and `UintSurvives`); that the
digits of a word are those of its number and back (`BCDOfNumber`, `NumberOfBCD`); that the
finest exact base gives the least word and that a duration has a base exactly if some word
stands for it (`S5TimeWordSurvives`, `RepresentableDurations`).

`WireProofs`, from `WireAssumption` (texts the expressions let through, a memory of bytes, a
reference that is not 0, refusal codes other than 0 and 255, and a TPDU and a frame limit that have
room for the negotiated PDU, as `Connect` checks), for any addresses, counts, memory, sizes and damage:

* `WireAddressText`: the parser and the formatter are inverse to each other on what validation
  accepts (`NamedItem`, `TextOfItem`).
* `WireIsSound`: `Spec => []WireInv`. `WireInv` has four parts. `CallInv`: the items are records the
  parser can make. `RequestInv`: a frame that was sent is that of the call, whose items were validated
  and planned as one exchange. `ServedInv`: the memory is the old one with the accepted items
  written one after the other, and an undamaged reply is the acknowledgement of just that. `ResultInv`:
  the result is what the parsers make of the reply.
* `WireSizes` follows from the lemmas that the steps need anyway: the builder does not fail
  (`GoodBatchBuilds`), the PLC understands each specification as it was meant (`RequestArrives`,
  `SpecUnderstood`, `LayoutsAgree`), and request and answer fit the frame limit and pass the checks of
  `exchange` (`WithinLimits`, `AnswerFits`).
* `WireFaithful`: `AnswerRead` shows that the loop of `ParseReadResponse` takes the answer apart at
  the places at which the PLC put it together, and `ItemCells` that the PLC's addresses are those of the
  item. For writes `MemoryAfter` says what holds after k items, and `MemoryStep` that
  the next keeps it: untouched cells and bits are as before, and an item holds its data until a later
  one lies over it.
* `WireAccepted` goes the other way. Nothing is assumed of the reply but that it is a sequence of
  bytes: if the checks of `ReadFrame` and `UnwrapData` pass, it is `WrapData` of its payload but for the
  TPDU number (`FrameIsWrapped`); if those of `parseAckData` pass, the payload is an acknowledgement with
  the reference of the request (`AckIsMade`); if the loop ends where the data ends, the data is the
  concatenation of one encoded block per item (`AnswerIsMade`). So there is no room for a byte that is
  skipped or used twice.

Both directions rest on one picture of concatenated blocks: block i lies between the running
totals of the lengths before it, and nothing else is in the whole (`FlattenLayout`,
`FlattenUnique`). Loops of the code are recursive functions; what they compute after k
rounds is shown by induction over k with `UpTo`.

With this every invariant that a passing run checks is the subject of a theorem. Only model-checked
is liveness (`CloseUnblocks`, `EveryCallReturns`, `CloseReturnsInTheEnd`,
`NoClientIsLeftWaiting`): fairness and `ENABLED` are beyond the prover.

## 6. Findings

1. `session_cut`: if `Close` closes the socket between `exchange`'s snapshot and
   `armConnection`, `SetDeadline` fails and the error is returned as a transport error without
   `classifyContextError` (`client.go:1080`; the same in `Connect`, 148-151). The test of
   interrupted calls expects closed (`test/client_test.go:467`). A read or write that is
   already blocked does report closed, which `CutIOReportsClosed` shows.
2. `write_malformed`: a malformed TPKT header is an error of `ReadFrame`, which
   `exchange` reports as a transport error (`client.go:1093`), where
   `docs/spec.md:516` speaks of a protocol error. The session is broken either way.
3. `plc_close`: `acceptLoop` of the test PLC registers a connection without looking at
   `closed`. If `Close` walks over `connections` between `Accept` and the registration
   (`internal/testplc/server.go:171`), the new connection is never closed, and `Close` waits until
   its client leaves, although its comment promises to stop all active sessions.
   `CloseReturnsInTheEnd` shows that leaving is enough.

One divergence needs no run: `docs/spec.md:455-456` wants the TSAPs of a confirm in
reversed order, while the code also accepts them in the order of the request, as
`CHANGELOG.md:10-13` announces. `PeerIsTheAddressedOne` allows both.

## 7. Not modelled

* `normalizeEndpoint` and `normalizeLocalAddress`: host and port texts, taken apart by
  package `net`; they decide what is dialled and nothing else.
* Trimming and case folding of address texts; `String` methods.
* The conversion between floating point numbers and their bits.
* Logging-like fields of `Diagnostics` (addresses, `LastActivity`), messages and causes
  of errors, the `Temporary` flag.
* Malformed requests to the test PLC in detail: `Refuse` is one step for all of them, since no
  client of this repository sends one.
* The examples, the qualification program and CI.

## 8. Plan

Done: `Session`, `Lifecycle`, `SessionInvariant`, `Handshake`, `WriteBatch`, `ReadBatch`, `PDUSize`,
`TestPLC`, `Items`, `AddressText`, `Wire`, `Codec`, and proofs of all their invariants. What is left
to model is an abstract exchange that `Session` provides and `WriteBatch` and
`ReadBatch` use, with both directions shown by refinement; `Wire` would then be the implementation
of one such exchange for every fragment that `ReadBatch` makes.
