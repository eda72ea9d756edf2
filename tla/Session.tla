------------------------------- MODULE Session -------------------------------
(***************************************************************************)
(* The session core of gos7 (src/client.go): one Client shared by          *)
(* concurrent callers.  A caller runs Connect ("cotp" then "setup" phase)  *)
(* or a data operation ("job" phase: Read, Write, ReadArea or WriteArea,   *)
(* seen as a run of request/response exchanges); Close runs beside them.   *)
(*                                                                         *)
(* A step is what the code does between two points where another goroutine *)
(* can be seen: one critical section of client.mu, one receive or send on  *)
(* the gate, one look at a context, one socket call.  What a response says *)
(* is a free choice of the peer.                                           *)
(***************************************************************************)
EXTENDS Naturals

CONSTANTS
    Callers,        \* goroutines that use the client
    NoCaller,       \* the gate channel is empty
    CtxErrors,      \* how a caller's own context may end
    Faults,         \* how the network and the peer may misbehave
    MaxSockets,     \* bound: TCP connections ever opened
    MaxExchanges,   \* bound: exchanges of one data operation
    MaxReference    \* largest PDU reference (65535 in the code)

ASSUME ConstantsAssumption ==
    /\ NoCaller \notin Callers
    /\ CtxErrors \subseteq {"canceled", "expired"}
    /\ Faults \subseteq {"refused", "options", "reset", "malformed", "rejects"}
    /\ MaxSockets \in Nat \ {0}
    /\ MaxExchanges \in Nat \ {0}
    /\ MaxReference \in Nat \ {0}

Sockets == 1..MaxSockets
NoSocket == 0

States == {"new", "connecting", "ready", "disconnected", "broken",
           "closing", "closed"}
Kinds == {"timeout", "canceled", "transport", "protocol", "plc", "limit",
          "notConnected", "closed"}
NoKind == "none"
Results == Kinds \cup {"ok", NoKind}

\* Program points at which a caller does not own the gate.
OutsidePoints == {"idle", "enter", "acquire", "return"}
GatePoints == {"recheck", "connectState", "connectCtx", "connectMark", "dial",
               "publish", "arm", "send", "recv", "limits", "commit",
               "ready", "next", "begin", "parse",
               "drop", "dropClose", "disarm", "disarmWait", "release"}
ClassifyPoints == {"classify", "classifyCtx"}
Points == OutsidePoints \cup GatePoints \cup ClassifyPoints

VARIABLES
    \* the Client struct
    state, conn, limitsValid, generation, reference, lastFailure,
    lifeDone,    \* client.lifeCtx is cancelled
    gate,        \* the caller whose token is in client.gate
    \* TCP connections
    sock, deadline, wire,
    \* each caller's call in progress (or its last one)
    pc, phase, left, base, inner, watch, armed, local, held, res, then,
    \* what a caller observed, for the properties
    late, cut,
    \* Close
    closer, closing

clientVars == <<state, conn, limitsValid, generation, reference, lastFailure>>
sockVars == <<sock, deadline, wire>>
ctxVars == <<base, inner, watch, armed>>
callVars == <<phase, left, base, inner, watch, armed, local, held, res, then,
              late, cut>>
closeVars == <<closer, closing>>
vars == <<clientVars, lifeDone, gate, sockVars, pc, callVars, closeVars>>

ClientType ==
    /\ state \in States
    /\ conn \in Sockets \cup {NoSocket}
    /\ limitsValid \in BOOLEAN
    /\ generation \in Nat
    /\ reference \in 0..MaxReference
    /\ lastFailure \in Results
    /\ lifeDone \in BOOLEAN
    /\ gate \in Callers \cup {NoCaller}

SocketType ==
    /\ sock \in [Sockets -> {"unused", "open", "closed"}]
    /\ deadline \in [Sockets -> {"none", "armed", "now"}]
    /\ wire \in [Sockets -> {"idle", "asked", "answered"}]

CallType ==
    /\ pc \in [Callers -> Points]
    /\ phase \in [Callers -> {"cotp", "setup", "job"}]
    /\ left \in [Callers -> 0..MaxExchanges]
    /\ local \in [Callers -> Sockets \cup {NoSocket}]
    /\ held \in [Callers -> Sockets \cup {NoSocket}]
    /\ res \in [Callers -> Results]
    /\ then \in [Callers -> {"return", "release", "drop"}]
    /\ late \in [Callers -> BOOLEAN]
    /\ cut \in [Callers -> {"no", "arm", "io"}]

ContextType ==
    /\ base \in [Callers -> {"live", "canceled", "expired"}]
    /\ inner \in [Callers -> {"none", "live", "expired"}]
    /\ watch \in [Callers -> {"off", "on", "stopping", "stopped"}]
    /\ armed \in [Callers -> Sockets \cup {NoSocket}]

CloseType ==
    /\ closer \in {"idle", "cancel", "closeSocket", "finish", "done"}
    /\ closing \in Sockets \cup {NoSocket}

\* Every variable keeps the type that the Client structure and the locals of its
\* methods have; the PDU reference stays in its 16 bits.
TypeOK == ClientType /\ SocketType /\ CallType /\ ContextType /\ CloseType

\* New: a validated configuration, nothing opened.
Init ==
    /\ state = "new" /\ conn = NoSocket /\ limitsValid = FALSE
    /\ generation = 0 /\ reference = 0 /\ lastFailure = NoKind
    /\ lifeDone = FALSE /\ gate = NoCaller
    /\ sock = [s \in Sockets |-> "unused"]
    /\ deadline = [s \in Sockets |-> "none"]
    /\ wire = [s \in Sockets |-> "idle"]
    /\ pc = [c \in Callers |-> "idle"]
    /\ phase = [c \in Callers |-> "job"]
    /\ left = [c \in Callers |-> 0]
    /\ base = [c \in Callers |-> "canceled"]
    /\ inner = [c \in Callers |-> "none"]
    /\ watch = [c \in Callers |-> "off"]
    /\ armed = [c \in Callers |-> NoSocket]
    /\ local = [c \in Callers |-> NoSocket]
    /\ held = [c \in Callers |-> NoSocket]
    /\ res = [c \in Callers |-> NoKind]
    /\ then = [c \in Callers |-> "return"]
    /\ late = [c \in Callers |-> FALSE]
    /\ cut = [c \in Callers |-> "no"]
    /\ closer = "idle" /\ closing = NoSocket

-----------------------------------------------------------------------------
\* Helpers

Shut == state \in {"closing", "closed"}
Connecting(c) == phase[c] \in {"cotp", "setup"}
Usable == state = "ready" /\ conn # NoSocket /\ limitsValid

\* The Err() of a call's innermost context: base is the caller's context
\* joined with the client's lifetime, inner its child with ConnectTimeout or
\* ExchangeTimeout.  The first reason to end is the one that stays.
Err(c) == IF inner[c] = "expired" THEN "expired" ELSE base[c]

Goto(c, l) == pc' = [pc EXCEPT ![c] = l]
Result(c, k) == res' = [res EXCEPT ![c] = k]

\* Enter classifyContextError with the kind that the cause alone suggests,
\* and go on at `next`.
Classify(c, fallback, next) ==
    /\ Goto(c, "classify")
    /\ Result(c, fallback)
    /\ then' = [then EXCEPT ![c] = next]

\* connection.Close(): neither deadline nor peer matter any more.
CloseSockets(S) ==
    /\ sock' = [s \in Sockets |-> IF s \in S THEN "closed" ELSE sock[s]]
    /\ deadline' = [s \in Sockets |-> IF s \in S THEN "none" ELSE deadline[s]]
    /\ wire' = [s \in Sockets |-> IF s \in S THEN "idle" ELSE wire[s]]

\* stateError
StateError == IF Shut THEN "closed" ELSE "notConnected"

-----------------------------------------------------------------------------
\* Starting a call, queueing on the gate, leaving

\* The caller's context may be over before the first look at it
\* (CallerCtxDone).
Start(c, ph) ==
    /\ pc[c] = "idle"
    /\ Goto(c, IF ph = "job" THEN "enter" ELSE "acquire")
    /\ phase' = [phase EXCEPT ![c] = ph]
    /\ base' = [base EXCEPT ![c] = "live"]
    /\ late' = [late EXCEPT ![c] = closer = "done"]
    /\ UNCHANGED <<clientVars, lifeDone, gate, sockVars, left, inner, watch, armed,
                   local, held, res, then, cut, closeVars>>

StartConnect(c) == Start(c, "cotp")
StartData(c) == Start(c, "job")

\* Read, Write, ReadArea and WriteArea look at the caller's context before
\* they validate and queue.  The arguments are valid here: a call that
\* prepareReads or prepareWrites refuses returns before it touches the client
\* (ReadBatch has that path).
EnterData(c) ==
    /\ pc[c] = "enter"
    /\ IF base[c] # "live"
         THEN Classify(c, "transport", "return")
         ELSE Goto(c, "acquire") /\ UNCHANGED <<res, then>>
    /\ UNCHANGED <<clientVars, lifeDone, gate, sockVars, phase, left, ctxVars,
                   local, held, late, cut, closeVars>>

\* acquire: the three ready cases of its select, in any order.
QueueCanceled(c) ==
    /\ pc[c] = "acquire" /\ base[c] # "live"
    /\ Classify(c, "transport", "return")
    /\ UNCHANGED <<clientVars, lifeDone, gate, sockVars, phase, left, ctxVars,
                   local, held, late, cut, closeVars>>

QueueClosed(c) ==
    /\ pc[c] = "acquire" /\ lifeDone
    /\ Goto(c, "return") /\ Result(c, "closed")
    /\ UNCHANGED <<clientVars, lifeDone, gate, sockVars, phase, left, ctxVars,
                   local, held, then, late, cut, closeVars>>

TakeGateShared(c) ==         \* mutant: a gate with room for two
    /\ pc[c] = "acquire"
    /\ gate' = c
    /\ Goto(c, "recheck")
    /\ UNCHANGED <<clientVars, lifeDone, sockVars, callVars, closeVars>>

TakeGate(c) ==
    /\ pc[c] = "acquire" /\ gate = NoCaller
    /\ gate' = c
    /\ Goto(c, "recheck")
    /\ UNCHANGED <<clientVars, lifeDone, sockVars, callVars, closeVars>>

\* The second look at lifeCtx once the token is in the channel.  A data
\* operation has at most MaxExchanges exchanges; Parse may end it earlier.
Recheck(c) ==
    /\ pc[c] = "recheck"
    /\ IF lifeDone
         THEN /\ gate' = NoCaller
              /\ Goto(c, "return") /\ Result(c, "closed")
              /\ UNCHANGED left
         ELSE /\ Goto(c, IF Connecting(c) THEN "connectState" ELSE "ready")
              /\ left' = [left EXCEPT ![c] = IF Connecting(c) THEN 0 ELSE MaxExchanges]
              /\ UNCHANGED <<gate, res>>
    /\ UNCHANGED <<clientVars, lifeDone, sockVars, phase, ctxVars, local, held,
                    then, late, cut, closeVars>>

ReleaseForgotten(c) ==       \* mutant: the token stays in the gate
    /\ pc[c] = "release" /\ Goto(c, "return")
    /\ UNCHANGED <<clientVars, lifeDone, gate, sockVars, callVars, closeVars>>

\* The deferred cleanup (which cancels the operation context) and release.
Release(c) ==
    /\ pc[c] = "release"
    /\ gate' = NoCaller
    /\ base' = [base EXCEPT ![c] = "canceled"]
    /\ inner' = [inner EXCEPT ![c] = "none"]
    /\ phase' = [phase EXCEPT ![c] = "job"]
    /\ left' = [left EXCEPT ![c] = 0]
    /\ local' = [local EXCEPT ![c] = NoSocket]
    /\ Goto(c, "return")
    /\ UNCHANGED <<clientVars, lifeDone, sockVars, watch, armed, held, res, then,
                   late, cut, closeVars>>

\* The call returns res[c]; its local variables are gone.
Return(c) ==
    /\ pc[c] = "return"
    /\ Goto(c, "idle") /\ Result(c, NoKind)
    /\ phase' = [phase EXCEPT ![c] = "job"]
    /\ base' = [base EXCEPT ![c] = "canceled"]
    /\ late' = [late EXCEPT ![c] = FALSE]
    /\ cut' = [cut EXCEPT ![c] = "no"]
    /\ UNCHANGED <<clientVars, lifeDone, gate, sockVars, left, inner, watch,
                   armed, local, held, then, closeVars>>

-----------------------------------------------------------------------------
\* classifyContextError reads the life context first and the call's context
\* after it; the two looks are not atomic.

ClassifyLifeSkipped(c) ==    \* mutant: the call's context is asked first
    /\ pc[c] = "classify" /\ Goto(c, "classifyCtx")
    /\ UNCHANGED <<clientVars, lifeDone, gate, sockVars, callVars, closeVars>>

ClassifyLife(c) ==
    /\ pc[c] = "classify"
    /\ IF lifeDone \/ state = "closed"
         THEN /\ Result(c, "closed") /\ Goto(c, then[c])
              /\ then' = [then EXCEPT ![c] = "return"]
         ELSE Goto(c, "classifyCtx") /\ UNCHANGED <<res, then>>
    /\ UNCHANGED <<clientVars, lifeDone, gate, sockVars, phase, left, ctxVars,
                   local, held, late, cut, closeVars>>

ClassifyCtx(c) ==
    /\ pc[c] = "classifyCtx"
    /\ Result(c, CASE Err(c) = "expired" -> "timeout"
                   [] Err(c) = "canceled" -> "canceled"
                   [] OTHER -> res[c])
    /\ Goto(c, then[c])
    /\ then' = [then EXCEPT ![c] = "return"]
    /\ UNCHANGED <<clientVars, lifeDone, gate, sockVars, phase, left, ctxVars,
                   local, held, late, cut, closeVars>>

-----------------------------------------------------------------------------
\* Connect

ConnectState(c) ==
    /\ pc[c] = "connectState"
    /\ \/ Shut /\ Goto(c, "release") /\ Result(c, "closed")
       \/ state = "ready" /\ Goto(c, "release") /\ Result(c, "ok")
       \/ ~Shut /\ state # "ready" /\ Goto(c, "connectCtx") /\ UNCHANGED res
    /\ UNCHANGED <<clientVars, lifeDone, gate, sockVars, phase, left, ctxVars,
                   local, held, then, late, cut, closeVars>>

\* operationContext with ConnectTimeout, then its first Err().
ConnectCtx(c) ==
    /\ pc[c] = "connectCtx"
    /\ inner' = [inner EXCEPT ![c] = "live"]
    /\ IF base[c] # "live"
         THEN Classify(c, "transport", "release")
         ELSE Goto(c, "connectMark") /\ UNCHANGED <<res, then>>
    /\ UNCHANGED <<clientVars, lifeDone, gate, sockVars, phase, left, base,
                   watch, armed, local, held, late, cut, closeVars>>

ConnectMark(c) ==
    /\ pc[c] = "connectMark"
    /\ IF Shut
         THEN Goto(c, "release") /\ Result(c, "closed") /\ UNCHANGED state
         ELSE Goto(c, "dial") /\ state' = "connecting" /\ UNCHANGED res
    /\ UNCHANGED <<conn, limitsValid, generation, reference, lastFailure,
                   lifeDone, gate, sockVars, phase, left, ctxVars, local, held,
                   then, late, cut, closeVars>>

Unused(s) == sock[s] = "unused" /\ \A r \in 1..(s - 1) : sock[r] # "unused"

DialOpens(c) ==
    /\ pc[c] = "dial"
    /\ \E s \in Sockets :
         /\ Unused(s)
         /\ sock' = [sock EXCEPT ![s] = "open"]
         /\ local' = [local EXCEPT ![c] = s]
    /\ Goto(c, "publish")
    /\ UNCHANGED <<clientVars, lifeDone, gate, deadline, wire, phase, left,
                   ctxVars, held, res, then, late, cut, closeVars>>

\* TCP_NODELAY or keep-alive is refused: the new socket is closed unpublished.
DialOptionFails(c) ==
    /\ pc[c] = "dial" /\ "options" \in Faults
    /\ \E s \in Sockets :
         Unused(s) /\ sock' = [sock EXCEPT ![s] = "closed"]
    /\ local' = [local EXCEPT ![c] = NoSocket]
    /\ Goto(c, "drop") /\ Result(c, "transport")
    /\ UNCHANGED <<clientVars, lifeDone, gate, deadline, wire, phase, left,
                   ctxVars, held, then, late, cut, closeVars>>

\* DialContext fails by itself, or because its context is over.
DialFails(c) ==
    /\ pc[c] = "dial" /\ (Err(c) # "live" \/ "refused" \in Faults)
    /\ local' = [local EXCEPT ![c] = NoSocket]
    /\ \E k \in {"transport", "timeout"} : Classify(c, k, "drop")
    /\ UNCHANGED <<clientVars, lifeDone, gate, sockVars, phase, left, ctxVars,
                   held, late, cut, closeVars>>

PublishLeaks(c) ==           \* mutant: the early return forgets the socket
    /\ pc[c] = "publish"
    /\ IF Shut THEN Goto(c, "release") /\ UNCHANGED conn
               ELSE Goto(c, "arm") /\ conn' = local[c]
    /\ UNCHANGED <<state, limitsValid, generation, reference, lastFailure,
                   lifeDone, gate, sockVars, callVars, closeVars>>

Publish(c) ==
    /\ pc[c] = "publish"
    /\ IF Shut
         THEN /\ CloseSockets({local[c]})
              /\ Goto(c, "release") /\ Result(c, "closed")
              /\ UNCHANGED conn
         ELSE /\ conn' = local[c]
              /\ Goto(c, "arm")
              /\ UNCHANGED <<sockVars, res>>
    /\ UNCHANGED <<state, limitsValid, generation, reference, lastFailure,
                   lifeDone, gate, phase, left, ctxVars, local,
                   held, then, late, cut, closeVars>>

\* The Setup response is decoded and accepted: the last Err(), then the check
\* of the negotiated limits.
ConnectLimits(c) ==
    /\ pc[c] = "limits"
    /\ \/ Err(c) # "live" /\ Classify(c, "transport", "drop")
       \/ /\ Err(c) = "live"
          /\ \/ Goto(c, "commit") /\ UNCHANGED <<res, then>>
             \/ /\ "malformed" \in Faults
                /\ Goto(c, "drop") /\ Result(c, "protocol") /\ UNCHANGED then
    /\ UNCHANGED <<clientVars, lifeDone, gate, sockVars, phase, left, ctxVars,
                   local, held, late, cut, closeVars>>

\* The new session is stored.
Establish(c) ==
    /\ state' = "ready"
    /\ reference' = 1
    /\ generation' = generation + 1
    /\ limitsValid' = TRUE
    /\ lastFailure' = NoKind
    /\ Result(c, "ok")
    /\ UNCHANGED <<conn, sockVars>>

CommitUnchecked(c) ==        \* mutant: Close is not looked for again
    /\ pc[c] = "commit"
    /\ Establish(c)
    /\ Goto(c, "disarm")
    /\ UNCHANGED <<lifeDone, gate, phase, left, ctxVars, local, held, then, late,
                   cut, closeVars>>

Commit(c) ==
    /\ pc[c] = "commit"
    /\ \/ Shut /\ CloseSockets({local[c]}) /\ Result(c, "closed")
               /\ UNCHANGED clientVars
       \/ ~Shut /\ Establish(c)
    /\ Goto(c, "disarm")
    /\ UNCHANGED <<lifeDone, gate, phase, left, ctxVars, local, held, then, late,
                   cut, closeVars>>

-----------------------------------------------------------------------------
\* Socket I/O, shared by Connect (both phases) and exchange

\* armConnection: SetDeadline, then the watcher goroutine.  A socket that
\* Close has closed refuses the deadline, and the error is not classified.
Arm(c) ==
    /\ pc[c] = "arm"
    /\ IF sock[local[c]] = "open"
         THEN /\ deadline' = [deadline EXCEPT ![local[c]] = "armed"]
              /\ watch' = [watch EXCEPT ![c] = "on"]
              /\ armed' = [armed EXCEPT ![c] = local[c]]
              /\ Goto(c, "send")
              /\ UNCHANGED <<res, cut>>
         ELSE /\ Goto(c, "drop") /\ Result(c, "transport")
              /\ cut' = [cut EXCEPT ![c] = "arm"]
              /\ UNCHANGED <<deadline, watch, armed>>
    /\ UNCHANGED <<clientVars, lifeDone, gate, sock, wire, phase, left, base,
                   inner, local, held, then, late, closeVars>>

\* WriteFull accepts the whole frame.
Send(c) ==
    /\ pc[c] = "send"
    /\ sock[local[c]] = "open" /\ deadline[local[c]] # "now"
    /\ wire' = [wire EXCEPT ![local[c]] = "asked"]
    /\ Goto(c, "recv")
    /\ UNCHANGED <<clientVars, lifeDone, gate, sock, deadline, callVars,
                   closeVars>>

InIO(c) == pc[c] \in {"send", "recv"}

\* A blocked call returns with an error because ...
IOFails(c, fallback, why) ==
    /\ cut' = [cut EXCEPT ![c] = why]
    /\ \/ UNCHANGED wire
       \/ pc[c] = "send" /\ wire' = [wire EXCEPT ![local[c]] = "asked"]
    /\ Classify(c, fallback, "drop")
    /\ UNCHANGED <<clientVars, lifeDone, gate, sock, deadline, phase, left,
                   ctxVars, local, held, late, closeVars>>

\* ... Close closed the socket under it,
IOClosed(c) ==
    /\ InIO(c) /\ sock[local[c]] = "closed"
    /\ IOFails(c, "transport", "io")

\* ... the watcher moved the deadline to the present,
IOInterrupted(c) ==
    /\ InIO(c) /\ sock[local[c]] = "open" /\ deadline[local[c]] = "now"
    /\ IOFails(c, "timeout", "no")

IOTimesOutKeeps(c) ==        \* mutant: a timeout leaves the session in use
    /\ InIO(c) /\ sock[local[c]] = "open" /\ deadline[local[c]] = "armed"
    /\ Goto(c, "disarm") /\ Result(c, "timeout")
    /\ UNCHANGED <<clientVars, lifeDone, gate, sockVars, phase, left, ctxVars,
                   local, held, then, late, cut, closeVars>>

\* ... the context's own deadline passed,
IOTimesOut(c) ==
    /\ InIO(c) /\ sock[local[c]] = "open" /\ deadline[local[c]] = "armed"
    /\ IOFails(c, "timeout", "no")

\* ... or the peer reset the connection, or sent no TPKT frame.
IOPeerFails(c) ==
    /\ "reset" \in Faults
    /\ InIO(c) /\ sock[local[c]] = "open"
    /\ IOFails(c, "transport", "no")

\* ReadFrame returned one frame.  In the handshake it is parsed at once; in a
\* data exchange only its COTP framing and size are looked at here.
Recv(c) ==
    /\ pc[c] = "recv"
    /\ sock[local[c]] = "open" /\ deadline[local[c]] # "now"
    /\ wire[local[c]] = "answered"
    /\ wire' = [wire EXCEPT ![local[c]] = "idle"]
    /\ \/ /\ phase[c] = "cotp"
          /\ phase' = [phase EXCEPT ![c] = "setup"]
          /\ Goto(c, "send") /\ UNCHANGED res
       \/ /\ phase[c] = "setup"
          /\ Goto(c, "limits") /\ UNCHANGED <<res, phase>>
       \/ /\ phase[c] = "job"
          /\ Goto(c, "disarm") /\ UNCHANGED <<res, phase>>
       \/ /\ "malformed" \in Faults
          /\ Goto(c, "drop") /\ Result(c, "protocol") /\ UNCHANGED phase
       \/ /\ phase[c] = "setup" /\ "rejects" \in Faults
          /\ Goto(c, "drop") /\ Result(c, "plc") /\ UNCHANGED phase
    /\ UNCHANGED <<clientVars, lifeDone, gate, sock, deadline, left, ctxVars,
                   local, held, then, late, cut, closeVars>>

RecordAlways(c, target) ==   \* mutant: a late failure undoes Close
    state' = target /\ lastFailure' = res[c] /\ limitsValid' = FALSE

RecordOnly(c, target) ==     \* mutant: the limits stay valid
    /\ UNCHANGED limitsValid
    /\ IF Shut THEN UNCHANGED <<state, lastFailure>>
               ELSE state' = target /\ lastFailure' = res[c]

RecordFailure(c, target) ==
    /\ limitsValid' = FALSE
    /\ IF Shut THEN UNCHANGED <<state, lastFailure>>
               ELSE state' = target /\ lastFailure' = res[c]

\* The critical section of failConnect and breakSession: take the connection
\* out of the client, and record the failure unless Close got there first.
DropSession(c, target) ==
    /\ pc[c] = "drop"
    /\ held' = [held EXCEPT ![c] = conn]
    /\ conn' = NoSocket
    /\ RecordFailure(c, target)
    /\ Goto(c, "dropClose")
    /\ UNCHANGED <<generation, reference, lifeDone, gate, sockVars, phase, left,
                   ctxVars, local, res, then, late, cut, closeVars>>

FailConnect(c) == Connecting(c) /\ DropSession(c, "disconnected")
BreakSession(c) == phase[c] = "job" /\ DropSession(c, "broken")

\* connection.Close() of both, outside the lock; the deferred stopDeadline
\* runs next if the connection was armed.
DropClose(c) ==
    /\ pc[c] = "dropClose"
    /\ CloseSockets({held[c]})
    /\ held' = [held EXCEPT ![c] = NoSocket]
    /\ Goto(c, IF watch[c] = "off" THEN "release" ELSE "disarm")
    /\ UNCHANGED <<clientVars, lifeDone, gate, phase, left,
                   ctxVars, local, res, then, late, cut, closeVars>>

\* The stop function of armConnection closes `stop` ...
Disarm(c) ==
    /\ pc[c] = "disarm"
    /\ watch' = [watch EXCEPT ![c] = IF @ = "on" THEN "stopping" ELSE @]
    /\ Goto(c, "disarmWait")
    /\ UNCHANGED <<clientVars, lifeDone, gate, sockVars, phase, left, base,
                   inner, armed, local, held, res, then, late, cut, closeVars>>

DisarmWaitSkipped(c) ==      \* mutant: the watcher is not waited for
    /\ pc[c] = "disarmWait"
    /\ deadline' = [deadline EXCEPT ![local[c]] = "none"]
    /\ inner' = [inner EXCEPT ![c] = "none"]
    /\ Goto(c, IF phase[c] = "job" /\ res[c] = NoKind THEN "parse" ELSE "release")
    /\ UNCHANGED <<clientVars, lifeDone, gate, sock, wire, phase, left, base, watch,
                   armed, local, held, res, then, late, cut, closeVars>>

\* ... and clears the deadline only once the watcher has gone.  A data
\* exchange then cancels its own context and the response is parsed.
DisarmWait(c) ==
    /\ pc[c] = "disarmWait"
    /\ watch[c] = "stopped"
    /\ watch' = [watch EXCEPT ![c] = "off"]
    /\ armed' = [armed EXCEPT ![c] = NoSocket]
    /\ deadline' = [deadline EXCEPT ![local[c]] = "none"]
    /\ inner' = [inner EXCEPT ![c] = "none"]
    /\ Goto(c, IF phase[c] = "job" /\ res[c] = NoKind THEN "parse" ELSE "release")
    /\ UNCHANGED <<clientVars, lifeDone, gate, sock, wire, phase, left, base,
                   local, held, res, then, late, cut, closeVars>>

-----------------------------------------------------------------------------
\* Data operations

\* readyPDU and the local planning checks (preflight, fragment limits).
Ready(c) ==
    /\ pc[c] = "ready"
    /\ \/ ~Usable /\ Goto(c, "release") /\ Result(c, StateError)
       \/ Usable /\ Goto(c, "next") /\ UNCHANGED res
       \/ Usable /\ Goto(c, "release") /\ Result(c, "limit")
    /\ UNCHANGED <<clientVars, lifeDone, gate, sockVars, phase, left, ctxVars,
                   local, held, then, late, cut, closeVars>>

NextReferenceWide(r) == r + 1      \* mutant: no wrap at 16 bits

\* nextReference: 1, 2, ..., MaxReference, 1, ... (zero is skipped).
NextReference(r) ==
    LET n == (r + 1) % (MaxReference + 1) IN IF n = 0 THEN 1 ELSE n

\* The head of the batch loop: ctx.Err(), then nextReference.
NextBatch(c) ==
    /\ pc[c] = "next" /\ left[c] > 0
    /\ IF base[c] # "live"
         THEN /\ Classify(c, "transport", "release")
              /\ UNCHANGED <<reference, left>>
         ELSE /\ reference' = NextReference(reference)
              /\ left' = [left EXCEPT ![c] = @ - 1]
              /\ Goto(c, "begin")
              /\ UNCHANGED <<res, then>>
    /\ UNCHANGED <<state, conn, limitsValid, generation, lastFailure, lifeDone,
                   gate, sockVars, phase, ctxVars, local, held, late, cut,
                   closeVars>>

\* exchange up to armConnection: ctx.Err(), the exchange context, and the
\* snapshot of the session under the read lock.
Begin(c) ==
    /\ pc[c] = "begin"
    /\ \/ /\ base[c] # "live"
          /\ Classify(c, "transport", "release")
          /\ UNCHANGED <<inner, local>>
       \/ /\ base[c] = "live" /\ Usable
          /\ inner' = [inner EXCEPT ![c] = "live"]
          /\ local' = [local EXCEPT ![c] = conn]
          /\ Goto(c, "arm")
          /\ UNCHANGED <<res, then>>
       \/ /\ base[c] = "live" /\ ~Usable
          /\ Goto(c, "release") /\ Result(c, StateError)
          /\ UNCHANGED <<inner, local, then>>
    /\ UNCHANGED <<clientVars, lifeDone, gate, sockVars, phase, left, base,
                   watch, armed, held, late, cut, closeVars>>

\* What readLocked or writeLocked makes of the response: undecodable (the
\* session is broken), refused by the PLC, or good, with or without more to
\* ask.  WriteArea calls writeLocked, hence readyPDU, once per chunk.
Parse(c) ==
    /\ pc[c] = "parse"
    /\ \/ "malformed" \in Faults /\ Goto(c, "drop") /\ Result(c, "protocol")
       \/ "rejects" \in Faults /\ Goto(c, "release") /\ Result(c, "plc")
       \/ Goto(c, "release") /\ Result(c, "ok")
       \/ /\ left[c] > 0
          /\ \E l \in {"next", "ready"} : Goto(c, l)
          /\ UNCHANGED res
    /\ UNCHANGED <<clientVars, lifeDone, gate, sockVars, phase, left, ctxVars,
                   local, held, then, late, cut, closeVars>>

-----------------------------------------------------------------------------
\* Goroutines and events beside the callers

\* The caller cancels its context, or the context's deadline passes.
CallerCtxDone(c) ==
    /\ pc[c] \notin {"idle", "return"} /\ base[c] = "live"
    /\ \E e \in CtxErrors : base' = [base EXCEPT ![c] = e]
    /\ UNCHANGED <<clientVars, lifeDone, gate, sockVars, pc, phase, left, inner,
                   watch, armed, local, held, res, then, late, cut, closeVars>>

\* The goroutine of contextWithShutdown passes on the client's end of life.
ShutdownWatcher(c) ==
    /\ lifeDone /\ base[c] = "live" /\ gate = c
    /\ pc[c] \notin {"recheck", "connectState"}
    /\ base' = [base EXCEPT ![c] = "canceled"]
    /\ UNCHANGED <<clientVars, lifeDone, gate, sockVars, pc, phase, left, inner,
                   watch, armed, local, held, res, then, late, cut, closeVars>>

\* ConnectTimeout or ExchangeTimeout.
Timeout(c) ==
    /\ inner[c] = "live" /\ base[c] = "live"
    /\ inner' = [inner EXCEPT ![c] = "expired"]
    /\ UNCHANGED <<clientVars, lifeDone, gate, sockVars, pc, phase, left, base,
                   watch, armed, local, held, res, then, late, cut, closeVars>>

\* The goroutine of armConnection: its select may take ctx.Done() even when
\* `stop` is closed as well.
WatcherFires(c) ==
    /\ watch[c] \in {"on", "stopping"} /\ Err(c) # "live"
    /\ watch' = [watch EXCEPT ![c] = "stopped"]
    /\ deadline' = [s \in Sockets |->
         IF s = armed[c] /\ sock[s] = "open" THEN "now" ELSE deadline[s]]
    /\ UNCHANGED <<clientVars, lifeDone, gate, sock, wire, pc, phase, left, base,
                   inner, armed, local, held, res, then, late, cut, closeVars>>

WatcherStops(c) ==
    /\ watch[c] = "stopping"
    /\ watch' = [watch EXCEPT ![c] = "stopped"]
    /\ UNCHANGED <<clientVars, lifeDone, gate, sockVars, pc, phase, left, base,
                   inner, armed, local, held, res, then, late, cut, closeVars>>

\* The peer answers what it was sent, when it likes or never.
PeerAnswers(s) ==
    /\ sock[s] = "open" /\ wire[s] = "asked"
    /\ wire' = [wire EXCEPT ![s] = "answered"]
    /\ UNCHANGED <<clientVars, lifeDone, gate, sock, deadline, pc, callVars,
                   closeVars>>

\* Close: closeOnce lets one call run these four steps; later calls wait for
\* them and change nothing.
CloseMark ==
    /\ closer = "idle"
    /\ closer' = "cancel"
    /\ state' = "closing"
    /\ closing' = conn
    /\ conn' = NoSocket
    /\ limitsValid' = FALSE
    /\ UNCHANGED <<generation, reference, lastFailure, lifeDone, gate, sockVars,
                   pc, callVars>>

CloseCancelForgotten ==      \* mutant: lifeCtx is never cancelled
    /\ closer = "cancel"
    /\ closer' = "closeSocket"
    /\ UNCHANGED <<clientVars, lifeDone, gate, sockVars, pc, callVars, closing>>

CloseCancel ==
    /\ closer = "cancel"
    /\ closer' = "closeSocket"
    /\ lifeDone' = TRUE
    /\ UNCHANGED <<clientVars, gate, sockVars, pc, callVars, closing>>

CloseSocketEarly ==          \* mutant: the socket is closed before the cancel
    /\ closer \in {"cancel", "closeSocket"}
    /\ closer' = IF closer = "cancel" THEN "cancel" ELSE "finish"
    /\ CloseSockets({closing})
    /\ closing' = NoSocket
    /\ UNCHANGED <<clientVars, lifeDone, gate, pc, callVars>>

CloseSocket ==
    /\ closer = "closeSocket"
    /\ closer' = "finish"
    /\ CloseSockets({closing})
    /\ closing' = NoSocket
    /\ UNCHANGED <<clientVars, lifeDone, gate, pc, callVars>>

CloseFinish ==
    /\ closer = "finish"
    /\ closer' = "done"
    /\ state' = "closed"
    /\ UNCHANGED <<conn, limitsValid, generation, reference, lastFailure,
                   lifeDone, gate, sockVars, pc, callVars, closing>>

-----------------------------------------------------------------------------
Queue(c) == EnterData(c) \/ QueueCanceled(c) \/ QueueClosed(c) \/ TakeGate(c)
              \/ Recheck(c) \/ Release(c) \/ Return(c) \/ ClassifyLife(c)
              \/ ClassifyCtx(c)
Connect(c) == ConnectState(c) \/ ConnectCtx(c) \/ ConnectMark(c) \/ DialOpens(c)
                \/ DialOptionFails(c) \/ DialFails(c) \/ Publish(c)
                \/ ConnectLimits(c) \/ Commit(c) \/ FailConnect(c)
Data(c) == Ready(c) \/ NextBatch(c) \/ Begin(c) \/ Parse(c) \/ BreakSession(c)
SocketIO(c) == Arm(c) \/ Send(c) \/ Recv(c) \/ IOClosed(c) \/ IOInterrupted(c)
                 \/ IOTimesOut(c) \/ IOPeerFails(c)
                 \/ DropClose(c) \/ Disarm(c) \/ DisarmWait(c)
Watchers(c) == ShutdownWatcher(c) \/ WatcherFires(c) \/ WatcherStops(c)
Close == CloseMark \/ CloseCancel \/ CloseSocket \/ CloseFinish

Next ==
    \/ \E c \in Callers :
         \/ StartConnect(c) \/ StartData(c) \/ Queue(c) \/ Connect(c) \/ Data(c)
         \/ SocketIO(c) \/ Watchers(c) \/ CallerCtxDone(c) \/ Timeout(c)
    \/ \E s \in Sockets : PeerAnswers(s)
    \/ Close

Spec == Init /\ [][Next]_vars

-----------------------------------------------------------------------------
\* Safety

\* State Ready means what Diagnostics and Limits report: the client stores an
\* open socket, valid limits and a non-zero reference.  In every other state
\* the limits are invalid, and a socket is stored only while connecting.
ReadyIsUsable ==
    /\ state = "ready" =>
         /\ conn # NoSocket /\ limitsValid
         /\ generation > 0 /\ reference # 0
         /\ lastFailure = NoKind
    /\ state # "ready" => ~limitsValid
    /\ conn # NoSocket =>
         state \in {"connecting", "ready"} /\ sock[conn] = "open"

\* Who is bound to publish or to close socket s.
Owns(c, s) ==
    \/ pc[c] = "publish" /\ local[c] = s
    \/ pc[c] = "dropClose" /\ held[c] = s

\* No interleaving of Connect, a failing exchange and Close loses a socket:
\* one that is open is stored in the client, or is about to be closed by Close,
\* or is in the hands of the one caller that is about to publish or close it.
NoSocketLeak ==
    \A s \in Sockets : sock[s] = "open" =>
        \/ conn = s /\ closing # s /\ \A c \in Callers : ~Owns(c, s)
        \/ conn # s /\ closing = s /\ \A c \in Callers : ~Owns(c, s)
        \/ /\ conn # s /\ closing # s
           /\ \E c \in Callers : Owns(c, s) /\ \A d \in Callers : Owns(d, s) => d = c

\* breakSession and failConnect close whatever socket the client stores at that
\* time; it is never a session other than the one the call was using.
DropsOwnSocket ==
    \A c \in Callers :
        pc[c] = "dropClose" => held[c] \in {NoSocket, local[c]}

\* When no call is in progress a Ready session is aligned: no request is
\* unanswered, no late response is buffered for the next call to misread, and
\* no deadline of an earlier call is left on the socket.
AlignedWhenIdle ==
    state = "ready" /\ gate = NoCaller =>
        wire[conn] = "idle" /\ deadline[conn] = "none"

\* A deadline watcher never outlives its call: if the socket of a call in I/O
\* has been interrupted, it is by that call's own context.
NoStrayInterrupt ==
    \A c \in Callers :
        /\ InIO(c)
        /\ sock[local[c]] = "open" /\ deadline[local[c]] = "now"
        => Err(c) # "live"

\* A call with valid arguments that starts after Close has returned reports
\* closed, whatever its context and the order in which acquire's select finds
\* its cases ready.
ClosedForGood ==
    \A c \in Callers :
        pc[c] = "return" /\ late[c] => res[c] = "closed"

\* A call whose blocked read or write is ended by Close reports closed.
CutIOReportsClosed ==
    \A c \in Callers :
        pc[c] = "return" /\ cut[c] = "io" => res[c] = "closed"

\* A call that finds its socket closed by Close reports closed
\* (TestCloseInterruptsInFlightIO), also when it finds out in armConnection.
CutReportsClosed ==
    \A c \in Callers :
        pc[c] = "return" /\ cut[c] # "no" => res[c] = "closed"

SessionFailures == {"timeout", "canceled", "transport", "protocol", "plc"}

\* LastSessionFailureKind names a failure of the session, never Close, and
\* never a local or queueing error; it is there when there was a failure.
FailureIsOfSession ==
    /\ lastFailure \in SessionFailures \cup {NoKind}
    /\ state \in {"broken", "disconnected"} => lastFailure # NoKind

-----------------------------------------------------------------------------
\* Liveness

\* What a caller's goroutine does next when nothing blocks it.  It is blocked
\* in the gate, in DialContext until its context ends, and in a read until a
\* frame, the deadline or the end of the socket arrives.
RunsOn(c) ==
    \/ EnterData(c) \/ QueueCanceled(c) \/ QueueClosed(c) \/ Recheck(c)
    \/ Release(c) \/ Return(c) \/ ClassifyLife(c) \/ ClassifyCtx(c)
    \/ ConnectState(c) \/ ConnectCtx(c) \/ ConnectMark(c) \/ Publish(c)
    \/ ConnectLimits(c) \/ Commit(c) \/ FailConnect(c) \/ Data(c)
    \/ Err(c) # "live" /\ DialFails(c)
    \/ Arm(c) \/ Send(c) \/ IOClosed(c) \/ IOInterrupted(c)
    \/ DropClose(c) \/ Disarm(c) \/ DisarmWait(c)

\* Goroutines that can run do run; a goroutine blocked in a send on the gate is
\* served in turn (channels queue senders first in, first out).
Scheduled ==
    /\ \A c \in Callers :
         WF_vars(RunsOn(c)) /\ SF_vars(TakeGate(c)) /\ WF_vars(Watchers(c))
    /\ WF_vars(CloseCancel \/ CloseSocket \/ CloseFinish)

\* ConnectTimeout and ExchangeTimeout are always finite (normalizeConfig), so
\* an armed deadline passes.
TimersRun == \A c \in Callers : WF_vars(Timeout(c)) /\ WF_vars(IOTimesOut(c))

LiveSpec == Spec /\ Scheduled

\* With finite timeouts every call returns, although the peer may never answer
\* and nobody may ever cancel.
EveryCallReturns ==
    TimersRun => \A c \in Callers : pc[c] # "idle" ~> pc[c] = "idle"

\* Close alone unblocks every call in progress, queued or in I/O, without the
\* help of any timeout, and itself returns.
CloseUnblocks ==
    /\ closer # "idle" ~> closer = "done"
    /\ \A c \in Callers : closer # "idle" /\ pc[c] # "idle" ~> pc[c] = "idle"

-----------------------------------------------------------------------------
\* Refinement

LC == INSTANCE Lifecycle WITH
        FailureKinds <- SessionFailures,
        usable <- limitsValid /\ conn # NoSocket,
        failure <- lastFailure

\* However calls and Close interleave, an observer of the client sees only the
\* life cycle of docs/spec.md section 7.1: Connect is the only way to Ready,
\* Disconnected comes from a failed Connect and Broken from a failed session,
\* Closing and Closed are never left, and the generation counts sessions.
ImplementsLifecycle == LC!LifecycleSpec
=============================================================================
