--------------------------- MODULE SessionInvariant ---------------------------
(***************************************************************************)
(* The inductive invariant of Session: what holds between any two steps of *)
(* the client's goroutines and is enough, by itself, to be preserved by    *)
(* each of them.  It says who owns the gate, what the owner may rely on at *)
(* each point of Connect and exchange although Close may run at any time,  *)
(* and in whose hands each open socket is.                                 *)
(***************************************************************************)
EXTENDS Session

\* Caller c has its token in the gate channel.
Holds(c) ==
    \/ pc[c] \in GatePoints
    \/ pc[c] \in ClassifyPoints /\ then[c] # "return"

\* Caller c is about to run failConnect or breakSession.
AtDrop(c) ==
    \/ pc[c] = "drop"
    \/ pc[c] \in ClassifyPoints /\ then[c] = "drop"

HandshakeIO == {"arm", "send", "recv", "limits", "commit"}
ExchangeIO == {"arm", "send", "recv", "parse"}

\* Connect has set Connecting and has neither committed nor given up.
InHandshake(c) ==
    /\ Connecting(c)
    /\ pc[c] \in {"dial", "publish"} \cup HandshakeIO \/ AtDrop(c)

\* An exchange has taken its snapshot of the session and its response has not
\* been judged yet.
InExchange(c) ==
    /\ phase[c] = "job"
    /\ \/ pc[c] \in ExchangeIO \/ AtDrop(c)
       \/ pc[c] \in {"disarm", "disarmWait"} /\ res[c] = NoKind

GateInv(c) == Holds(c) => gate = c

PhaseInv(c) ==
    /\ pc[c] \in {"connectState", "connectCtx", "connectMark", "dial", "publish",
                  "limits", "commit"} => Connecting(c)
    /\ pc[c] \in {"ready", "next", "begin", "parse"} => phase[c] = "job"

\* Between the first look at the state and the dial nobody but Close moves it;
\* from then on to the end of Connect it is Connecting, and the stored socket
\* is the one that Connect dialled.
HandshakeInv(c) ==
    /\ pc[c] \in {"connectCtx", "connectMark"} =>
         Shut \/ state \in {"new", "disconnected", "broken"}
    /\ InHandshake(c) => Shut \/ state = "connecting"
    /\ Connecting(c) /\ pc[c] \in HandshakeIO =>
         local[c] # NoSocket /\ (Shut \/ conn = local[c])
    /\ Connecting(c) /\ AtDrop(c) => conn \in {NoSocket, local[c]}

\* An exchange works on the socket of the session that is Ready.
ExchangeInv(c) ==
    InExchange(c) => Shut \/ (state = "ready" /\ conn = local[c])

\* The sockets in a caller's hands.
OwnInv(c) ==
    /\ pc[c] \in {"dial", "publish", "dropClose"} => conn = NoSocket
    /\ pc[c] = "publish" =>
         local[c] # NoSocket /\ sock[local[c]] = "open" /\ closing # local[c]
    /\ pc[c] = "dropClose" =>
         held[c] \in {NoSocket, local[c]} /\ (held[c] # NoSocket => closing # held[c])

\* What failConnect and breakSession are about to record.
ResultInv(c) ==
    /\ pc[c] \in {"drop", "dropClose"} =>
         res[c] \in SessionFailures \/ (res[c] = "closed" /\ Shut)
    /\ pc[c] \in ClassifyPoints /\ then[c] = "drop" => res[c] \in SessionFailures

CallerInv(c) ==
    /\ GateInv(c) /\ PhaseInv(c) /\ HandshakeInv(c) /\ ExchangeInv(c)
    /\ OwnInv(c) /\ ResultInv(c)

\* The fields of the client agree, and with the progress of Close.
ClientInv ==
    /\ ReadyIsUsable /\ FailureIsOfSession
    /\ (closer = "idle") <=> ~Shut
    /\ (closer = "done") <=> (state = "closed")
    /\ lifeDone => Shut
    /\ closing # NoSocket => Shut /\ sock[closing] # "unused"

\* Connecting is never left behind by a Connect that is over.
ConnectingInv == state = "connecting" => \E c \in Callers : InHandshake(c)

\* An open socket is in somebody's hands.
OpenInv ==
    \A s \in Sockets : sock[s] = "open" =>
        conn = s \/ closing = s \/ \E c \in Callers : Owns(c, s)

\* The inductive invariant: the state Ready, the gate, the stored socket and
\* the points that the callers and Close have reached agree, in every
\* interleaving of src/client.go.
SessionInv ==
    /\ ClientInv /\ ConnectingInv /\ OpenInv
    /\ \A c \in Callers : CallerInv(c)

-----------------------------------------------------------------------------
\* What SessionInv leaves out: contexts, watchers, deadlines and the wire.

\* Caller c has a connection armed, or has just lost it.
IOPoints == {"send", "recv", "limits", "commit"}
Arming(c) == pc[c] \in IOPoints \cup {"dropClose", "disarm", "disarmWait"} \/ AtDrop(c)

\* The deadline watcher of a call ends with the call, and works on its socket.
WatchInv(c) == watch[c] # "off" => Arming(c) /\ armed[c] = local[c]

\* Only the call's own context interrupts it.
InterruptInv(c) == InIO(c) /\ deadline[local[c]] = "now" => Err(c) # "live"

\* Nobody but Close closes the socket that a call works on, and Close cancels
\* the life context first.
SocketInv(c) ==
    pc[c] \in {"arm"} \cup IOPoints =>
        local[c] # NoSocket /\ (sock[local[c]] = "open" \/ lifeDone)

\* A frame that was asked for has been read before the session is used again.
\* Between the reading and the end of the deadline the session stays what it is;
\* a call that drops it leaves no Ready behind.
WireInv(c) ==
    /\ pc[c] \in {"limits", "commit"} => wire[local[c]] = "idle"
    /\ pc[c] \in {"disarm", "disarmWait"} /\ state = "ready" =>
         conn = local[c] /\ wire[local[c]] = "idle"
    /\ pc[c] = "dropClose" => state # "ready"

\* A call that began after Close comes no further than the gate.
LateInv(c) ==
    late[c] =>
        /\ lifeDone
        /\ pc[c] \in {"enter", "acquire", "recheck", "classify", "return"}
        /\ pc[c] = "classify" => then[c] = "return"
        /\ pc[c] = "return" => res[c] = "closed"

\* A call that Close cut off in its I/O finds lifeCtx cancelled when it
\* classifies the error.
CutInv(c) ==
    cut[c] = "io" =>
        /\ lifeDone
        /\ \/ pc[c] = "classify" /\ then[c] = "drop"
           \/ /\ pc[c] \in {"drop", "dropClose", "disarm", "disarmWait", "release", "return"}
              /\ res[c] = "closed"

IOCallerInv(c) ==
    /\ WatchInv(c) /\ InterruptInv(c) /\ SocketInv(c) /\ WireInv(c)
    /\ LateInv(c) /\ CutInv(c)

\* A request or a deadline may be pending on the session.
InSession(c) == pc[c] \in {"send", "recv", "disarm", "disarmWait"} \/ AtDrop(c)

Aligned == wire[conn] = "idle" /\ deadline[conn] = "none"

AlignInv == state = "ready" => Aligned \/ \E c \in Callers : InSession(c)

CancelInv == closer \in {"closeSocket", "finish", "done"} => lifeDone

\* The inductive invariant of a call's contexts, deadline watcher and frames,
\* beside the other callers, the peer and Close (armConnection, exchange,
\* classifyContextError and acquire of src/client.go).
SessionIOInv ==
    /\ AlignInv /\ CancelInv
    /\ \A c \in Callers : IOCallerInv(c)
=============================================================================
