---------------------------- MODULE SessionProofs ----------------------------
(***************************************************************************)
(* Proofs about Session, for every set of callers and every bound: its      *)
(* types; SessionInv and what follows from it, the refinement of Lifecycle  *)
(* included; SessionIOInv and what follows from it: idle sessions are       *)
(* aligned, no watcher interrupts another call, and Close has the last word.*)
(***************************************************************************)
EXTENDS SessionInvariant, TLAPS

\* The steps that store a truth value or that write to the socket of a local
\* variable preserve the type invariant; each part of it is shown by itself.
LEMMA StartType ==
  ASSUME TypeOK, NEW c \in Callers, StartConnect(c) \/ StartData(c)
  PROVE  TypeOK'
<1> USE DEF StartConnect, StartData, Start, TypeOK
<1>1. ClientType'
  BY DEF ClientType, clientVars
<1>2. SocketType'
  BY DEF SocketType, sockVars
<1>3. (closer = "done") \in BOOLEAN
  OBVIOUS
<1>4. late' \in [Callers -> BOOLEAN]
  BY <1>3, Zenon DEF CallType
<1>5. CallType'
  BY <1>4 DEF CallType, Goto, Points, OutsidePoints
<1>6. ContextType'
  BY DEF ContextType
<1>7. CloseType'
  BY DEF CloseType, closeVars
<1> QED BY <1>1, <1>2, <1>5, <1>6, <1>7

\* The last critical section of Connect stores limits and counters of their
\* types.
LEMMA CommitType ==
  ASSUME TypeOK, NEW c \in Callers, Commit(c)
  PROVE  TypeOK'
<1> USE ConstantsAssumption DEF Commit, Establish, TypeOK
<1>1. ClientType'
  <2>1. limitsValid' \in BOOLEAN /\ lifeDone' \in BOOLEAN
    BY Zenon DEF ClientType, clientVars
  <2>2. state' \in States /\ lastFailure' \in Results
    BY DEF ClientType, CallType, Results, States, Kinds, NoKind, clientVars
  <2>3. /\ conn' \in Sockets \cup {NoSocket} /\ generation' \in Nat
        /\ reference' \in 0..MaxReference /\ gate' \in Callers \cup {NoCaller}
    BY DEF ClientType, clientVars
  <2> QED BY <2>1, <2>2, <2>3 DEF ClientType
<1>2. SocketType'
  BY DEF SocketType, sockVars, CloseSockets
<1>3. CallType'
  BY DEF CallType, callVars, Goto, Result, Results, Kinds, Points, GatePoints
<1>4. ContextType'
  BY DEF ContextType, ctxVars, callVars
<1>5. CloseType'
  BY DEF CloseType, closeVars
<1> QED BY <1>1, <1>2, <1>3, <1>4, <1>5

\* failConnect and breakSession leave a recorded failure and a state of their
\* types.
LEMMA DropType ==
  ASSUME TypeOK, NEW c \in Callers, FailConnect(c) \/ BreakSession(c)
  PROVE  TypeOK'
<1> USE DEF FailConnect, BreakSession, DropSession, RecordFailure, NoSocket,
        TypeOK
<1>1. ClientType'
  <2>1. limitsValid' \in BOOLEAN /\ lifeDone' \in BOOLEAN
    BY Zenon DEF ClientType, clientVars
  <2>2. state' \in States /\ lastFailure' \in Results
    BY DEF ClientType, CallType, Results, States, Kinds, NoKind, clientVars
  <2>3. /\ conn' \in Sockets \cup {NoSocket} /\ generation' \in Nat
        /\ reference' \in 0..MaxReference /\ gate' \in Callers \cup {NoCaller}
    BY DEF ClientType, clientVars
  <2> QED BY <2>1, <2>2, <2>3 DEF ClientType
<1>2. SocketType'
  BY DEF SocketType, sockVars, CloseSockets
<1>3. CallType'
  BY DEF CallType, ClientType, Goto, Points, GatePoints
<1>4. ContextType'
  BY DEF ContextType, ctxVars, callVars
<1>5. CloseType'
  BY DEF CloseType, closeVars
<1> QED BY <1>1, <1>2, <1>3, <1>4, <1>5

\* WriteFull writes only to a socket the client knows.
LEMMA SendType ==
  ASSUME TypeOK, NEW c \in Callers, Send(c)
  PROVE  TypeOK'
<1> USE ConstantsAssumption DEF Send, TypeOK
<1>1. ClientType'
  BY DEF ClientType, clientVars
<1>2. SocketType'
  BY DEF SocketType, sockVars, CloseSockets
<1>3. CallType'
  BY DEF CallType, callVars, Goto, Result, Results, Kinds, Points, GatePoints
<1>4. ContextType'
  BY DEF ContextType, ctxVars, callVars
<1>5. CloseType'
  BY DEF CloseType, closeVars
<1> QED BY <1>1, <1>2, <1>3, <1>4, <1>5

\* A received response leaves the socket's queue of answers well typed.
LEMMA RecvType ==
  ASSUME TypeOK, NEW c \in Callers, Recv(c)
  PROVE  TypeOK'
<1> USE ConstantsAssumption DEF Recv, TypeOK
<1>1. ClientType'
  BY DEF ClientType, clientVars
<1>2. SocketType'
  BY DEF SocketType, sockVars, CloseSockets
<1>3. CallType'
  BY DEF CallType, callVars, Goto, Result, Results, Kinds, Points, GatePoints
<1>4. ContextType'
  BY DEF ContextType, ctxVars, callVars
<1>5. CloseType'
  BY DEF CloseType, closeVars
<1> QED BY <1>1, <1>2, <1>3, <1>4, <1>5

\* The stop function of armConnection resets the deadline of a known socket.
LEMMA DisarmWaitType ==
  ASSUME TypeOK, NEW c \in Callers, DisarmWait(c)
  PROVE  TypeOK'
<1> USE ConstantsAssumption DEF DisarmWait, TypeOK
<1>1. ClientType'
  BY DEF ClientType, clientVars
<1>2. SocketType'
  BY DEF SocketType, sockVars, CloseSockets
<1>3. CallType'
  BY DEF CallType, callVars, Goto, Result, Results, Kinds, Points, GatePoints
<1>4. ContextType'
  BY DEF ContextType, ctxVars, callVars
<1>5. CloseType'
  BY DEF CloseType, closeVars
<1> QED BY <1>1, <1>2, <1>3, <1>4, <1>5

\* The four steps of Close keep the types.
LEMMA ClosingType ==
  ASSUME TypeOK, Close
  PROVE  TypeOK'
<1> USE DEF Close, CloseMark, CloseCancel, CloseSocket, CloseFinish, TypeOK
<1>1. ClientType'
  <2>1. limitsValid' \in BOOLEAN /\ lifeDone' \in BOOLEAN
    BY Zenon DEF ClientType, clientVars
  <2>2. /\ state' \in States /\ lastFailure' \in Results
        /\ conn' \in Sockets \cup {NoSocket} /\ generation' \in Nat
        /\ reference' \in 0..MaxReference /\ gate' \in Callers \cup {NoCaller}
    BY DEF ClientType, clientVars, States
  <2> QED BY <2>1, <2>2 DEF ClientType
<1>2. SocketType'
  BY DEF SocketType, sockVars, CloseSockets
<1>3. CallType'
  BY DEF CallType, callVars
<1>4. ContextType'
  BY DEF ContextType, callVars
<1>5. CloseType'
  BY DEF CloseType, ClientType, NoSocket
<1> QED BY <1>1, <1>2, <1>3, <1>4, <1>5

\* Every reachable state of the client, its sockets, its callers and Close has
\* the type that src/client.go gives it; in particular the PDU reference stays
\* within 16 bits (MaxReference) when nextReference wraps.
THEOREM TypeCorrect == Spec => []TypeOK
<1> USE ConstantsAssumption DEF NoSocket, NoKind
<1>1. Init => TypeOK
  <2> SUFFICES ASSUME Init PROVE TypeOK
    OBVIOUS
  <2>1. limitsValid \in BOOLEAN /\ lifeDone \in BOOLEAN
    BY Zenon DEF Init
  <2>2. state \in States /\ lastFailure \in Results
    BY DEF Init, States, Results
  <2>3. /\ conn \in Sockets \cup {NoSocket} /\ generation \in Nat
        /\ reference \in 0..MaxReference /\ gate \in Callers \cup {NoCaller}
    BY DEF Init
  <2>4. ClientType
    BY <2>1, <2>2, <2>3 DEF ClientType
  <2>5. SocketType
    BY DEF Init, SocketType
  <2>6. CallType
    BY DEF Init, CallType, Points, OutsidePoints, Results
  <2>7. ContextType /\ CloseType
    BY DEF Init, ContextType, CloseType
  <2> QED BY <2>4, <2>5, <2>6, <2>7 DEF TypeOK
<1>2. TypeOK /\ [Next]_vars => TypeOK'
  <2> SUFFICES ASSUME TypeOK, [Next]_vars PROVE TypeOK'
    OBVIOUS
  <2> USE DEF TypeOK, ClientType, SocketType, CallType, ContextType, CloseType,
          Kinds, Results, Points, OutsidePoints,
          GatePoints, ClassifyPoints, Goto, Result, Classify,
          CloseSockets, clientVars, sockVars, ctxVars, callVars, closeVars
  <2>1. CASE UNCHANGED vars
    BY <2>1 DEF vars
  <2>2. ASSUME NEW c \in Callers, StartConnect(c) \/ StartData(c) PROVE TypeOK'
    BY <2>2, StartType
  <2>3. ASSUME NEW c \in Callers, Queue(c) PROVE TypeOK'
    <3>1. CASE EnterData(c) BY <3>1 DEF EnterData
    <3>2. CASE QueueCanceled(c) BY <3>2 DEF QueueCanceled
    <3>3. CASE QueueClosed(c) BY <3>3 DEF QueueClosed
    <3>4. CASE TakeGate(c) BY <3>4 DEF TakeGate
    <3>5. CASE Recheck(c) BY <3>5 DEF Recheck, Connecting
    <3>6. CASE Release(c) BY <3>6 DEF Release
    <3>7. CASE Return(c) BY <3>7 DEF Return
    <3>8. CASE ClassifyLife(c) BY <3>8 DEF ClassifyLife
    <3>9. CASE ClassifyCtx(c) BY <3>9 DEF ClassifyCtx
    <3> QED BY <2>3, <3>1, <3>2, <3>3, <3>4, <3>5, <3>6, <3>7, <3>8, <3>9 DEF Queue
  <2>4. ASSUME NEW c \in Callers, Connect(c) PROVE TypeOK'
    <3>1. CASE ConnectState(c) BY <3>1 DEF ConnectState
    <3>2. CASE ConnectCtx(c)
      <4>1. /\ pc' \in [Callers -> Points] /\ res' \in [Callers -> Results]
            /\ then' \in [Callers -> {"return", "release", "drop"}]
        BY <3>2, SMTT(30) DEF ConnectCtx
      <4>2. inner' \in [Callers -> {"none", "live", "expired"}]
        BY <3>2 DEF ConnectCtx
      <4> QED BY <3>2, <4>1, <4>2 DEF ConnectCtx
    <3>3. CASE ConnectMark(c) BY <3>3 DEF ConnectMark, States
    <3>4. CASE DialOpens(c) BY <3>4 DEF DialOpens
    <3>5. CASE DialOptionFails(c) BY <3>5 DEF DialOptionFails
    <3>6. CASE DialFails(c) BY <3>6 DEF DialFails
    <3>7. CASE Publish(c) BY <3>7 DEF Publish
    <3>8. CASE ConnectLimits(c) BY <3>8, SMTT(30) DEF ConnectLimits
    <3>9. CASE Commit(c) BY <3>9, CommitType
    <3>10. CASE FailConnect(c) BY <3>10, DropType
    <3> QED BY <2>4, <3>1, <3>2, <3>3, <3>4, <3>5, <3>6, <3>7, <3>8, <3>9, <3>10
        DEF Connect
  <2>5. ASSUME NEW c \in Callers, Data(c) PROVE TypeOK'
    <3>1. CASE Ready(c) BY <3>1 DEF Ready, StateError
    <3>2. CASE NextBatch(c) BY <3>2, SMTT(30) DEF NextBatch, NextReference
    <3>3. CASE Begin(c) BY <3>3, SMTT(30) DEF Begin, StateError
    <3>4. CASE Parse(c) BY <3>4 DEF Parse
    <3>5. CASE BreakSession(c) BY <3>5, DropType
    <3> QED BY <2>5, <3>1, <3>2, <3>3, <3>4, <3>5 DEF Data
  <2>6. ASSUME NEW c \in Callers, SocketIO(c) PROVE TypeOK'
    <3>1. CASE Arm(c) BY <3>1, SMTT(30) DEF Arm
    <3>2. CASE Send(c) BY <3>2, SendType
    <3>3. CASE Recv(c) BY <3>3, RecvType
    <3>4. CASE IOClosed(c) BY <3>4 DEF IOClosed, IOFails
    <3>5. CASE IOInterrupted(c) BY <3>5 DEF IOInterrupted, IOFails
    <3>6. CASE IOTimesOut(c) BY <3>6 DEF IOTimesOut, IOFails
    <3>7. CASE IOPeerFails(c) BY <3>7 DEF IOPeerFails, IOFails
    <3>8. CASE DropClose(c) BY <3>8 DEF DropClose
    <3>9. CASE Disarm(c) BY <3>9 DEF Disarm
    <3>10. CASE DisarmWait(c) BY <3>10, DisarmWaitType
    <3> QED BY <2>6, <3>1, <3>2, <3>3, <3>4, <3>5, <3>6, <3>7, <3>8, <3>9, <3>10
        DEF SocketIO
  <2>7. ASSUME NEW c \in Callers, Watchers(c) PROVE TypeOK'
    BY <2>7 DEF Watchers, ShutdownWatcher, WatcherFires, WatcherStops
  <2>8. ASSUME NEW c \in Callers, CallerCtxDone(c) \/ Timeout(c) PROVE TypeOK'
    BY <2>8 DEF CallerCtxDone, Timeout
  <2>9. ASSUME NEW s \in Sockets, PeerAnswers(s) PROVE TypeOK'
    BY <2>9 DEF PeerAnswers
  <2>10. CASE Close
    BY <2>10, ClosingType
  <2> QED
    BY <2>1, <2>2, <2>3, <2>4, <2>5, <2>6, <2>7, <2>8, <2>9, <2>10 DEF Next
<1> QED
  BY <1>1, <1>2, PTL DEF Spec
-----------------------------------------------------------------------------
(* SessionInv is an invariant of Session. *)

\* The invariant looks at these parts of a call only.
CallView(d) == <<pc[d], phase[d], local[d], held[d], res[d], then[d]>>
OthersKept(c) == \A d \in Callers \ {c} : UNCHANGED CallView(d)

\* Whoever does not own the gate is not disturbed by what its owner does, and
\* is at no point where the invariant promises anything about the client.
LEMMA Bystander ==
  ASSUME NEW d \in Callers, CallerInv(d), UNCHANGED CallView(d),
         \/ gate # d
         \/ UNCHANGED <<state, conn, sock, closing, gate>>
  PROVE  CallerInv(d)'
<1> USE DEF CallView
<1>1. CASE gate # d
  <2>1. ~Holds(d) /\ ~Holds(d)'
    BY <1>1 DEF CallerInv, GateInv, Holds
  <2>2. ~InHandshake(d)' /\ ~InExchange(d)' /\ ~AtDrop(d)'
    BY <2>1 DEF Holds, InHandshake, InExchange, AtDrop, HandshakeIO, ExchangeIO,
                GatePoints
  <2>3. GateInv(d)' /\ OwnInv(d)' /\ ResultInv(d)'
    BY <2>1 DEF GateInv, OwnInv, ResultInv, Holds, GatePoints
  <2>4. PhaseInv(d)'
    BY DEF CallerInv, PhaseInv, Connecting
  <2>5. HandshakeInv(d)' /\ ExchangeInv(d)'
    BY <2>1, <2>2 DEF HandshakeInv, ExchangeInv, Holds, GatePoints, HandshakeIO
  <2> QED BY <2>3, <2>4, <2>5 DEF CallerInv
<1>2. CASE UNCHANGED <<state, conn, sock, closing, gate>>
  BY <1>2 DEF CallerInv, GateInv, PhaseInv, HandshakeInv, ExchangeInv, OwnInv,
              ResultInv, Holds, InHandshake, InExchange, AtDrop, Connecting, Shut
<1> QED BY <1>1, <1>2

\* A step of caller c that leaves the client and its sockets alone.
LEMMA LocalStep ==
  ASSUME TypeOK, SessionInv, NEW c \in Callers, OthersKept(c),
         UNCHANGED <<state, conn, limitsValid, generation, lastFailure, lifeDone,
                     sock, closer, closing>>,
         reference # 0 => reference' # 0,
         gate' = gate \/ gate = c \/ gate = NoCaller,
         pc[c] \notin {"publish", "dropClose"},
         InHandshake(c) => InHandshake(c)',
         CallerInv(c)'
  PROVE  SessionInv'
<1>1. \A d \in Callers : CallerInv(d)'
  <2> SUFFICES ASSUME NEW d \in Callers, d # c PROVE CallerInv(d)'
    OBVIOUS
  <2>1. UNCHANGED CallView(d) /\ CallerInv(d)
    BY DEF OthersKept, SessionInv
  <2>2. gate # d \/ UNCHANGED <<state, conn, sock, closing, gate>>
    BY ConstantsAssumption
  <2> QED BY <2>1, <2>2, Bystander
<1>2. ClientInv'
  BY DEF SessionInv, ClientInv, ReadyIsUsable, FailureIsOfSession, Shut
<1>3. ConnectingInv'
  <2> SUFFICES ASSUME state = "connecting" PROVE \E d \in Callers : InHandshake(d)'
    BY DEF ConnectingInv
  <2>1. PICK d \in Callers : InHandshake(d)
    BY DEF SessionInv, ConnectingInv
  <2>2. CASE d = c
    BY <2>1, <2>2
  <2>3. CASE d # c
    <3>1. UNCHANGED CallView(d)
      BY <2>3 DEF OthersKept
    <3> QED BY <2>1, <3>1 DEF CallView, InHandshake, AtDrop, Connecting
  <2> QED BY <2>2, <2>3
<1>4. OpenInv'
  <2> SUFFICES ASSUME NEW s \in Sockets, sock[s] = "open", conn # s, closing # s
               PROVE  \E d \in Callers : Owns(d, s)'
    BY DEF OpenInv
  <2>1. PICK d \in Callers : Owns(d, s)
    BY DEF SessionInv, OpenInv
  <2>2. d # c
    BY <2>1 DEF Owns
  <2>3. UNCHANGED CallView(d)
    BY <2>2, SMTT(30) DEF OthersKept
  <2> QED BY <2>1, <2>3 DEF Owns, CallView
<1> QED BY <1>1, <1>2, <1>3, <1>4 DEF SessionInv

\* The steps of a caller that leave the client and its sockets alone.
LocalAction(c) ==
    \/ StartConnect(c) \/ StartData(c) \/ EnterData(c) \/ QueueCanceled(c)
    \/ QueueClosed(c) \/ TakeGate(c) \/ Recheck(c) \/ Release(c) \/ Return(c)
    \/ ClassifyLife(c) \/ ClassifyCtx(c) \/ ConnectState(c) \/ ConnectCtx(c)
    \/ DialFails(c) \/ ConnectLimits(c) \/ Ready(c) \/ NextBatch(c)
    \/ Begin(c) \/ Parse(c) \/ Arm(c) \/ Send(c) \/ Recv(c) \/ IOClosed(c)
    \/ IOInterrupted(c) \/ IOTimesOut(c) \/ IOPeerFails(c) \/ Disarm(c)
    \/ DisarmWait(c)

\* They bring their caller to a point where its part of the invariant holds.
LEMMA LocalCallerInv ==
  ASSUME TypeOK, SessionInv, NEW c \in Callers, LocalAction(c)
  PROVE  CallerInv(c)'
<1>a. CallerInv(c) /\ ClientInv
  BY DEF SessionInv
<1>b. pc[c] = "connectState" => state # "connecting"
  <2> SUFFICES ASSUME pc[c] = "connectState", state = "connecting" PROVE FALSE
    OBVIOUS
  <2>1. PICK d \in Callers : InHandshake(d)
    BY DEF SessionInv, ConnectingInv
  <2>2. Holds(d) /\ Holds(c)
    BY <2>1 DEF InHandshake, AtDrop, HandshakeIO, Holds, GatePoints
  <2>3. d = c
    BY <2>2 DEF SessionInv, CallerInv, GateInv
  <2> QED BY <2>1, <2>3 DEF InHandshake, AtDrop, HandshakeIO, ClassifyPoints
<1> USE <1>a, <1>b, ConstantsAssumption
    DEF TypeOK, ClientType, CallType, Goto, Result, Classify, NoKind, clientVars,
        sockVars, callVars, ctxVars, closeVars, CallerInv, GateInv, PhaseInv,
        HandshakeInv, ExchangeInv, OwnInv, ResultInv, Holds, InHandshake,
        InExchange, AtDrop, HandshakeIO, ExchangeIO, Connecting, Shut, Points,
        OutsidePoints, GatePoints, ClassifyPoints, SessionFailures, States, ClientInv,
        ReadyIsUsable
<1>1. CASE StartConnect(c) BY <1>1 DEF StartConnect, Start
<1>2. CASE StartData(c) BY <1>2 DEF StartData, Start
<1>3. CASE EnterData(c) BY <1>3 DEF EnterData
<1>4. CASE QueueCanceled(c) BY <1>4 DEF QueueCanceled
<1>5. CASE QueueClosed(c) BY <1>5 DEF QueueClosed
<1>6. CASE TakeGate(c) BY <1>6 DEF TakeGate
<1>7. CASE Recheck(c) BY <1>7 DEF Recheck
<1>8. CASE Release(c) BY <1>8 DEF Release
<1>9. CASE Return(c) BY <1>9 DEF Return
<1>10. CASE ClassifyLife(c) BY <1>10 DEF ClassifyLife
<1>11. CASE ClassifyCtx(c) BY <1>11 DEF ClassifyCtx
<1>12. CASE ConnectState(c) BY <1>12 DEF ConnectState
<1>13. CASE ConnectCtx(c) BY <1>13 DEF ConnectCtx
<1>14. CASE DialFails(c) BY <1>14 DEF DialFails
<1>15. CASE ConnectLimits(c) BY <1>15 DEF ConnectLimits
<1>16. CASE Ready(c) BY <1>16 DEF Ready, StateError
<1>17. CASE NextBatch(c) BY <1>17 DEF NextBatch, NextReference
<1>18. CASE Begin(c) BY <1>18 DEF Begin, StateError, Usable
<1>19. CASE Parse(c) BY <1>19 DEF Parse
<1>20. CASE Arm(c) BY <1>20 DEF Arm
<1>21. CASE Send(c) BY <1>21 DEF Send
<1>22. CASE Recv(c) BY <1>22 DEF Recv
<1>23. CASE IOClosed(c) BY <1>23 DEF IOClosed, IOFails, InIO
<1>24. CASE IOInterrupted(c) BY <1>24 DEF IOInterrupted, IOFails, InIO
<1>25. CASE IOTimesOut(c) BY <1>25 DEF IOTimesOut, IOFails, InIO
<1>26. CASE IOPeerFails(c) BY <1>26 DEF IOPeerFails, IOFails, InIO
<1>27. CASE Disarm(c) BY <1>27 DEF Disarm
<1>28. CASE DisarmWait(c) BY <1>28 DEF DisarmWait
<1> QED BY <1>1, <1>2, <1>3, <1>4, <1>5, <1>6, <1>7, <1>8, <1>9, <1>10, <1>11,
          <1>12, <1>13, <1>14, <1>15, <1>16, <1>17, <1>18, <1>19, <1>20,
          <1>21, <1>22, <1>23, <1>24, <1>25, <1>26, <1>27, <1>28
       DEF LocalAction

\* They disturb no other call, and a handshake that they are part of goes on.
LEMMA LocalFrame ==
  ASSUME TypeOK, SessionInv, NEW c \in Callers, LocalAction(c)
  PROVE  /\ OthersKept(c)
         /\ InHandshake(c) => InHandshake(c)'
         /\ gate' = gate \/ gate = c \/ gate = NoCaller
         /\ reference # 0 => reference' # 0
         /\ pc[c] \notin {"publish", "dropClose"}
         /\ UNCHANGED <<state, conn, limitsValid, generation, lastFailure,
                        lifeDone, sock, closer, closing>>
<1>a. pc[c] \in {"recheck", "release"} => gate = c
  BY DEF SessionInv, CallerInv, GateInv, Holds, GatePoints
<1> USE <1>a, ConstantsAssumption
    DEF TypeOK, CallType, Goto, Result, Classify, clientVars, sockVars, callVars,
        ctxVars, closeVars, OthersKept, CallView, InHandshake, AtDrop, HandshakeIO,
        Connecting, ClassifyPoints
<1>1. CASE StartConnect(c) BY <1>1 DEF StartConnect, Start
<1>2. CASE StartData(c) BY <1>2 DEF StartData, Start
<1>3. CASE EnterData(c) BY <1>3 DEF EnterData
<1>4. CASE QueueCanceled(c) BY <1>4 DEF QueueCanceled
<1>5. CASE QueueClosed(c) BY <1>5 DEF QueueClosed
<1>6. CASE TakeGate(c) BY <1>6 DEF TakeGate
<1>7. CASE Recheck(c) BY <1>7 DEF Recheck
<1>8. CASE Release(c) BY <1>8 DEF Release
<1>9. CASE Return(c) BY <1>9 DEF Return
<1>10. CASE ClassifyLife(c) BY <1>10 DEF ClassifyLife
<1>11. CASE ClassifyCtx(c) BY <1>11 DEF ClassifyCtx
<1>12. CASE ConnectState(c) BY <1>12 DEF ConnectState
<1>13. CASE ConnectCtx(c) BY <1>13 DEF ConnectCtx
<1>14. CASE DialFails(c) BY <1>14 DEF DialFails
<1>15. CASE ConnectLimits(c) BY <1>15 DEF ConnectLimits
<1>16. CASE Ready(c) BY <1>16 DEF Ready, StateError
<1>17. CASE NextBatch(c) BY <1>17 DEF NextBatch, NextReference, ClientType
<1>18. CASE Begin(c) BY <1>18 DEF Begin, StateError, Usable
<1>19. CASE Parse(c) BY <1>19 DEF Parse
<1>20. CASE Arm(c) BY <1>20 DEF Arm
<1>21. CASE Send(c) BY <1>21 DEF Send
<1>22. CASE Recv(c) BY <1>22 DEF Recv
<1>23. CASE IOClosed(c) BY <1>23 DEF IOClosed, IOFails, InIO
<1>24. CASE IOInterrupted(c) BY <1>24 DEF IOInterrupted, IOFails, InIO
<1>25. CASE IOTimesOut(c) BY <1>25 DEF IOTimesOut, IOFails, InIO
<1>26. CASE IOPeerFails(c) BY <1>26 DEF IOPeerFails, IOFails, InIO
<1>27. CASE Disarm(c) BY <1>27 DEF Disarm
<1>28. CASE DisarmWait(c) BY <1>28 DEF DisarmWait
<1> QED BY <1>1, <1>2, <1>3, <1>4, <1>5, <1>6, <1>7, <1>8, <1>9, <1>10, <1>11,
          <1>12, <1>13, <1>14, <1>15, <1>16, <1>17, <1>18, <1>19, <1>20,
          <1>21, <1>22, <1>23, <1>24, <1>25, <1>26, <1>27, <1>28
       DEF LocalAction

\* The local steps preserve the whole invariant.
LEMMA LocalActionStep ==
  ASSUME TypeOK, SessionInv, NEW c \in Callers, LocalAction(c)
  PROVE  SessionInv'
BY LocalCallerInv, LocalFrame, LocalStep

\* Contexts, watchers and the peer do not touch what the invariant is about.
LEMMA SideStep ==
  ASSUME SessionInv,
         UNCHANGED <<clientVars, lifeDone, gate, sock, pc, phase, local, held,
                     res, then, closeVars>>
  PROVE  SessionInv'
<1>1. \A d \in Callers : CallerInv(d)'
  BY Bystander DEF SessionInv, CallView, clientVars, closeVars
<1>2. ClientInv'
  BY DEF SessionInv, ClientInv, ReadyIsUsable, FailureIsOfSession, Shut,
         clientVars, closeVars
<1>3. ConnectingInv' /\ OpenInv'
  BY DEF SessionInv, ConnectingInv, OpenInv, InHandshake, AtDrop, Connecting, Owns,
         clientVars, closeVars
<1> QED BY <1>1, <1>2, <1>3 DEF SessionInv

\* A step of the owner c of the gate that changes the client or its sockets:
\* the other callers follow from Bystander, the rest is left to show.
LEMMA OwnerStep ==
  ASSUME SessionInv, NEW c \in Callers, gate = c, OthersKept(c),
         CallerInv(c)', ClientInv', ConnectingInv', OpenInv'
  PROVE  SessionInv'
<1> SUFFICES ASSUME NEW d \in Callers, d # c PROVE CallerInv(d)'
  BY DEF SessionInv
<1> QED BY Bystander DEF SessionInv, OthersKept

\* Only the owner of the gate has a socket in hand or a handshake in progress.
LEMMA OnlyOwner ==
  ASSUME SessionInv, NEW c \in Callers, gate = c, NEW d \in Callers, d # c
  PROVE  ~InHandshake(d) /\ \A s \in Sockets : ~Owns(d, s)
BY DEF SessionInv, CallerInv, GateInv, Holds, InHandshake, AtDrop, HandshakeIO,
       GatePoints, Owns

\* Entering StateConnecting starts a handshake that its caller owns.
LEMMA ConnectMarkStep ==
  ASSUME TypeOK, SessionInv, NEW c \in Callers, ConnectMark(c)
  PROVE  SessionInv'
<1> USE DEF ConnectMark, TypeOK, CallType, Goto, Result, sockVars, ctxVars, closeVars
<1>1. CallerInv(c) /\ ClientInv /\ gate = c
  BY DEF SessionInv, CallerInv, GateInv, Holds, GatePoints
<1>2. CallerInv(c)'
  BY <1>1 DEF CallerInv, GateInv, PhaseInv, HandshakeInv, ExchangeInv, OwnInv,
     ResultInv, Holds, InHandshake, InExchange, AtDrop, HandshakeIO, ExchangeIO,
     Connecting, Shut, ClassifyPoints, GatePoints, ClientInv, ReadyIsUsable
<1>3. OthersKept(c)
  BY DEF OthersKept, CallView
<1>4. ClientInv'
  BY <1>1 DEF ClientInv, ReadyIsUsable, FailureIsOfSession, Shut, CallerInv,
              HandshakeInv
<1>5. ConnectingInv'
  BY <1>1, <1>2 DEF ConnectingInv, Shut, InHandshake, CallerInv, PhaseInv
<1>6. OpenInv'
  BY DEF SessionInv, OpenInv, Owns
<1> QED BY <1>1, <1>2, <1>3, <1>4, <1>5, <1>6, OwnerStep

\* A dialled socket is in the hands of its caller until it is published or
\* closed.
LEMMA DialStep ==
  ASSUME TypeOK, SessionInv, NEW c \in Callers, DialOpens(c) \/ DialOptionFails(c)
  PROVE  SessionInv'
<1> USE DEF DialOpens, DialOptionFails, Unused, TypeOK, CallType, Goto, Result,
        clientVars, sockVars, ctxVars, closeVars
<1>1. CallerInv(c) /\ ClientInv /\ gate = c
  BY DEF SessionInv, CallerInv, GateInv, Holds, GatePoints
<1>2. CallerInv(c)'
  <2> USE <1>1 DEF CallerInv, GateInv, PhaseInv, HandshakeInv, ExchangeInv, OwnInv,
          ResultInv, Holds, InHandshake, InExchange, AtDrop, HandshakeIO,
          ExchangeIO, Connecting, Shut, ClassifyPoints, GatePoints
  <2>1. CASE DialOptionFails(c)
    BY <2>1 DEF SessionFailures
  <2>2. CASE DialOpens(c)
    <3>1. PICK s \in Sockets : /\ sock[s] = "unused"
                              /\ sock' = [sock EXCEPT ![s] = "open"]
                              /\ local' = [local EXCEPT ![c] = s]
      BY <2>2
    <3>2. closing # s /\ s # NoSocket
      BY <3>1 DEF ClientInv, Sockets, NoSocket
    <3>3. local'[c] = s /\ sock'[s] = "open"
      BY <3>1 DEF SocketType
    <3> QED BY <2>2, <3>2, <3>3
  <2> QED BY <2>1, <2>2
<1>3. OthersKept(c)
  BY DEF OthersKept, CallView
<1>4. ClientInv'
  BY <1>1 DEF ClientInv, ReadyIsUsable, FailureIsOfSession, Shut, SocketType,
              ClientType, CloseType
<1>5. ConnectingInv'
  BY <1>1, <1>2 DEF ConnectingInv, InHandshake, AtDrop, CallerInv, PhaseInv,
                    Connecting
<1>6. OpenInv'
  BY <1>1 DEF SessionInv, OpenInv, Owns, SocketType
<1> QED BY <1>1, <1>2, <1>3, <1>4, <1>5, <1>6, OwnerStep

\* Publishing hands the socket to the client, or back for closing when Close
\* came first.
LEMMA PublishStep ==
  ASSUME TypeOK, SessionInv, NEW c \in Callers, Publish(c)
  PROVE  SessionInv'
<1> USE DEF Publish, TypeOK, CallType, Goto, Result, CloseSockets, sockVars, ctxVars,
        closeVars
<1>1. CallerInv(c) /\ ClientInv /\ gate = c
  BY DEF SessionInv, CallerInv, GateInv, Holds, GatePoints
<1>2. CallerInv(c)'
  BY <1>1 DEF CallerInv, GateInv, PhaseInv, HandshakeInv, ExchangeInv, OwnInv,
     ResultInv, Holds, InHandshake, InExchange, AtDrop, HandshakeIO, ExchangeIO,
     Connecting, Shut, ClassifyPoints, GatePoints
<1>3. OthersKept(c)
  BY DEF OthersKept, CallView
<1>4. ClientInv'
  BY <1>1 DEF ClientInv, ReadyIsUsable, FailureIsOfSession, Shut, SocketType,
              ClientType, CloseType, CallerInv, OwnInv, HandshakeInv, InHandshake,
              PhaseInv
<1>5. ConnectingInv'
  BY <1>1, <1>2 DEF ConnectingInv, InHandshake, AtDrop, CallerInv, PhaseInv,
                    Connecting, HandshakeIO, Shut
<1>6. OpenInv'
  <2> SUFFICES ASSUME NEW s \in Sockets, sock'[s] = "open", conn' # s,
                      closing' # s
               PROVE  \E d \in Callers : Owns(d, s)'
    BY DEF OpenInv
  <2>1. sock[s] = "open" /\ local[c] # s
    BY <1>1 DEF SocketType, CallerInv, OwnInv
  <2>2. conn # s
    BY <1>1 DEF CallerInv, OwnInv, NoSocket, Sockets
  <2>3. PICK d \in Callers : Owns(d, s)
    BY <2>1, <2>2 DEF SessionInv, OpenInv
  <2> QED BY <2>1, <2>3 DEF Owns
<1> QED BY <1>1, <1>2, <1>3, <1>4, <1>5, <1>6, OwnerStep

\* Connect reaches StateReady only with the socket it published.
LEMMA CommitStep ==
  ASSUME TypeOK, SessionInv, NEW c \in Callers, Commit(c)
  PROVE  SessionInv'
<1> USE DEF Commit, Establish, TypeOK, CallType, Goto, Result, CloseSockets,
        clientVars, sockVars, ctxVars, closeVars
<1>1. CallerInv(c) /\ ClientInv /\ gate = c
  BY DEF SessionInv, CallerInv, GateInv, Holds, GatePoints
<1>2. CallerInv(c)'
  BY <1>1 DEF CallerInv, GateInv, PhaseInv, HandshakeInv, ExchangeInv, OwnInv,
     ResultInv, Holds, InHandshake, InExchange, AtDrop, HandshakeIO, ExchangeIO,
     Connecting, Shut, ClassifyPoints, GatePoints
<1>3. OthersKept(c)
  BY DEF OthersKept, CallView
<1>4. ClientInv'
  BY <1>1 DEF ClientInv, ReadyIsUsable, FailureIsOfSession, Shut, SocketType,
              ClientType, CloseType, CallerInv, HandshakeInv, PhaseInv, HandshakeIO
<1>5. ConnectingInv'
  BY <1>1 DEF ConnectingInv, Shut
<1>6. OpenInv'
  BY <1>1 DEF SessionInv, OpenInv, Owns, SocketType
<1> QED BY <1>1, <1>2, <1>3, <1>4, <1>5, <1>6, OwnerStep

\* failConnect and breakSession take from the client what their caller was
\* using, and leave it to that caller to close.
LEMMA DropStep ==
  ASSUME TypeOK, SessionInv, NEW c \in Callers, FailConnect(c) \/ BreakSession(c)
  PROVE  SessionInv'
<1> USE DEF FailConnect, BreakSession, DropSession, RecordFailure, TypeOK, CallType,
        Goto, sockVars, ctxVars, closeVars
<1>1. CallerInv(c) /\ ClientInv /\ gate = c
  BY DEF SessionInv, CallerInv, GateInv, Holds, GatePoints
<1>2. CallerInv(c)'
  BY <1>1 DEF CallerInv, GateInv, PhaseInv, HandshakeInv, ExchangeInv, OwnInv,
     ResultInv, Holds, InHandshake, InExchange, AtDrop, HandshakeIO, ExchangeIO,
     Connecting, Shut, ClassifyPoints, GatePoints, ClientInv, ReadyIsUsable,
     ClientType, NoSocket
<1>3. OthersKept(c)
  BY DEF OthersKept, CallView
<1>4. ClientInv'
  BY <1>1 DEF ClientInv, ReadyIsUsable, FailureIsOfSession, Shut, CallerInv,
              ResultInv, SessionFailures, NoKind
<1>5. ConnectingInv'
  BY <1>1 DEF ConnectingInv, Shut, ClientInv, SessionInv
<1>6. OpenInv'
  BY <1>1 DEF SessionInv, OpenInv, Owns
<1> QED BY <1>1, <1>2, <1>3, <1>4, <1>5, <1>6, OwnerStep

\* Closing the dropped socket ends the caller's duty.
LEMMA DropCloseStep ==
  ASSUME TypeOK, SessionInv, NEW c \in Callers, DropClose(c)
  PROVE  SessionInv'
<1> USE DEF DropClose, TypeOK, CallType, Goto, CloseSockets, clientVars, ctxVars,
        closeVars
<1>1. CallerInv(c) /\ ClientInv /\ gate = c
  BY DEF SessionInv, CallerInv, GateInv, Holds, GatePoints
<1>2. CallerInv(c)'
  BY <1>1 DEF CallerInv, GateInv, PhaseInv, HandshakeInv, ExchangeInv, OwnInv,
     ResultInv, Holds, InHandshake, InExchange, AtDrop, HandshakeIO, ExchangeIO,
     Connecting, Shut, ClassifyPoints, GatePoints, SessionFailures, NoKind
<1>3. OthersKept(c)
  BY DEF OthersKept, CallView
<1>4. ClientInv'
  BY <1>1 DEF ClientInv, ReadyIsUsable, FailureIsOfSession, Shut, CallerInv, OwnInv,
              SocketType, ClientType, CloseType
<1>5. ConnectingInv'
  BY <1>1, OnlyOwner DEF ConnectingInv, SessionInv, InHandshake, AtDrop, HandshakeIO,
                         ClassifyPoints
<1>6. OpenInv'
  BY <1>1 DEF SessionInv, OpenInv, Owns, SocketType
<1> QED BY <1>1, <1>2, <1>3, <1>4, <1>5, <1>6, OwnerStep

\* Close runs without the gate: every promise to a caller allows for it.
LEMMA CloseStep ==
  ASSUME TypeOK, SessionInv, Close
  PROVE  SessionInv'
<1> USE DEF TypeOK, clientVars, sockVars, callVars, CloseSockets
<1>a. ClientInv /\ Shut' /\ conn' = NoSocket /\ gate' = gate
  BY DEF SessionInv, ClientInv, ReadyIsUsable, Shut, Close, CloseMark, CloseCancel,
         CloseSocket, CloseFinish, CloseType
<1>1. ASSUME NEW d \in Callers PROVE CallerInv(d)'
  <2>1. CallerInv(d) /\ UNCHANGED CallView(d)
    BY DEF SessionInv, CallView, Close, CloseMark, CloseCancel, CloseSocket,
           CloseFinish
  <2>2. GateInv(d)' /\ PhaseInv(d)'
    BY <1>a, <2>1 DEF CallerInv, CallView, GateInv, PhaseInv, Holds, Connecting
  <2>3. HandshakeInv(d)' /\ ExchangeInv(d)'
    BY <1>a, <2>1 DEF CallerInv, CallView, HandshakeInv, ExchangeInv, Connecting,
                      AtDrop, InHandshake
  <2>4. OwnInv(d)'
    BY <1>a, <2>1 DEF CallerInv, CallView, OwnInv, ClientInv, ReadyIsUsable, Close,
      CloseMark, CloseCancel, CloseSocket, CloseFinish, CallType, SocketType, NoSocket
  <2>5. ResultInv(d)'
    BY <1>a, <2>1 DEF CallerInv, CallView, ResultInv
  <2> QED BY <2>2, <2>3, <2>4, <2>5 DEF CallerInv
<1>2. ClientInv'
  BY <1>a DEF ClientInv, ReadyIsUsable, FailureIsOfSession, Shut, Close, CloseMark,
    CloseCancel, CloseSocket, CloseFinish, CloseType, SocketType, ClientType
<1>3. ConnectingInv'
  BY <1>a DEF ConnectingInv, Shut
<1>4. OpenInv'
  <2> SUFFICES ASSUME NEW s \in Sockets, sock'[s] = "open", closing' # s
               PROVE  \E d \in Callers : Owns(d, s)'
    BY DEF OpenInv
  <2>1. sock[s] = "open" /\ closing # s /\ conn # s
    <3> USE <1>a DEF ClientInv, ReadyIsUsable, Shut, SocketType, NoSocket, Sockets
    <3>1. CASE CloseMark BY <3>1 DEF CloseMark
    <3>2. CASE CloseCancel BY <3>2 DEF CloseCancel
    <3>3. CASE CloseSocket BY <3>3 DEF CloseSocket
    <3>4. CASE CloseFinish BY <3>4 DEF CloseFinish
    <3> QED BY <3>1, <3>2, <3>3, <3>4 DEF Close
  <2>2. PICK d \in Callers : Owns(d, s)
    BY <2>1 DEF SessionInv, OpenInv
  <2>3. UNCHANGED <<pc, local, held>>
    BY DEF Close, CloseMark, CloseCancel, CloseSocket, CloseFinish
  <2> QED BY <2>2, <2>3 DEF Owns
<1> QED BY <1>1, <1>2, <1>3, <1>4 DEF SessionInv

\* The inductive invariant holds in every reachable state.
THEOREM InvariantHolds == Spec => []SessionInv
<1>1. Init => SessionInv
  BY ConstantsAssumption
  DEF Init, SessionInv, ClientInv, ReadyIsUsable, FailureIsOfSession, ConnectingInv,
      OpenInv, CallerInv, GateInv, PhaseInv, HandshakeInv, ExchangeInv, OwnInv,
      ResultInv, Holds, InHandshake, InExchange, AtDrop, HandshakeIO, ExchangeIO,
      Connecting, Shut, ClassifyPoints, GatePoints, NoSocket, NoKind, SessionFailures
<1>2. TypeOK /\ SessionInv /\ [Next]_vars => SessionInv'
  <2> SUFFICES ASSUME TypeOK, SessionInv, [Next]_vars PROVE SessionInv'
    OBVIOUS
  <2>1. CASE UNCHANGED vars
    BY <2>1, SideStep DEF vars, sockVars, callVars
  <2>2. ASSUME NEW c \in Callers,
               StartConnect(c) \/ StartData(c) \/ Queue(c)
        PROVE  SessionInv'
    BY <2>2, LocalActionStep DEF LocalAction, Queue
  <2>3. ASSUME NEW c \in Callers, Connect(c) PROVE SessionInv'
    BY <2>3, LocalActionStep, ConnectMarkStep, DialStep, PublishStep, CommitStep,
       DropStep DEF LocalAction, Connect
  <2>4. ASSUME NEW c \in Callers, Data(c) PROVE SessionInv'
    BY <2>4, LocalActionStep, DropStep DEF LocalAction, Data
  <2>5. ASSUME NEW c \in Callers, SocketIO(c) PROVE SessionInv'
    BY <2>5, LocalActionStep, DropCloseStep DEF LocalAction, SocketIO
  <2>6. ASSUME NEW c \in Callers, Watchers(c) \/ CallerCtxDone(c) \/ Timeout(c)
        PROVE  SessionInv'
    BY <2>6, SideStep DEF Watchers, ShutdownWatcher, WatcherFires, WatcherStops,
                          CallerCtxDone, Timeout, sockVars
  <2>7. ASSUME NEW s \in Sockets, PeerAnswers(s) PROVE SessionInv'
    BY <2>7, SideStep DEF PeerAnswers, callVars
  <2>8. CASE Close
    BY <2>8, CloseStep
  <2> QED BY <2>1, <2>2, <2>3, <2>4, <2>5, <2>6, <2>7, <2>8 DEF Next
<1> QED
  BY <1>1, <1>2, TypeCorrect, PTL DEF Spec

\* Whatever Connect, exchanges and Close do at the same time, Ready means a
\* stored open socket, valid limits, a counted generation, a non-zero PDU
\* reference and no recorded failure, and no other state has valid limits.
THEOREM ReadyUsable == Spec => []ReadyIsUsable
<1>1. SessionInv => ReadyIsUsable
  BY DEF SessionInv, ClientInv
<1> QED BY <1>1, InvariantHolds, PTL

\* failConnect and breakSession record failures of the session only, and a
\* broken or disconnected client always has one on record.
THEOREM FailureOfSession == Spec => []FailureIsOfSession
<1>1. SessionInv => FailureIsOfSession
  BY DEF SessionInv, ClientInv
<1> QED BY <1>1, InvariantHolds, PTL

\* breakSession and failConnect never close a session other than the one the
\* failing call was using, although they close what the client stores by then.
THEOREM OwnSocketDropped == Spec => []DropsOwnSocket
<1>1. SessionInv => DropsOwnSocket
  BY DEF SessionInv, CallerInv, OwnInv, DropsOwnSocket
<1> QED BY <1>1, InvariantHolds, PTL

\* Every open socket has exactly one holder: the client, Close, or one call
\* that is about to publish or close it.
THEOREM NoLeak == Spec => []NoSocketLeak
<1>1. TypeOK /\ SessionInv => NoSocketLeak
  <2> SUFFICES ASSUME TypeOK, SessionInv, NEW s \in Sockets, sock[s] = "open"
               PROVE  \/ conn = s /\ closing # s /\ \A c \in Callers : ~Owns(c, s)
                      \/ conn # s /\ closing = s /\ \A c \in Callers : ~Owns(c, s)
                      \/ /\ conn # s /\ closing # s
                         /\ \E c \in Callers : Owns(c, s) /\ \A d \in Callers : Owns(d, s) => d = c
    BY DEF NoSocketLeak
  <2>1. s # NoSocket
    BY DEF Sockets, NoSocket
  <2>2. ASSUME NEW c \in Callers, Owns(c, s)
        PROVE  conn # s /\ closing # s /\ gate = c
    BY <2>1, <2>2 DEF SessionInv, CallerInv, OwnInv, GateInv, Holds, GatePoints, Owns
  <2>3. conn = s => closing # s
    BY <2>1 DEF SessionInv, ClientInv, ReadyIsUsable, Shut
  <2>4. conn = s \/ closing = s \/ \E c \in Callers : Owns(c, s)
    BY DEF SessionInv, OpenInv
  <2> QED BY <2>2, <2>3, <2>4
<1> QED BY <1>1, InvariantHolds, TypeCorrect, PTL

\* Every behaviour of the client is, for an observer of State, Limits and
\* Diagnostics, a behaviour of the life cycle of docs/spec.md section 7.1.
THEOREM Refinement == Spec => ImplementsLifecycle
<1> USE DEF LC!lifecycleVars
<1>1. Init => LC!LifecycleInit
  BY DEF Init, LC!LifecycleInit, NoSocket, NoKind
<1>2. TypeOK /\ SessionInv /\ SessionInv' /\ [Next]_vars
        => [LC!LifecycleNext]_(LC!lifecycleVars)
  <2> SUFFICES ASSUME TypeOK, SessionInv, SessionInv', [Next]_vars
               PROVE  [LC!LifecycleNext]_(LC!lifecycleVars)
    OBVIOUS
  <2>a. ClientInv /\ ClientInv' /\ \A c \in Callers : CallerInv(c)
    BY DEF SessionInv
  <2>0. ASSUME UNCHANGED <<state, conn, limitsValid, generation, lastFailure>>
        PROVE  UNCHANGED LC!lifecycleVars
    BY <2>0
  <2>1. CASE UNCHANGED vars
    BY <2>0, <2>1 DEF vars, clientVars
  <2>2. ASSUME NEW c \in Callers, LocalAction(c) PROVE UNCHANGED LC!lifecycleVars
    BY <2>0, <2>2, LocalFrame
  <2>3. ASSUME NEW c \in Callers, ConnectMark(c)
        PROVE  LC!BeginConnect \/ UNCHANGED LC!lifecycleVars
    BY <2>3, <2>a DEF ConnectMark, LC!BeginConnect, CallerInv, HandshakeInv, Shut
  <2>4. ASSUME NEW c \in Callers, DialOpens(c) \/ DialOptionFails(c) \/ DropClose(c)
        PROVE  UNCHANGED LC!lifecycleVars
    BY <2>0, <2>4 DEF DialOpens, DialOptionFails, DropClose, clientVars
  <2>5. ASSUME NEW c \in Callers, Publish(c) PROVE UNCHANGED LC!lifecycleVars
    BY <2>5, <2>a DEF Publish, CallerInv, HandshakeInv, PhaseInv, InHandshake, Shut,
                      ClientInv, ReadyIsUsable
  <2>6. ASSUME NEW c \in Callers, Commit(c)
        PROVE  LC!Establish \/ UNCHANGED LC!lifecycleVars
    BY <2>6, <2>a DEF Commit, Establish, LC!Establish, clientVars, CallerInv,
         HandshakeInv, PhaseInv, InHandshake, HandshakeIO, Shut, ClientInv,
         ReadyIsUsable, NoKind
  <2>7. ASSUME NEW c \in Callers, FailConnect(c)
        PROVE  LC!Abandon \/ UNCHANGED LC!lifecycleVars
    BY <2>7, <2>a DEF FailConnect, DropSession, RecordFailure, LC!Abandon, CallerInv,
         HandshakeInv, ResultInv, InHandshake, AtDrop, Shut, ClientInv, ReadyIsUsable
  <2>8. ASSUME NEW c \in Callers, BreakSession(c)
        PROVE  LC!Break \/ UNCHANGED LC!lifecycleVars
    BY <2>8, <2>a DEF BreakSession, DropSession, RecordFailure, LC!Break, CallerInv,
         ExchangeInv, ResultInv, InExchange, AtDrop, Shut, ClientInv, ReadyIsUsable
  <2>9. ASSUME NEW c \in Callers, Watchers(c) \/ CallerCtxDone(c) \/ Timeout(c)
        PROVE  UNCHANGED LC!lifecycleVars
    BY <2>0, <2>9 DEF Watchers, ShutdownWatcher, WatcherFires, WatcherStops,
                      CallerCtxDone, Timeout, clientVars
  <2>10. ASSUME NEW s \in Sockets, PeerAnswers(s) PROVE UNCHANGED LC!lifecycleVars
    BY <2>0, <2>10 DEF PeerAnswers, clientVars
  <2>11. CASE Close
    <3>1. CASE CloseMark
      <4>1. ~Shut /\ state' = "closing" /\ UNCHANGED <<generation, lastFailure>>
        BY <3>1, <2>a DEF CloseMark, ClientInv
      <4>2. (limitsValid /\ conn # NoSocket)' = FALSE
        BY <3>1 DEF CloseMark
      <4> QED BY <4>1, <4>2 DEF LC!BeginClose, LC!LifecycleNext, Shut
    <3>2. CASE CloseCancel \/ CloseSocket
      BY <2>0, <3>2 DEF CloseCancel, CloseSocket, clientVars
    <3>3. CASE CloseFinish
      BY <3>3, <2>a DEF CloseFinish, LC!EndClose, LC!LifecycleNext, ClientInv, Shut
    <3> QED BY <2>11, <3>1, <3>2, <3>3 DEF Close
  <2> QED
    BY <2>1, <2>2, <2>3, <2>4, <2>5, <2>6, <2>7, <2>8, <2>9, <2>10, <2>11
       DEF Next, Queue, Connect, Data, SocketIO, LocalAction, LC!LifecycleNext
<1> QED
  BY <1>1, <1>2, TypeCorrect, InvariantHolds, PTL
     DEF Spec, ImplementsLifecycle, LC!LifecycleSpec
-----------------------------------------------------------------------------
(* SessionIOInv is an invariant of Session. *)

\* What SessionIOInv looks at in a call, and in the client and its sockets.
IOView(d) == <<pc[d], local[d], res[d], then[d], base[d], inner[d], watch[d], armed[d],
               late[d], cut[d]>>
SessionView == <<state, conn, sock, deadline, wire>>

\* A step of caller c, of its contexts or of its deadline watcher.
CallerStep(c) ==
    \/ StartConnect(c) \/ StartData(c) \/ Queue(c) \/ Connect(c) \/ Data(c)
    \/ SocketIO(c) \/ Watchers(c) \/ CallerCtxDone(c) \/ Timeout(c)

\* The session is aligned, or it is c who is using it.
AlignedFor(c) == state = "ready" => Aligned \/ InSession(c)

\* Whoever uses the session, or has a watcher on its socket, owns the gate.
LEMMA InSessionOwns ==
  ASSUME SessionInv, NEW c \in Callers,
         InSession(c) \/ Arming(c) \/ pc[c] \in {"arm"} \cup IOPoints
  PROVE  gate = c
<1>1. Holds(c)
  BY DEF InSession, Arming, AtDrop, IOPoints, Holds, GatePoints
<1> QED BY <1>1 DEF SessionInv, CallerInv, GateInv

\* A step of c disturbs no other call's view, and touches the session only if c
\* owns the gate.
LEMMA IOFrame ==
  ASSUME TypeOK, SessionInv, SessionIOInv, NEW c \in Callers, CallerStep(c)
  PROVE  /\ \A d \in Callers \ {c} : UNCHANGED IOView(d)
         /\ UNCHANGED <<lifeDone, closer>>
         /\ gate = c \/ UNCHANGED SessionView
<1>a. Holds(c) => gate = c
  BY DEF SessionInv, CallerInv, GateInv
<1>b. watch[c] # "off" => gate = c
  BY InSessionOwns DEF SessionIOInv, IOCallerInv, WatchInv
<1> USE <1>a, <1>b
    DEF TypeOK, CallType, ContextType, Goto, Result, Classify, clientVars, sockVars,
        callVars, ctxVars, closeVars, IOView, SessionView, Holds, GatePoints,
        CloseSockets, InIO
<1>1. CASE StartConnect(c) BY <1>1 DEF StartConnect, Start
<1>2. CASE StartData(c) BY <1>2 DEF StartData, Start
<1>3. CASE EnterData(c) BY <1>3 DEF EnterData
<1>4. CASE QueueCanceled(c) BY <1>4 DEF QueueCanceled
<1>5. CASE QueueClosed(c) BY <1>5 DEF QueueClosed
<1>6. CASE TakeGate(c) BY <1>6 DEF TakeGate
<1>7. CASE Recheck(c) BY <1>7 DEF Recheck
<1>8. CASE Release(c) BY <1>8 DEF Release
<1>9. CASE Return(c) BY <1>9 DEF Return
<1>10. CASE ClassifyLife(c) BY <1>10 DEF ClassifyLife
<1>11. CASE ClassifyCtx(c) BY <1>11 DEF ClassifyCtx
<1>12. CASE ConnectState(c) BY <1>12 DEF ConnectState
<1>13. CASE ConnectCtx(c) BY <1>13 DEF ConnectCtx
<1>14. CASE ConnectMark(c) BY <1>14 DEF ConnectMark
<1>15. CASE DialOpens(c) BY <1>15 DEF DialOpens
<1>16. CASE DialOptionFails(c) BY <1>16 DEF DialOptionFails
<1>17. CASE DialFails(c) BY <1>17 DEF DialFails
<1>18. CASE Publish(c) BY <1>18 DEF Publish
<1>19. CASE ConnectLimits(c) BY <1>19 DEF ConnectLimits
<1>20. CASE Commit(c) BY <1>20 DEF Commit, Establish
<1>21. CASE FailConnect(c) BY <1>21 DEF FailConnect, DropSession, RecordFailure
<1>22. CASE BreakSession(c) BY <1>22 DEF BreakSession, DropSession, RecordFailure
<1>23. CASE Ready(c) BY <1>23 DEF Ready, StateError
<1>24. CASE NextBatch(c) BY <1>24 DEF NextBatch
<1>25. CASE Begin(c) BY <1>25 DEF Begin, StateError
<1>26. CASE Parse(c) BY <1>26 DEF Parse
<1>27. CASE Arm(c) BY <1>27 DEF Arm
<1>28. CASE Send(c) BY <1>28 DEF Send
<1>29. CASE Recv(c) BY <1>29 DEF Recv
<1>30. CASE IOClosed(c) BY <1>30 DEF IOClosed, IOFails
<1>31. CASE IOInterrupted(c) BY <1>31 DEF IOInterrupted, IOFails
<1>32. CASE IOTimesOut(c) BY <1>32 DEF IOTimesOut, IOFails
<1>33. CASE IOPeerFails(c) BY <1>33 DEF IOPeerFails, IOFails
<1>34. CASE DropClose(c) BY <1>34 DEF DropClose
<1>35. CASE Disarm(c) BY <1>35 DEF Disarm
<1>36. CASE DisarmWait(c) BY <1>36 DEF DisarmWait
<1>37. CASE ShutdownWatcher(c) BY <1>37 DEF ShutdownWatcher
<1>38. CASE WatcherFires(c) BY <1>38 DEF WatcherFires
<1>39. CASE WatcherStops(c) BY <1>39 DEF WatcherStops
<1>40. CASE CallerCtxDone(c) BY <1>40 DEF CallerCtxDone
<1>41. CASE Timeout(c) BY <1>41, SMTT(30) DEF Timeout
<1> QED
  BY <1>1, <1>2, <1>3, <1>4, <1>5, <1>6, <1>7, <1>8, <1>9, <1>10, <1>11,
     <1>12, <1>13, <1>14, <1>15, <1>16, <1>17, <1>18, <1>19, <1>20,
     <1>21, <1>22, <1>23, <1>24, <1>25, <1>26, <1>27, <1>28, <1>29,
     <1>30, <1>31, <1>32, <1>33, <1>34, <1>35, <1>36, <1>37, <1>38,
     <1>39, <1>40, <1>41
     DEF CallerStep, Queue, Connect, Data, SocketIO, Watchers

\* A step brings its own caller to a point where its part of the invariant holds.
LEMMA IOCallerStep ==
  ASSUME TypeOK, SessionInv, SessionIOInv, NEW c \in Callers, CallerStep(c)
  PROVE  IOCallerInv(c)' /\ (gate = c => AlignedFor(c)')
<1>a. CallerInv(c) /\ ClientInv /\ IOCallerInv(c) /\ CancelInv
  BY DEF SessionInv, SessionIOInv
<1>b. gate = c => AlignedFor(c)
  BY InSessionOwns DEF SessionIOInv, AlignInv, AlignedFor
<1> USE <1>a, <1>b
    DEF TypeOK, ClientType, SocketType, CallType, ContextType, Goto, Result, Classify,
        NoKind, clientVars, sockVars, callVars, ctxVars, closeVars, CloseSockets, InIO,
        IOCallerInv, WatchInv, InterruptInv, SocketInv, WireInv, LateInv, CutInv,
        Arming, AtDrop, IOPoints, ClassifyPoints, InSession, AlignedFor, Aligned, Err
<1>1. CASE StartConnect(c) BY <1>1 DEF StartConnect, Start, CancelInv
<1>2. CASE StartData(c) BY <1>2 DEF StartData, Start, CancelInv
<1>3. CASE EnterData(c) BY <1>3 DEF EnterData
<1>4. CASE QueueCanceled(c) BY <1>4 DEF QueueCanceled
<1>5. CASE QueueClosed(c) BY <1>5 DEF QueueClosed
<1>6. CASE TakeGate(c) BY <1>6 DEF TakeGate
<1>7. CASE Recheck(c) BY <1>7 DEF Recheck
<1>8. CASE Release(c) BY <1>8 DEF Release
<1>9. CASE Return(c) BY <1>9 DEF Return
<1>10. CASE ClassifyLife(c) BY <1>10 DEF ClassifyLife
<1>11. CASE ClassifyCtx(c) BY <1>11 DEF ClassifyCtx
<1>12. CASE ConnectState(c) BY <1>12 DEF ConnectState
<1>13. CASE ConnectCtx(c) BY <1>13 DEF ConnectCtx
<1>14. CASE ConnectMark(c) BY <1>14 DEF ConnectMark
<1>15. CASE DialOpens(c) BY <1>15 DEF DialOpens
<1>16. CASE DialOptionFails(c) BY <1>16 DEF DialOptionFails
<1>17. CASE DialFails(c) BY <1>17 DEF DialFails
<1>18. CASE Publish(c) BY <1>18 DEF Publish, CallerInv,
       OwnInv, Shut, ClientInv, ReadyIsUsable, HandshakeInv, InHandshake, PhaseInv
<1>19. CASE ConnectLimits(c) BY <1>19 DEF ConnectLimits
<1>20. CASE Commit(c) BY <1>20 DEF Commit, Establish, CallerInv,
       HandshakeInv, PhaseInv, HandshakeIO, Shut, ClientInv, ReadyIsUsable
<1>21. CASE FailConnect(c) BY <1>21 DEF FailConnect, DropSession, RecordFailure, Shut
<1>22. CASE BreakSession(c) BY <1>22 DEF BreakSession, DropSession, RecordFailure, Shut
<1>23. CASE Ready(c) BY <1>23 DEF Ready, StateError
<1>24. CASE NextBatch(c) BY <1>24 DEF NextBatch
<1>25. CASE Begin(c) BY <1>25 DEF Begin, StateError, Usable, ClientInv,
       ReadyIsUsable
<1>26. CASE Parse(c) BY <1>26 DEF Parse
<1>27. CASE Arm(c) BY <1>27 DEF Arm
<1>28. CASE Send(c) BY <1>28 DEF Send
<1>29. CASE Recv(c)
  <2>1. local[c] \in Sockets /\ pc[c] = "recv" /\ watch' = watch /\ armed' = armed
    BY <1>29 DEF Recv
  <2>2. /\ wire'[local[c]] = "idle" /\ UNCHANGED <<state, conn, sock, deadline, local>>
        /\ UNCHANGED <<lifeDone, base, inner, then, late, cut>>
    BY <1>29, <2>1 DEF Recv
  <2>3. pc'[c] \in {"send", "limits", "disarm", "drop"}
    BY <1>29 DEF Recv
  <2>4. pc'[c] = "disarm" => phase[c] = "job"
    BY <1>29 DEF Recv
  <2>5. phase[c] = "job" /\ state = "ready" => conn = local[c]
    BY <2>1 DEF CallerInv, ExchangeInv, InExchange, ExchangeIO, Shut
  <2>6. ~late[c] /\ cut[c] # "io"
    BY <2>1
  <2>7. WatchInv(c)' /\ InterruptInv(c)' /\ SocketInv(c)'
    BY <2>1, <2>2, <2>3
  <2>8. WireInv(c)'
    BY <2>2, <2>3, <2>4, <2>5
  <2>9. LateInv(c)' /\ CutInv(c)'
    BY <2>2, <2>6
  <2>10. AlignedFor(c)'
    <3>1. pc'[c] = "limits" => phase[c] = "setup"
      BY <1>29 DEF Recv
    <3>2. phase[c] = "setup" => state # "ready"
      BY <2>1 DEF CallerInv, HandshakeInv, InHandshake, HandshakeIO, Connecting, Shut
    <3> QED BY <2>2, <2>3, <3>1, <3>2
  <2> QED BY <2>7, <2>8, <2>9, <2>10
<1>30. CASE IOClosed(c) BY <1>30 DEF IOClosed, IOFails
<1>31. CASE IOInterrupted(c) BY <1>31 DEF IOInterrupted, IOFails
<1>32. CASE IOTimesOut(c) BY <1>32 DEF IOTimesOut, IOFails
<1>33. CASE IOPeerFails(c) BY <1>33 DEF IOPeerFails, IOFails
<1>34. CASE DropClose(c) BY <1>34 DEF DropClose
<1>35. CASE Disarm(c) BY <1>35 DEF Disarm
<1>36. CASE DisarmWait(c) BY <1>36 DEF DisarmWait, ClientInv, ReadyIsUsable
<1>37. CASE ShutdownWatcher(c) BY <1>37 DEF ShutdownWatcher
<1>38. CASE WatcherFires(c) BY <1>38 DEF WatcherFires, CallerInv,
       HandshakeInv, InHandshake, HandshakeIO, PhaseInv, Shut, ClientInv, ReadyIsUsable
<1>39. CASE WatcherStops(c) BY <1>39 DEF WatcherStops
<1>40. CASE CallerCtxDone(c) BY <1>40 DEF CallerCtxDone
<1>41. CASE Timeout(c) BY <1>41 DEF Timeout
<1> QED
  BY <1>1, <1>2, <1>3, <1>4, <1>5, <1>6, <1>7, <1>8, <1>9, <1>10, <1>11,
     <1>12, <1>13, <1>14, <1>15, <1>16, <1>17, <1>18, <1>19, <1>20,
     <1>21, <1>22, <1>23, <1>24, <1>25, <1>26, <1>27, <1>28, <1>29,
     <1>30, <1>31, <1>32, <1>33, <1>34, <1>35, <1>36, <1>37, <1>38,
     <1>39, <1>40, <1>41
     DEF CallerStep, Queue, Connect, Data, SocketIO, Watchers

\* Together: a step of one caller preserves the invariant of all.
LEMMA IOStep ==
  ASSUME TypeOK, SessionInv, SessionIOInv, NEW c \in Callers, CallerStep(c)
  PROVE  SessionIOInv'
<1>1. /\ \A d \in Callers \ {c} : UNCHANGED IOView(d)
      /\ UNCHANGED <<lifeDone, closer>>
      /\ gate = c \/ UNCHANGED SessionView
  BY IOFrame
<1>2. IOCallerInv(c)' /\ (gate = c => AlignedFor(c)')
  BY IOCallerStep
<1>3. ASSUME NEW d \in Callers, d # c PROVE IOCallerInv(d)'
  <2>1. UNCHANGED IOView(d) /\ IOCallerInv(d)
    BY <1>1, <1>3 DEF SessionIOInv
  <2>2. LateInv(d)' /\ CutInv(d)'
    BY <1>1, <2>1 DEF IOCallerInv, IOView, LateInv, CutInv
  <2>3. CASE gate = c
    <3>1. ~Arming(d) /\ pc[d] \notin {"arm"} \cup IOPoints
      BY <1>3, <2>3, InSessionOwns
    <3>2. ~Arming(d)' /\ pc'[d] \notin {"arm"} \cup IOPoints
      BY <2>1, <3>1 DEF IOView, Arming, AtDrop
    <3>3. WatchInv(d)'
      BY <2>1, <3>1 DEF IOCallerInv, IOView, WatchInv
    <3>4. InterruptInv(d)' /\ SocketInv(d)' /\ WireInv(d)'
      BY <3>2 DEF InterruptInv, SocketInv, WireInv, InIO, IOPoints, Arming
    <3> QED BY <2>2, <3>3, <3>4 DEF IOCallerInv
  <2>4. CASE UNCHANGED SessionView
    BY <1>1, <2>1, <2>2, <2>4
       DEF IOCallerInv, IOView, SessionView, WatchInv, InterruptInv, SocketInv, WireInv,
           InIO, Err, Arming, AtDrop
  <2> QED BY <1>1, <2>3, <2>4
<1>4. AlignInv'
  <2>1. CASE gate = c
    BY <1>2, <2>1 DEF AlignInv, AlignedFor
  <2>2. CASE gate # c
    <3>1. UNCHANGED SessionView
      BY <1>1, <2>2
    <3>2. ASSUME NEW d \in Callers, InSession(d) PROVE InSession(d)'
      <4>1. d # c
        BY <2>2, <3>2, InSessionOwns
      <4> QED BY <1>1, <3>2, <4>1 DEF IOView, InSession, AtDrop
    <3> QED BY <3>1, <3>2 DEF SessionIOInv, AlignInv, SessionView, Aligned
  <2> QED BY <2>1, <2>2
<1>5. CancelInv'
  BY <1>1 DEF SessionIOInv, CancelInv
<1> QED BY <1>2, <1>3, <1>4, <1>5 DEF SessionIOInv

\* The peer answers only what was asked.
LEMMA PeerStepIO ==
  ASSUME TypeOK, SessionInv, SessionIOInv, NEW s \in Sockets, PeerAnswers(s)
  PROVE  SessionIOInv'
<1> USE DEF PeerAnswers, TypeOK, SocketType, clientVars, callVars, closeVars
<1>1. ASSUME NEW d \in Callers PROVE IOCallerInv(d)'
  BY DEF SessionIOInv, IOCallerInv, WatchInv, InterruptInv, SocketInv, WireInv, LateInv,
         CutInv, InIO, Err, Arming, AtDrop
<1>2. AlignInv'
  BY DEF SessionIOInv, AlignInv, Aligned, InSession, AtDrop
<1>3. CancelInv'
  BY DEF SessionIOInv, CancelInv
<1> QED BY <1>1, <1>2, <1>3 DEF SessionIOInv

\* Close cancels the life context before it closes the socket.
LEMMA CloseStepIO ==
  ASSUME TypeOK, SessionInv, SessionIOInv, Close
  PROVE  SessionIOInv'
<1> USE DEF TypeOK, SocketType, CloseType, clientVars, sockVars, callVars, CloseSockets
<1>a. ClientInv /\ state' # "ready" /\ UNCHANGED <<pc, callVars>>
  BY DEF SessionInv, ClientInv, Shut, Close, CloseMark, CloseCancel, CloseSocket,
         CloseFinish
<1>b. CancelInv'
  BY DEF SessionIOInv, CancelInv, Close, CloseMark, CloseCancel, CloseSocket, CloseFinish
<1>c. lifeDone => lifeDone'
  BY DEF Close, CloseMark, CloseCancel, CloseSocket, CloseFinish
<1>d. \/ UNCHANGED sockVars
      \/ lifeDone' /\ CloseSockets({closing})
  BY DEF Close, CloseMark, CloseCancel, CloseSocket, CloseFinish, SessionIOInv, CancelInv
<1>1. ASSUME NEW d \in Callers PROVE IOCallerInv(d)'
  <2>1. IOCallerInv(d)
    BY DEF SessionIOInv
  <2>2. WatchInv(d)' /\ LateInv(d)' /\ CutInv(d)'
    BY <1>a, <1>c, <2>1 DEF IOCallerInv, WatchInv, LateInv, CutInv, Arming, AtDrop
  <2>3. pc[d] \in {"arm"} \cup IOPoints => local[d] \in Sockets
    BY <2>1 DEF IOCallerInv, SocketInv, CallType
  <2>4. SocketInv(d)'
    BY <1>a, <1>c, <1>d, <2>1, <2>3 DEF IOCallerInv, SocketInv
  <2>5. InterruptInv(d)'
    BY <1>a, <1>d, <2>1, <2>3 DEF IOCallerInv, InterruptInv, InIO, Err, IOPoints
  <2>6. WireInv(d)'
    BY <1>a, <1>d, <2>1, <2>3 DEF IOCallerInv, WireInv, IOPoints
  <2> QED BY <2>2, <2>4, <2>5, <2>6 DEF IOCallerInv
<1>2. AlignInv'
  BY <1>a DEF AlignInv
<1> QED BY <1>1, <1>2, <1>b DEF SessionIOInv

\* The invariant of contexts, deadlines and frames holds in every reachable state.
THEOREM IOInvariantHolds == Spec => []SessionIOInv
<1>1. Init => SessionIOInv
  BY DEF Init, SessionIOInv, AlignInv, CancelInv, IOCallerInv, WatchInv, InterruptInv,
         SocketInv, WireInv, LateInv, CutInv, InIO, Arming, AtDrop, IOPoints, ClassifyPoints
<1>2. TypeOK /\ SessionInv /\ SessionIOInv /\ [Next]_vars => SessionIOInv'
  <2> SUFFICES ASSUME TypeOK, SessionInv, SessionIOInv, [Next]_vars PROVE SessionIOInv'
    OBVIOUS
  <2>1. CASE UNCHANGED vars
    BY <2>1 DEF vars, clientVars, sockVars, callVars, closeVars, SessionIOInv, AlignInv,
       Aligned, InSession, CancelInv, IOCallerInv, WatchInv, InterruptInv, SocketInv,
       WireInv, LateInv, CutInv, InIO, Err, Arming, AtDrop
  <2>2. ASSUME NEW c \in Callers, CallerStep(c) PROVE SessionIOInv'
    BY <2>2, IOStep
  <2>3. ASSUME NEW s \in Sockets, PeerAnswers(s) PROVE SessionIOInv'
    BY <2>3, PeerStepIO
  <2>4. CASE Close
    BY <2>4, CloseStepIO
  <2> QED BY <2>1, <2>2, <2>3, <2>4 DEF Next, CallerStep
<1> QED
  BY <1>1, <1>2, TypeCorrect, InvariantHolds, PTL DEF Spec

\* However calls fail, time out and are cancelled: when nobody owns the gate, a Ready
\* session has no request unanswered, no response unread and no deadline left.
THEOREM IdleAligned == Spec => []AlignedWhenIdle
<1>1. SessionInv /\ SessionIOInv => AlignedWhenIdle
  BY InSessionOwns, ConstantsAssumption DEF SessionIOInv, AlignInv, AlignedWhenIdle, Aligned
<1> QED BY <1>1, InvariantHolds, IOInvariantHolds, PTL

\* The watcher of armConnection never interrupts a call other than its own, in
\* particular not a later one on the same socket.
THEOREM OwnInterrupt == Spec => []NoStrayInterrupt
<1>1. SessionIOInv => NoStrayInterrupt
  BY DEF SessionIOInv, IOCallerInv, InterruptInv, NoStrayInterrupt
<1> QED BY <1>1, IOInvariantHolds, PTL

\* Every call that starts after Close has returned reports closed.
THEOREM LateIsClosed == Spec => []ClosedForGood
<1>1. SessionIOInv => ClosedForGood
  BY DEF SessionIOInv, IOCallerInv, LateInv, ClosedForGood
<1> QED BY <1>1, IOInvariantHolds, PTL

\* Every call whose read or write is ended by Close reports closed: Close cancels
\* the life context before it closes the socket, and classifyContextError looks at
\* it first.
THEOREM CutIsClosed == Spec => []CutIOReportsClosed
<1>1. SessionIOInv => CutIOReportsClosed
  BY DEF SessionIOInv, IOCallerInv, CutInv, CutIOReportsClosed
<1> QED BY <1>1, IOInvariantHolds, PTL
=============================================================================
