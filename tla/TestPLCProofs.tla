---------------------------- MODULE TestPLCProofs ----------------------------
(***************************************************************************)
(* The scripted PLC stops cleanly for every set of connections and any     *)
(* number of requests and of scripted faults.  CloseIsClean follows from   *)
(* ServerInv: when Close returns the wait group is empty, it counts every  *)
(* goroutine that runs, and each open or registered connection belongs to  *)
(* one of them.                                                            *)
(***************************************************************************)
EXTENDS TestPLC, TLAPS

LEMMA InitServer == Init => ServerInv
  <1> SUFFICES ASSUME Init PROVE ServerInv
    OBVIOUS
  <1>1. TypeInv /\ registered \subseteq Conns
    BY DEF Init, TypeInv
  <1>2. CloserInv
    BY DEF Init, CloserInv
  <1>3. GroupInv
    BY DEF Init, GroupInv, Active
  <1>4. \A c \in Conns : ConnInv(c)
    BY DEF Init, ConnInv, Active
  <1>5. ~firstError
    BY DEF Init
  <1> QED BY <1>1, <1>2, <1>3, <1>4, <1>5 DEF ServerInv

-----------------------------------------------------------------------------
\* The clients and the test do not move a goroutine of the server.
LEMMA ClientServer ==
    ASSUME ServerInv, Script \/ \E c \in Conns : Dial(c) \/ Send(c) \/ HangUp(c)
    PROVE  ServerInv'
  <1> USE DEF ServerInv, TypeInv, CloserInv, GroupInv, ConnInv, Active, HungUp,
              acceptVars, clientVars, scriptVars
  <1>1. ASSUME NEW c \in Conns, Dial(c) PROVE ServerInv'
    BY <1>1 DEF Dial
  <1>2. ASSUME NEW c \in Conns, Send(c) PROVE ServerInv'
    BY <1>2 DEF Send, Requests
  <1>3. ASSUME NEW c \in Conns, HangUp(c) PROVE ServerInv'
    BY <1>3 DEF HangUp
  <1>4. ASSUME Script PROVE ServerInv'
    BY <1>4 DEF Script
  <1> QED BY <1>1, <1>2, <1>3, <1>4

\* The accept loop hands a connection from the kernel to a handler, and leaves
\* the wait group when Accept fails: after Close, or by itself.
LEMMA AcceptLoopServer == ASSUME ServerInv, AcceptLoop \/ AcceptBreaks PROVE ServerInv'
  <1> USE TestPLCAssumption
      DEF ServerInv, TypeInv, CloserInv, GroupInv, ConnInv, Active, HungUp,
          acceptVars, clientVars, scriptVars
  <1>1. ASSUME NEW c \in Conns, Accept(c) PROVE ServerInv'
    BY <1>1 DEF Accept
  <1>2. ASSUME AcceptFails PROVE ServerInv'
    BY <1>2 DEF AcceptFails, AcceptEnds
  <1>3. ASSUME AcceptBreaks PROVE ServerInv'
    BY <1>3 DEF AcceptBreaks, AcceptEnds
  <1>4. ASSUME Register PROVE ServerInv'
    BY <1>4 DEF Register
  <1>5. ASSUME Spawn PROVE ServerInv'
    BY <1>5 DEF Spawn
  <1> QED BY <1>1, <1>2, <1>3, <1>4, <1>5 DEF AcceptLoop

\* An acknowledgement moves the handler on, or ends it with an error only if its
\* client has hung up.
LEMMA AckServer == ASSUME ServerInv, NEW c \in Conns, Ack(c) PROVE ServerInv'
  <1> USE DEF acceptVars, clientVars, scriptVars
  <1>1. PICK place \in {"read", "unregister"} : handler' = [handler EXCEPT ![c] = place]
    BY DEF Ack, To
  <1>2. firstError' = firstError \/ (firstError' = TRUE /\ HungUp(c))
    BY DEF Ack
  <1>3. handler[c] = "ack" /\ UNCHANGED <<closed, acceptVars, wg, closer, conn, clientVars,
                                          inbox, scriptVars>>
    BY DEF Ack
  <1>4. TypeInv' /\ (registered \subseteq Conns)'
    BY <1>1, <1>2, <1>3 DEF ServerInv, TypeInv, Active
  <1>5. CloserInv' /\ GroupInv'
    BY <1>1, <1>3 DEF ServerInv, CloserInv, GroupInv, TypeInv, Active
  <1>6. \A d \in Conns : ConnInv(d)'
    BY <1>1, <1>3 DEF ServerInv, ConnInv, TypeInv, Active
  <1>7. (firstError => acceptFault \/ \E d \in Conns : HungUp(d) \/ inbox[d] = "malformed")'
    BY <1>2, <1>3 DEF ServerInv, HungUp
  <1> QED BY <1>4, <1>5, <1>6, <1>7 DEF ServerInv

\* A handler owns its connection until it has left server.connections, closed it
\* and left the wait group, in this order.
LEMMA HandleServer == ASSUME ServerInv, NEW c \in Conns, Handle(c) PROVE ServerInv'
  <1> USE TestPLCAssumption
      DEF ServerInv, TypeInv, CloserInv, GroupInv, ConnInv, Active, HungUp, To,
          acceptVars, clientVars, scriptVars
  <1>1. ASSUME ReadRequest(c) PROVE ServerInv'
    BY <1>1 DEF ReadRequest
  <1>2. ASSUME Refuse(c) PROVE ServerInv'
    BY <1>2 DEF Refuse
  <1>3. ASSUME ReadFails(c) PROVE ServerInv'
    BY <1>3, ZenonT(60) DEF ReadFails
  <1>4. ASSUME Delay(c) PROVE ServerInv'
    BY <1>4, ZenonT(60) DEF Delay
  <1>5. ASSUME Wake(c) PROVE ServerInv'
    BY <1>5 DEF Wake
  <1>6. ASSUME Reply(c) PROVE ServerInv'
    BY <1>6, ZenonT(60) DEF Reply
  <1>7. ASSUME Unregister(c) PROVE ServerInv'
    BY <1>7 DEF Unregister
  <1>8. ASSUME CloseConnection(c) PROVE ServerInv'
    BY <1>8 DEF CloseConnection
  <1>9. ASSUME Finish(c) PROVE ServerInv'
    BY <1>9 DEF Finish
  <1> QED BY <1>1, <1>2, <1>3, <1>4, <1>5, <1>6, <1>7, <1>8, <1>9, AckServer DEF Handle

\* Close works beside all of them, and returns when the wait group is empty.
LEMMA CloseServer == ASSUME ServerInv, CloseChannel \/ Closing PROVE ServerInv'
  <1> USE DEF ServerInv, TypeInv, CloserInv, GroupInv, ConnInv, Active, HungUp,
              acceptVars, clientVars, scriptVars
  <1>1. ASSUME CloseChannel PROVE ServerInv'
    BY <1>1 DEF CloseChannel
  <1>2. ASSUME CloseListener PROVE ServerInv'
    BY <1>2 DEF CloseListener
  <1>3. ASSUME CloseConnections PROVE ServerInv'
    BY <1>3 DEF CloseConnections
  <1>4. ASSUME CloseReturns PROVE ServerInv'
    BY <1>4 DEF CloseReturns
  <1> QED BY <1>1, <1>2, <1>3, <1>4 DEF Closing

LEMMA NextServer == ServerInv /\ [Next]_vars => ServerInv'
  <1> SUFFICES ASSUME ServerInv, [Next]_vars PROVE ServerInv'
    OBVIOUS
  <1>1. CASE Next
    BY <1>1, ClientServer, AcceptLoopServer, HandleServer, CloseServer DEF Next
  <1>2. CASE UNCHANGED vars
    BY <1>2 DEF vars, acceptVars, clientVars, scriptVars, ServerInv, TypeInv, CloserInv,
                GroupInv, ConnInv, Active, HungUp
  <1> QED BY <1>1, <1>2

-----------------------------------------------------------------------------
\* The bookkeeping of acceptLoop, handleConnection and Close: the wait group, the
\* set of connections, the listener and the first error agree at every step.
THEOREM ServerInvariant == Spec => []ServerInv
  <1>1. Init => ServerInv
    BY InitServer
  <1>2. ServerInv /\ [Next]_vars => ServerInv'
    BY NextServer
  <1> QED BY <1>1, <1>2, PTL DEF Spec

\* After Close has returned no goroutine and no connection of the server is left,
\* and Err reports nothing that Close itself caused: a client's fault, or an Accept
\* that failed on the open listener.
THEOREM ServerCloseIsClean == Spec => []CloseIsClean
  <1>1. ServerInv => CloseIsClean
    <2> SUFFICES ASSUME ServerInv PROVE CloseIsClean
      OBVIOUS
    <2>1. ASSUME closer = "done"
          PROVE  acceptor = "done" /\ accepted = {}
                 /\ \A c \in Conns : handler[c] \in {"none", "done"}
      BY <2>1 DEF ServerInv, TypeInv, CloserInv, GroupInv
    <2>2. ASSUME closer = "done"
          PROVE  registered = {} /\ \A c \in Conns : conn[c] # "open"
      BY <2>1, <2>2 DEF ServerInv, ConnInv, Active
    <2> QED BY <2>1, <2>2 DEF CloseIsClean, ServerInv
  <1> QED BY <1>1, ServerInvariant, PTL
=============================================================================
