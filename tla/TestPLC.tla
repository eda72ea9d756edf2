------------------------------- MODULE TestPLC -------------------------------
(***************************************************************************)
(* The goroutines of the scripted PLC in src/internal/testplc/server.go:   *)
(* the accept loop, one handler per connection, the test that scripts      *)
(* faults and closes the server, and the clients, which come and go as     *)
(* they like.  What requests and answers say is the business of module     *)
(* Wire; here a request is a read, a write or one the server refuses.      *)
(***************************************************************************)
EXTENDS Naturals, FiniteSets

CONSTANTS
    Conns,          \* connections clients may open
    MaxRequests,    \* bound: requests of one client, handshake included
    MaxScripts      \* bound: faults the test scripts

ASSUME TestPLCAssumption ==
    IsFiniteSet(Conns) /\ "acceptor" \notin Conns /\ {MaxRequests, MaxScripts} \subseteq Nat

VARIABLES
    closed,         \* server.closed
    listening,      \* the listener is open
    backlog,        \* connections the kernel holds for Accept
    acceptor, accepted,    \* the accept loop and the connection it has accepted
    registered,     \* server.connections
    wg,             \* goroutines server.wg counts
    closer,         \* the goroutine in Close
    handler,        \* per connection: where its goroutine is
    conn,           \* per connection: the server's end
    client,         \* per connection: the client's end
    sent,           \* per connection: requests sent
    inbox,          \* per connection: a request the server has not read
    dropNext, delayNext,
    scripts,        \* bound: faults scripted
    firstError,     \* server.firstError # nil
    acceptFault     \* history: Accept has failed although the listener was open

acceptVars == <<listening, backlog, acceptor, accepted, registered, acceptFault>>
clientVars == <<client, sent>>
scriptVars == <<dropNext, delayNext, scripts>>
vars == <<closed, acceptVars, wg, closer, handler, conn, clientVars, inbox,
          scriptVars, firstError>>

Handshake == 2      \* frames before the data plane: connection request and setup
Requests(n) == {"malformed"} \cup (IF n < Handshake THEN {"handshake"} ELSE {"read", "write"})

Init ==
    /\ closed = FALSE /\ listening = TRUE /\ backlog = {}
    /\ acceptor = "accept" /\ accepted = {} /\ registered = {}
    /\ wg = {"acceptor"} /\ closer = "idle"
    /\ handler = [c \in Conns |-> "none"]
    /\ conn = [c \in Conns |-> "none"] /\ client = [c \in Conns |-> "none"]
    /\ sent = [c \in Conns |-> 0]
    /\ inbox = [c \in Conns |-> "none"]
    /\ dropNext = FALSE /\ delayNext = FALSE
    /\ scripts = 0 /\ firstError = FALSE /\ acceptFault = FALSE

-----------------------------------------------------------------------------
\* The clients and the test

Dial(c) ==
    /\ client[c] = "none" /\ listening
    /\ client' = [client EXCEPT ![c] = "open"]
    /\ backlog' = backlog \cup {c}
    /\ UNCHANGED <<closed, listening, acceptor, accepted, registered, acceptFault, wg, closer,
                   handler, conn, sent, inbox, scriptVars, firstError>>

Send(c) ==
    /\ client[c] = "open" /\ sent[c] < MaxRequests
    /\ inbox[c] = "none" /\ handler[c] \in {"none", "read"}
    /\ \E r \in Requests(sent[c]) : inbox' = [inbox EXCEPT ![c] = r]
    /\ sent' = [sent EXCEPT ![c] = @ + 1]
    /\ UNCHANGED <<closed, acceptVars, wg, closer, handler, conn, client,
                   scriptVars, firstError>>

\* With an answer unread or still to come the kernel may reset the connection.
HungUp(c) == client[c] = "gone" /\ sent[c] > 0

HangUp(c) ==
    /\ client[c] = "open"
    /\ client' = [client EXCEPT ![c] = "gone"]
    /\ UNCHANGED <<closed, acceptVars, wg, closer, handler, conn, sent, inbox,
                   scriptVars, firstError>>

\* DropNextWriteResponse and DelayNextResponse.  RejectNextItem and RejectItemAfter
\* change one return code of an answer and no step of the server.
Script ==
    /\ scripts < MaxScripts /\ scripts' = scripts + 1
    /\ \/ dropNext' = TRUE /\ UNCHANGED delayNext
       \/ delayNext' = TRUE /\ UNCHANGED dropNext
    /\ UNCHANGED <<closed, acceptVars, wg, closer, handler, conn, clientVars, inbox,
                   firstError>>

-----------------------------------------------------------------------------
\* acceptLoop

Accept(c) ==
    /\ acceptor = "accept" /\ listening /\ c \in backlog
    /\ backlog' = backlog \ {c} /\ accepted' = {c} /\ acceptor' = "register"
    /\ conn' = [conn EXCEPT ![c] = "open"]
    /\ UNCHANGED <<closed, listening, registered, acceptFault, wg, closer, handler, clientVars,
                   inbox, scriptVars, firstError>>

AcceptFailsRetried ==         \* mutant: an accept error does not end the loop
    /\ acceptor = "accept" /\ ~listening
    /\ firstError' = (firstError \/ ~closed)
    /\ UNCHANGED <<closed, acceptVars, wg, closer, handler, conn, clientVars, inbox,
                   scriptVars>>

\* Any error of Accept ends the loop; recordError unless the server is closed by then.
AcceptEnds ==
    /\ acceptor = "accept" /\ acceptor' = "done" /\ wg' = wg \ {"acceptor"}
    /\ firstError' = (firstError \/ ~closed)
    /\ UNCHANGED <<closed, listening, backlog, accepted, registered, closer, handler,
                   conn, clientVars, inbox, scriptVars>>

\* Accept fails because Close has closed the listener.
AcceptFails == ~listening /\ AcceptEnds /\ UNCHANGED acceptFault

\* Accept fails on an open listener, say for want of a file descriptor.  The kernel
\* goes on to take connections into the backlog.
AcceptBreaks == listening /\ AcceptEnds /\ acceptFault' = TRUE

Register ==
    /\ acceptor = "register" /\ acceptor' = "spawn"
    /\ registered' = registered \cup accepted
    /\ UNCHANGED <<closed, listening, backlog, accepted, acceptFault, wg, closer, handler, conn,
                   clientVars, inbox, scriptVars, firstError>>

\* wg.Add and the go statement.
Spawn ==
    /\ acceptor = "spawn" /\ acceptor' = "accept"
    /\ wg' = wg \cup accepted /\ accepted' = {}
    /\ handler' = [c \in Conns |-> IF c \in accepted THEN "read" ELSE handler[c]]
    /\ UNCHANGED <<closed, listening, backlog, registered, acceptFault, closer, conn, clientVars,
                   inbox, scriptVars, firstError>>

-----------------------------------------------------------------------------
\* handleConnection.  A handler ends in the deferred calls: unregister, close,
\* wg.Done.

To(c, place) == handler' = [handler EXCEPT ![c] = place]

\* ReadFrame returns a request; recordRequest.
ReadRequest(c) ==
    /\ handler[c] = "read" /\ conn[c] = "open" /\ inbox[c] \notin {"none", "malformed"}
    /\ To(c, IF inbox[c] = "handshake" THEN "ack" ELSE "delay")
    /\ inbox' = [inbox EXCEPT ![c] = IF @ = "handshake" THEN "none" ELSE @]
    /\ UNCHANGED <<closed, acceptVars, wg, closer, conn, clientVars, scriptVars,
                   firstError>>

\* A request no parser accepts, or of another function, ends the session.
Refuse(c) ==
    /\ handler[c] = "read" /\ conn[c] = "open" /\ inbox[c] = "malformed"
    /\ firstError' = TRUE /\ To(c, "unregister")
    /\ UNCHANGED <<closed, acceptVars, wg, closer, conn, clientVars, inbox, scriptVars>>

\* ReadFrame fails: net.ErrClosed after Close, io.EOF after the client has gone, or
\* a reset, which isExpectedClose does not know.
ReadFails(c) ==
    /\ handler[c] = "read"
    /\ conn[c] = "closed" \/ (client[c] = "gone" /\ inbox[c] = "none")
    /\ \E unexpected \in {FALSE} \cup {conn[c] = "open" /\ HungUp(c)} :
         firstError' = (firstError \/ unexpected)
    /\ To(c, "unregister")
    /\ UNCHANGED <<closed, acceptVars, wg, closer, conn, clientVars, inbox, scriptVars>>

\* delayResponse: take the delay, then wait for the timer or for closed.
Delay(c) ==
    /\ handler[c] = "delay" /\ delayNext' = FALSE
    /\ To(c, IF delayNext THEN "sleep" ELSE "reply")
    /\ UNCHANGED <<closed, acceptVars, wg, closer, conn, clientVars, inbox, dropNext,
                   scripts, firstError>>

WakeOnClose(c) ==             \* mutant: the delay ends only when the server closes
    /\ handler[c] = "sleep" /\ closed
    /\ To(c, "reply")
    /\ UNCHANGED <<closed, acceptVars, wg, closer, conn, clientVars, inbox, scriptVars,
                   firstError>>

Wake(c) ==
    /\ handler[c] = "sleep"
    /\ To(c, "reply")
    /\ UNCHANGED <<closed, acceptVars, wg, closer, conn, clientVars, inbox, scriptVars,
                   firstError>>

\* consumeDropWriteResponse, for a write.
Reply(c) ==
    /\ handler[c] = "reply"
    /\ LET drop == inbox[c] = "write" /\ dropNext
       IN /\ To(c, IF drop THEN "unregister" ELSE "ack")
          /\ dropNext' = IF inbox[c] = "write" THEN FALSE ELSE dropNext
    /\ inbox' = [inbox EXCEPT ![c] = "none"]
    /\ UNCHANGED <<closed, acceptVars, wg, closer, conn, clientVars, delayNext,
                   scripts, firstError>>

\* writeAck: on a connection Close has closed it fails with net.ErrClosed; to a
\* client that has gone it succeeds or fails with a broken pipe.
Ack(c) ==
    /\ handler[c] = "ack"
    /\ \/ /\ conn[c] = "open" /\ To(c, "read") /\ UNCHANGED firstError
       \/ conn[c] = "closed" /\ To(c, "unregister") /\ UNCHANGED firstError
       \/ conn[c] = "open" /\ HungUp(c) /\ To(c, "unregister") /\ firstError' = TRUE
    /\ UNCHANGED <<closed, acceptVars, wg, closer, conn, clientVars, inbox,
                   scriptVars>>

Unregister(c) ==
    /\ handler[c] = "unregister"
    /\ registered' = registered \ {c}
    /\ To(c, "close")
    /\ UNCHANGED <<closed, listening, backlog, acceptor, accepted, acceptFault, wg, closer, conn,
                   clientVars, inbox, scriptVars, firstError>>

CloseConnection(c) ==
    /\ handler[c] = "close"
    /\ conn' = [conn EXCEPT ![c] = "closed"]
    /\ To(c, "finish")
    /\ UNCHANGED <<closed, acceptVars, wg, closer, clientVars, inbox, scriptVars, firstError>>

\* wg.Done
Finish(c) ==
    /\ handler[c] = "finish"
    /\ wg' = wg \ {c}
    /\ To(c, "done")
    /\ UNCHANGED <<closed, acceptVars, closer, conn, clientVars, inbox, scriptVars,
                   firstError>>

-----------------------------------------------------------------------------
\* Close

CloseChannelForgotten ==      \* mutant: only the listener is closed
    /\ closer = "idle" /\ closer' = "listener"
    /\ UNCHANGED <<closed, acceptVars, wg, handler, conn, clientVars, inbox,
                   scriptVars, firstError>>

CloseChannel ==
    /\ closer = "idle" /\ closer' = "listener"
    /\ closed' = TRUE
    /\ UNCHANGED <<acceptVars, wg, handler, conn, clientVars, inbox, scriptVars,
                   firstError>>

\* The kernel drops the connections nobody has accepted.
CloseListener ==
    /\ closer = "listener" /\ closer' = "connections"
    /\ listening' = FALSE /\ backlog' = {}
    /\ UNCHANGED <<closed, acceptor, accepted, registered, acceptFault, wg, handler, conn,
                   clientVars, inbox, scriptVars, firstError>>

CloseConnections ==
    /\ closer = "connections" /\ closer' = "wait"
    /\ conn' = [c \in Conns |-> IF c \in registered THEN "closed" ELSE conn[c]]
    /\ UNCHANGED <<closed, acceptVars, wg, handler, clientVars, inbox, scriptVars,
                   firstError>>

\* wg.Wait returns.
CloseReturns ==
    /\ closer = "wait" /\ wg = {} /\ closer' = "done"
    /\ UNCHANGED <<closed, acceptVars, wg, handler, conn, clientVars, inbox,
                   scriptVars, firstError>>

Handle(c) ==
    \/ ReadRequest(c) \/ Refuse(c) \/ ReadFails(c) \/ Delay(c) \/ Wake(c) \/ Reply(c)
    \/ Ack(c) \/ Unregister(c) \/ CloseConnection(c) \/ Finish(c)
AcceptLoop == (\E c \in Conns : Accept(c)) \/ AcceptFails \/ Register \/ Spawn
Closing == CloseListener \/ CloseConnections \/ CloseReturns

Next ==
    \/ \E c \in Conns : Dial(c) \/ Send(c) \/ HangUp(c) \/ Handle(c)
    \/ Script \/ AcceptLoop \/ AcceptBreaks \/ CloseChannel \/ Closing

\* Goroutines that can run do run, and timers fire; nothing is assumed of clients, and
\* nothing makes Accept fail on an open listener.
Spec ==
    /\ Init /\ [][Next]_vars
    /\ WF_vars(AcceptLoop) /\ WF_vars(Closing)
    /\ \A c \in Conns : WF_vars(Handle(c))

-----------------------------------------------------------------------------
\* Properties

ClientsLeave == \A c \in Conns : WF_vars(HangUp(c))

\* The comment on Close: it stops the listener and all active sessions; so it
\* returns whatever the clients do.
CloseStopsSessions == closer # "idle" ~> closer = "done"

\* Close returns once the clients have gone, in whatever state it meets the accept
\* loop and the handlers.
CloseReturnsInTheEnd == ClientsLeave => CloseStopsSessions

\* After Close has returned no goroutine and no connection of the server is left,
\* and Err reports nothing that Close itself caused: only a client that left in
\* mid-session or sent what no parser accepts, or an Accept that failed while the
\* listener was open, makes an error.
CloseIsClean ==
    /\ closer = "done" =>
         /\ acceptor = "done" /\ registered = {}
         /\ \A c \in Conns : handler[c] \in {"none", "done"} /\ conn[c] # "open"
    /\ firstError => acceptFault \/ \E c \in Conns : HungUp(c) \/ inbox[c] = "malformed"

\* A client that waits for an answer gets it or sees its connection end, whatever
\* the test has scripted, whoever else is served and whenever Close comes.  The one
\* exception: if Accept has failed by itself, acceptLoop is over, and a client that is
\* still in the backlog waits there until Close.
Waiting(c) == client[c] = "open" /\ sent[c] > 0 /\ ~(inbox[c] = "none" /\ handler[c] = "read")
Ended(c) == conn[c] = "closed" \/ (c \notin backlog /\ conn[c] = "none")
Stranded(c) == acceptFault /\ ~closed /\ c \in backlog
NoClientIsLeftWaiting ==
    \A c \in Conns : Waiting(c) ~> (~Waiting(c) \/ Ended(c) \/ Stranded(c))

-----------------------------------------------------------------------------
\* The inductive invariant behind CloseIsClean

Active == {"read", "delay", "sleep", "reply", "ack", "unregister", "close", "finish"}

TypeInv ==
    /\ {closed, listening, dropNext, delayNext, firstError, acceptFault} \subseteq BOOLEAN
    /\ acceptor \in {"accept", "register", "spawn", "done"}
    /\ closer \in {"idle", "listener", "connections", "wait", "done"}
    /\ backlog \subseteq Conns /\ accepted \subseteq Conns
    /\ handler \in [Conns -> Active \cup {"none", "done"}]
    /\ conn \in [Conns -> {"none", "open", "closed"}]
    /\ client \in [Conns -> {"none", "open", "gone"}]
    /\ sent \in [Conns -> Nat]
    /\ inbox \in [Conns -> {"none", "malformed", "handshake", "read", "write"}]

\* Where Close has come to, and what the accept loop may still do.
CloserInv ==
    /\ closed <=> closer # "idle"
    /\ listening <=> closer \in {"idle", "listener"}
    /\ ~listening => backlog = {}
    /\ acceptor = "done" => ~listening \/ acceptFault
    /\ acceptor \in {"accept", "done"} => accepted = {}
    /\ closer = "done" => wg = {}

\* The wait group counts the goroutines that run, and the accept loop adds a
\* handler while it is counted itself.
GroupInv ==
    wg = {c \in Conns : handler[c] \in Active}
           \cup (IF acceptor = "done" THEN {} ELSE {"acceptor"})

\* A connection belongs to the kernel, to the accept loop or to its handler.
ConnInv(c) ==
    /\ client[c] = "none" => c \notin backlog \cup accepted /\ handler[c] = "none"
    /\ c \in backlog \cup accepted => handler[c] = "none"
    /\ c \in backlog => c \notin accepted
    /\ c \in registered =>
         (c \in accepted /\ acceptor = "spawn") \/ handler[c] \in Active \ {"close", "finish"}
    /\ conn[c] = "open" => c \in accepted \/ handler[c] \in Active \ {"finish"}
    /\ handler[c] \in {"delay", "sleep", "reply"} => inbox[c] # "malformed"

\* The goroutines of the server at every step of Close: who is counted, who owns
\* which connection, and which errors there may be.
ServerInv ==
    /\ TypeInv /\ CloserInv /\ GroupInv
    /\ registered \subseteq Conns
    /\ \A c \in Conns : ConnInv(c)
    /\ firstError => acceptFault \/ \E c \in Conns : HungUp(c) \/ inbox[c] = "malformed"
=============================================================================
